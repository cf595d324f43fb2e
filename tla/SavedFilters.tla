---------------------------- MODULE SavedFilters ----------------------------
(***************************************************************************)
(* Personal and shared filters (app/services/personal_filters.py,          *)
(* shared_filters.py) and the panel that lists and changes them            *)
(* (static/saved-filters.js).  The panel keeps the rows it was drawn with, *)
(* sends updated_at of one of them as its revision, waits for the answer   *)
(* and loads the page again.                                               *)
(*                                                                         *)
(* Names are compared by the service only, under the write lock; there is  *)
(* no unique index.  A definition whose references do not resolve, and     *)
(* every other rejection, changes nothing.                                 *)
(***************************************************************************)
EXTENDS WebState

VARIABLE filters    \* id -> row

Scope == User \cup {Shared}     \* an owner, or the project
Time == 1 .. MaxTime
FilterRow == [scope : Scope, name : FilterName, def : Definition, rev : Time]

FiltersInit == filters = <<>>

Visible(u) ==
    [id \in {i \in DOMAIN filters : filters[i].scope \in {u, Shared}} |-> filters[id]]

\* The list or the board with some conditions applied; those of a filter that
\* was loaded are among them.
OpenPanel(u, d) ==
    /\ "panel" \in visited
    /\ Member(u)
    /\ Show(u, [page |-> "panel", rows |-> Visible(u), applied |-> d])
    /\ UNCHANGED <<access, filters>>

MayManage(u, scope) ==
    \/ scope = u /\ Member(u)
    \/ scope = Shared /\ role[u] = "ADMIN" /\ projectActive

NameFreeOnPage(u, scope, name, id) ==   \* mutant: compared with the rows shown
    \A i \in DOMAIN tab[u].rows \ {id} :
        ~ (tab[u].rows[i].scope = scope /\ tab[u].rows[i].name = name)

NameFree(u, scope, name, id) ==
    \A i \in DOMAIN filters \ {id} : ~ (filters[i].scope = scope /\ filters[i].name = name)

\* SQLite gives a row the id after the highest.
NextId(id) ==
    /\ \A i \in DOMAIN filters : i < id
    /\ id = 1 \/ id - 1 \in DOMAIN filters

CreateFilter(u, id, scope, name, now) ==
    /\ tab[u].page = "panel"
    /\ MayManage(u, scope)
    /\ NextId(id)
    /\ NameFree(u, scope, name, id)
    /\ LET row == [scope |-> scope, name |-> name, def |-> tab[u].applied, rev |-> now] IN
       filters' = [i \in DOMAIN filters \cup {id} |-> IF i = id THEN row ELSE filters[i]]
    /\ Show(u, NoPage)
    /\ UNCHANGED access

\* The row is in the scope that the endpoint of the page names, and its
\* revision is the one the page shows.
CurrentRow(u, id) ==
    /\ tab[u].page = "panel"
    /\ id \in DOMAIN tab[u].rows \cap DOMAIN filters
    /\ filters[id].scope = tab[u].rows[id].scope
    /\ MayManage(u, filters[id].scope)
    /\ filters[id].rev = tab[u].rows[id].rev

RevisionNow(old, now) == now    \* mutant: the time of the change, whatever it was before

Revision(old, now) == IF now > old THEN now ELSE old + 1

\* The clock may stand still or have been set back.
ChangeFilter(u, id, name, def, now) ==
    /\ CurrentRow(u, id)
    /\ NameFree(u, filters[id].scope, name, id)
    /\ LET old == filters[id]
           row == [scope |-> old.scope, name |-> name, def |-> def,
                   rev |-> Revision(old.rev, now)] IN
       \/ name = old.name /\ def = old.def /\ UNCHANGED filters
       \/ /\ name # old.name \/ def # old.def
          /\ row.rev <= MaxTime
          /\ filters' = [filters EXCEPT ![id] = row]
    /\ Show(u, NoPage)
    /\ UNCHANGED access

RenameFilter(u, id, name, now) ==
    /\ CurrentRow(u, id)
    /\ ChangeFilter(u, id, name, filters[id].def, now)

OverwriteFilter(u, id, now) ==
    /\ CurrentRow(u, id)
    /\ ChangeFilter(u, id, filters[id].name, tab[u].applied, now)

DeleteFilter(u, id) ==
    /\ CurrentRow(u, id)
    /\ filters' = [i \in DOMAIN filters \ {id} |-> filters[i]]
    /\ Show(u, NoPage)
    /\ UNCHANGED access

\* Assumed of the clock, checked by no service: a row that gets the id of a
\* deleted one is younger than what pages still show of that id.
StampOfNew(id, now) ==
    \A u \in User : tab[u].page = "panel" /\ id \in DOMAIN tab[u].rows
                        => tab[u].rows[id].rev < now

FiltersNext ==
    \E u \in User :
        \/ \E d \in Definition : OpenPanel(u, d)
        \/ \E id \in 1 .. MaxFilter, scope \in Scope, name \in FilterName, now \in Time :
              StampOfNew(id, now) /\ CreateFilter(u, id, scope, name, now)
        \/ \E id \in DOMAIN filters :
              \/ \E name \in FilterName, now \in Time : RenameFilter(u, id, name, now)
              \/ \E now \in Time : OverwriteFilter(u, id, now)
              \/ DeleteFilter(u, id)

-----------------------------------------------------------------------------
(* Properties *)

\* Filters of one owner, and the shared ones, have different names, whoever
\* creates and renames them from whatever he was shown.
FilterNamesDistinct ==
    \A i, j \in DOMAIN filters :
        i # j /\ filters[i].scope = filters[j].scope => filters[i].name # filters[j].name

\* A filter is changed or deleted only by somebody who may manage it and whose
\* page showed it exactly as it was: a revision never comes back to a row, also
\* when the clock stands still or is set back between its changes.  That a row
\* does not pass for a deleted one with its id rests on StampOfNew.
ChangesRowsAsShown ==
    [][ \A id \in DOMAIN filters :
          (id \notin DOMAIN filters' \/ filters'[id] # filters[id]) =>
            \E u \in User :
               /\ tab[u].page = "panel" /\ tab'[u] # tab[u]
               /\ id \in DOMAIN tab[u].rows /\ tab[u].rows[id] = filters[id]
               /\ MayManage(u, filters[id].scope) ]_filters
=============================================================================

------------------------------ MODULE WebPages ------------------------------
(***************************************************************************)
(* The pages of a project that change it: users go from page to page, each *)
(* with what it was drawn from, while others change the rows, the roles    *)
(* and the project.                                                        *)
(***************************************************************************)
EXTENDS EditForms, SavedFilters

vars == <<projectActive, role, visited, tab, ticket, filters>>

Init == WebInit /\ FormsInit /\ FiltersInit

Next ==
    \/ FormsNext /\ UNCHANGED filters
    \/ FiltersNext /\ UNCHANGED ticket
    \/ ChangeAccess /\ UNCHANGED <<ticket, filters>>

Spec == Init /\ [][Next]_vars
=============================================================================

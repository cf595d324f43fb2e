------------------------------ MODULE WebState ------------------------------
(***************************************************************************)
(* What the web pages of one project share: the roles that every request   *)
(* is checked against and the page that each user has open.  A page shows  *)
(* what the server held when it answered, and its forms carry the versions *)
(* of that moment.  The pages are in EditForms and SavedFilters; WebPages  *)
(* composes them.                                                          *)
(*                                                                         *)
(* A user has one page open at a time; someone with two windows is two     *)
(* users here.                                                             *)
(***************************************************************************)
EXTENDS Naturals, FiniteSets

CONSTANTS
    User,
    Content,        \* values of the fields that the edit form holds
    FirstContent,
    FilterName, Definition,
    RequestedRole,  \* roles that accounts are given
    Shared,         \* scope of the filters of the whole project
    MaxVersion,     \* bound: versions of the ticket
    MaxFilter,      \* bound: filter ids
    MaxTime,        \* bound: time stamps of filters
    PageMixes       \* bound: the kinds of pages that are visited in one behaviour

PageKind == {"edit", "detail", "board", "panel"}
Role == {"NONE", "GUEST", "USER", "ADMIN"}

ASSUME WebAssumption ==
    /\ Shared \notin User
    /\ FirstContent \in Content
    /\ RequestedRole \subseteq Role
    /\ MaxVersion \in Nat /\ MaxFilter \in Nat /\ MaxTime \in Nat
    /\ PageMixes \subseteq SUBSET PageKind

VARIABLES
    projectActive,  \* projects.is_active
    role,           \* what an account may do in the project; "NONE": it sees nothing
    visited,        \* the kinds of pages of this behaviour, one of PageMixes
    tab             \* the page that a user has open

access == <<projectActive, role, visited>>

Member(u) == role[u] # "NONE"
Writer(u) == role[u] \in {"USER", "ADMIN"}

NoPage == [page |-> "none"]
Show(u, p) == tab' = [tab EXCEPT ![u] = p]

WebInit ==
    /\ projectActive = TRUE
    /\ role \in [User -> RequestedRole]
    /\ visited \in PageMixes
    /\ tab = [u \in User |-> NoPage]

\* Members come, go and change roles, system administrators take the rights of
\* an administrator, the project is closed and opened again.
ChangeAccess ==
    /\ \/ /\ \E u \in User, r \in RequestedRole : role' = [role EXCEPT ![u] = r]
          /\ UNCHANGED projectActive
       \/ projectActive' = ~ projectActive /\ UNCHANGED role
    /\ UNCHANGED <<visited, tab>>
=============================================================================

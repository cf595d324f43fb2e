----------------------------- MODULE ProjectOps -----------------------------
(***************************************************************************)
(* app/services/projects.py: update_project, add_project_member,           *)
(* update_project_member_role and remove_project_member, and               *)
(* app/services/administration.py: update_user as far as accounts decide   *)
(* who may act on the project and who may be an assignee.  Names,          *)
(* descriptions and favourites are left out; organizations and sessions    *)
(* are other components.                                                   *)
(***************************************************************************)
EXTENDS WorkState

Rank == [GUEST |-> 0, USER |-> 1, ADMIN |-> 2]

UpdateProject(a, active) ==
    /\ CanManage(a)
    /\ active # projectActive
    /\ projectActive' = active
    /\ UNCHANGED <<ticketVars, expiredUpTo, role, accountVars>>

AddMember(a, u, r) ==
    /\ CanManage(a) /\ projectActive
    /\ userActive[u]
    /\ role[u] = "NONE"
    /\ role' = [role EXCEPT ![u] = r]
    /\ UNCHANGED <<ticketVars, expiredUpTo, projectActive, accountVars>>

\* The mutated form never counts.
AnyAdministratorMayGo(u) == u \in User

\* project_administrator_count > 1 whenever an administrator steps down; the
\* count is over the membership rows, whether or not the accounts are active.
AnotherAdministrator(u) ==
    role[u] = "ADMIN" => \E o \in User \ {u} : role[o] = "ADMIN"

\* The mutated form misses the work that is on hold.
NoWorkInProgress(u) ==
    \A t \in Tickets :
        ~(Active(t) /\ ticket[t].assignee = u /\ ticket[t].status \in {"TODO", "IN_PROGRESS"})

\* ~has_active_ticket_assignments
NoOpenAssignment(u) ==
    \A t \in Tickets :
        ~(Active(t) /\ ticket[t].assignee = u /\ ticket[t].status \notin Terminal)

\* The mutated form ignores what is frozen.
ExpansionUnchecked(u, r) == u \in User

\* A wider role needs an active project and an active account.
RoleChangeAllowed(u, r) ==
    Rank[r] > Rank[role[u]] => projectActive /\ userActive[u]

UpdateMemberRole(a, u, r) ==
    /\ CanManage(a)
    /\ role[u] \in Role /\ r # role[u]
    /\ RoleChangeAllowed(u, r)
    /\ AnotherAdministrator(u)
    /\ r = "GUEST" => NoOpenAssignment(u)
    /\ role' = [role EXCEPT ![u] = r]
    /\ UNCHANGED <<ticketVars, expiredUpTo, projectActive, accountVars>>

RemoveMember(a, u) ==
    /\ CanManage(a)
    /\ role[u] \in Role
    /\ AnotherAdministrator(u)
    /\ NoOpenAssignment(u)
    /\ role' = [role EXCEPT ![u] = "NONE"]
    /\ UNCHANGED <<ticketVars, expiredUpTo, projectActive, accountVars>>

-----------------------------------------------------------------------------
\* active_system_administrator_count over the other accounts is positive.
AnotherSystemAdmin(u) == \E o \in systemAdmins \ {u} : userActive[o]

\* System role and activity of an account.  Deactivation looks neither at the
\* tickets nor at the memberships of the account.
UpdateUser(a, u, active, admin) ==
    /\ IsSystemAdmin(a)
    /\ IsSystemAdmin(u) /\ ~(active /\ admin) => AnotherSystemAdmin(u)
    /\ userActive' = [userActive EXCEPT ![u] = active]
    /\ systemAdmins' = IF admin THEN systemAdmins \cup {u} ELSE systemAdmins \ {u}
    /\ accountVars' # accountVars
    /\ UNCHANGED <<ticketVars, expiredUpTo, memberVars>>
=============================================================================

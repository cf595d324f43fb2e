----------------------------- MODULE WorkSystem -----------------------------
(***************************************************************************)
(* One project as its services leave it: any sequence of the operations of *)
(* TicketOps, RelationOps, TrashOps and ProjectOps, each one transaction,  *)
(* by any account, interleaved with the passage of the trash retention.    *)
(***************************************************************************)
EXTENDS TicketOps, RelationOps, TrashOps, ProjectOps

\* create_project stores the project and its first administrator together.
Init ==
    /\ nextNumber = 1
    /\ ticket = << >>
    /\ relations = {}
    /\ batches = << >>
    /\ expiredUpTo = 0
    /\ logged = << >>
    /\ projectActive = TRUE
    /\ role = [u \in User |-> IF u = FirstAdmin THEN "ADMIN" ELSE "NONE"]
    /\ userActive = [u \in User |-> TRUE]
    /\ systemAdmins = FirstSystemAdmins

\* The version that a request names is compared with the row's; a request that
\* names any other version is refused.
TicketStep ==
    \E a \in User :
        \/ \E type \in RequestedType, title \in Title, p \in {0} \cup Tickets,
              w \in {NoUser} \cup Assignable : CreateTicket(a, type, title, p, w)
        \/ \E t \in Tickets : LET seen == ticket[t].version IN
              \/ \E title \in Title, p \in {0} \cup Tickets,
                    w \in {NoUser, ticket[t].assignee} \cup Assignable :
                    UpdateTicket(a, t, seen, title, p, w)
              \/ \E target \in RequestedStatus, confirm \in BOOLEAN :
                    TransitionTicket(a, t, seen, target, confirm)
              \/ AttachFile(a, t, seen)

RelationStep ==
    \E a \in User, t \in Tickets : LET seen == ticket[t].version IN
        \/ \E o \in Tickets, kind \in RequestedLink : CreateRelation(a, t, seen, o, kind)
        \/ \E r \in relations : DeleteRelation(a, t, seen, r)

TrashStep ==
    \/ \E a \in User, t \in Tickets : MoveToTrash(a, t, ticket[t].version)
    \/ \E a \in User, b \in DOMAIN batches :
          RestoreBatch(a, b, ticket[batches[b].root].version)
    \/ RetentionPasses

ProjectStep ==
    \E a \in User :
        \/ \E active \in BOOLEAN : UpdateProject(a, active)
        \/ \E u \in User, r \in Role : AddMember(a, u, r) \/ UpdateMemberRole(a, u, r)
        \/ \E u \in User : RemoveMember(a, u)
        \/ \E u \in User, active, admin \in BOOLEAN : UpdateUser(a, u, active, admin)

Next == TicketStep \/ RelationStep \/ TrashStep \/ ProjectStep

Spec == Init /\ [][Next]_vars

-----------------------------------------------------------------------------
(* Invariants *)

TypeOK ==
    /\ nextNumber \in Nat \ {0}
    /\ ticket \in [1..(nextNumber - 1) -> TicketRow]
    /\ relations \subseteq RelationRow
    /\ batches \in Seq(BatchRow)
    /\ expiredUpTo \in Nat
    /\ logged \in [1..(nextNumber - 1) ->
                     [fields : TicketRow, links : SUBSET RelationRow]]
    /\ projectActive \in BOOLEAN
    /\ role \in [User -> Role \cup {"NONE"}]
    /\ userActive \in [User -> BOOLEAN]
    /\ systemAdmins \subseteq User

\* Work outside the trash that is not finished belongs to nobody, or to a
\* member who may write: whatever order of assignment, role change, removal,
\* reopening and restoring is played (PRJ-009).
OpenWorkHasWriter ==
    \A t \in Tickets :
        Active(t) /\ ticket[t].status \notin Terminal /\ ticket[t].assignee # NoUser
            => role[ticket[t].assignee] \in {"USER", "ADMIN"}

\* A ticket outside the trash never hangs under a ticket in the trash, and
\* parents are one type up, in the trash and outside.
ParentsInPlace ==
    \A t \in Tickets :
        IF ticket[t].parent = 0 THEN ticket[t].type # "SUBTASK"
        ELSE /\ ticket[t].type # "EPIC"
             /\ ticket[t].parent \in Tickets
             /\ ticket[ticket[t].parent].type = ParentType[ticket[t].type]
             /\ Active(t) => Active(ticket[t].parent)

\* A ticket in the trash belongs to a batch that can still be restored, whose
\* root is in the batch, and every other ticket of the batch came in with its
\* parent.  A parent trashed separately went later, so that its batch
\* neither expires before the child's nor waits for it (DB-012).
BatchesAreUnits ==
    \A t \in Tickets :
        LET b == ticket[t].batch
            p == ticket[t].parent
        IN  b # 0 =>
              /\ b \in DOMAIN batches /\ ~batches[b].restored
              /\ batches[b].root \in InBatch(b)
              /\ t # batches[b].root => p # 0 /\ ticket[p].batch = b
              /\ p # 0 /\ ~Active(p) => ticket[p].batch >= b

\* The newest history row of a ticket holds exactly the ticket's present state,
\* relations included: no operation changes a ticket, or a relation at either
\* end, without a row of the new version (RPT-004, TKT-013).
HistoryReplaysState == \A t \in Tickets : logged[t] = Snapshot(t)

\* The three timestamps agree with the status, however often the ticket was
\* finished and reopened (TKT-012).
StampsMatchStatus ==
    \A t \in Tickets :
        /\ ticket[t].completed # 0 <=> ticket[t].status = "DONE"
        /\ ticket[t].cancelled # 0 <=> ticket[t].status = "CANCELLED"
        /\ ticket[t].status \in {"IN_PROGRESS", "DONE"} => ticket[t].started # 0
        /\ ticket[t].completed # 0 => ticket[t].started < ticket[t].completed

\* The project keeps an administrator row and the deployment keeps a system
\* administrator who can log in (PRJ-008, IAM-016).
AdministratorsRemain ==
    /\ \E u \in User : role[u] = "ADMIN"
    /\ \E u \in systemAdmins : userActive[u]

\* Relations join two different tickets, RELATED only from the lower number
\* (DB-011), and never twice.
RelationsWellFormed ==
    \A r \in relations :
        /\ r.source \in Tickets /\ r.target \in Tickets /\ r.source # r.target
        /\ r.kind = "RELATED" => r.source < r.target

-----------------------------------------------------------------------------
(* Action properties *)

\* The business content of a ticket: what a user edits on it.
Content(t) ==
    <<ticket[t].title, ticket[t].parent, ticket[t].assignee, RelationsOf(t)>>

KeepsFinished ==
    \A t \in Tickets : ticket[t].status \in Terminal => Content(t)' = Content(t)

KeepsTrashed ==
    \A t \in Tickets : ticket[t].batch # 0 =>
        /\ Content(t)' = Content(t) /\ ticket'[t].status = ticket[t].status
        /\ \/ ticket'[t].batch = ticket[t].batch
           \/ \A u \in InBatch(ticket[t].batch) : ticket'[u].batch = 0

KeepsStart ==
    \A t \in Tickets : ticket[t].started # 0 => ticket'[t].started = ticket[t].started

KeepsArchive ==
    ~projectActive /\ ~projectActive' =>
        /\ UNCHANGED ticketVars
        /\ \A u \in User : role'[u] # role[u] =>
              /\ role[u] # "NONE"
              /\ role'[u] # "NONE" => Rank[role'[u]] < Rank[role[u]]

\* Nobody edits a finished ticket, nor reaches its relations from the other
\* end: it is reopened first (IAM-006).
FinishedTicketsFrozen == [][KeepsFinished]_vars

\* A ticket in the trash comes back exactly as it went in, and comes back only
\* together with its batch (DB-012).
TrashKeepsTickets == [][KeepsTrashed]_vars

\* The first start is never overwritten (TKT-012).
StartedOnce == [][KeepsStart]_vars

\* An inactive project is a read-only archive: no ticket row changes and no
\* member gains rights until it is active again (PRJ-007, PRJ-009).
InactiveProjectFrozen == [][KeepsArchive]_vars

-----------------------------------------------------------------------------
(* Statements of the documents that the code does not keep *)

\* TKT-007: trashing a ticket that active work depends on is refused, for the
\* integrity of the dependencies.  Restoring the dependent ticket after both
\* were trashed leaves it depending on a ticket in the trash.
DependenciesOutsideTrash ==
    \A r \in relations :
        r.kind = "DEPENDS_ON" /\ Active(r.source) /\ ticket[r.target].status # "DONE"
            => Active(r.target)
=============================================================================

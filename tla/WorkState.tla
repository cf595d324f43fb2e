----------------------------- MODULE WorkState -----------------------------
(***************************************************************************)
(* The rows that the work-management services of one project read and      *)
(* write, and the helpers they share.  The operations are in TicketOps,    *)
(* RelationOps, TrashOps and ProjectOps; WorkSystem composes them.         *)
(*                                                                         *)
(* Every write operation of the services runs between BEGIN IMMEDIATE and  *)
(* COMMIT (app/services/projects.py project_operation_context,             *)
(* app/db/transaction.py): SQLite admits one writer at a time and the      *)
(* permission, version and state checks are read again under that lock.    *)
(* An operation is therefore one action; a rejected request rolls back and *)
(* is a stuttering step.                                                   *)
(***************************************************************************)
EXTENDS Naturals, Sequences, FiniteSets

CONSTANTS
    User,           \* the accounts of the deployment
    NoUser,         \* assignee_id IS NULL
    Title,          \* values of the business fields other than parent and assignee
    RequestedType,  \* inputs: ticket types that clients create,
    RequestedStatus,\* target statuses,
    RequestedLink,  \* relation types and
    Assignable,     \* accounts named as assignee
    FirstAdmin,     \* administrator named when the project was created
    FirstSystemAdmins, \* accounts that are system administrators at the start
    MaxTicket,      \* bound: tickets ever created in the project
    MaxVersion,     \* bound: versions of one ticket
    MaxBatch,       \* bound: trash batches ever created
    MaxRelation     \* bound: relations stored at one time

Status == {"TODO", "IN_PROGRESS", "DONE", "ON_HOLD", "CANCELLED"}
Terminal == {"DONE", "CANCELLED"}
TicketType == {"EPIC", "TASK", "SUBTASK"}
Role == {"GUEST", "USER", "ADMIN"}
RelationKind == {"RELATED", "DEPENDS_ON"}

ASSUME UserAssumption ==
    /\ NoUser \notin User
    /\ FirstAdmin \in User
    /\ FirstSystemAdmins \subseteq User /\ FirstSystemAdmins # {}

ASSUME InputAssumption ==
    /\ RequestedType \subseteq TicketType
    /\ RequestedStatus \subseteq Status
    /\ RequestedLink \subseteq RelationKind
    /\ Assignable \subseteq User

ASSUME BoundAssumption ==
    /\ MaxTicket \in Nat /\ MaxVersion \in Nat
    /\ MaxBatch \in Nat /\ MaxRelation \in Nat

VARIABLES
    nextNumber,     \* projects.next_ticket_number
    ticket,         \* tickets: number -> row
    relations,      \* ticket_relations
    batches,        \* ticket_deletion_batches, in order of creation
    expiredUpTo,    \* batches 1..expiredUpTo have purge_after <= now
    logged,         \* after_state of the newest ticket_history row of a ticket
    projectActive,  \* projects.is_active
    role,           \* project_members.role, "NONE" without a row
    userActive,     \* users.is_active
    systemAdmins    \* users with system_role = SYSTEM_ADMIN

ticketVars == <<nextNumber, ticket, relations, batches, logged>>
memberVars == <<projectActive, role>>
accountVars == <<userActive, systemAdmins>>
vars == <<nextNumber, ticket, relations, batches, expiredUpTo, logged,
          projectActive, role, userActive, systemAdmins>>

-----------------------------------------------------------------------------
(* Rows *)

\* `parent' is 0 for parent_id IS NULL and `batch' is 0 outside the trash
\* (deleted_at and deletion_batch_id are set and cleared together).  The three
\* timestamps hold the version written at that moment, 0 for NULL.
TicketRow ==
    [type : TicketType, title : Title, parent : Nat, status : Status,
     assignee : User \cup {NoUser}, version : Nat, batch : Nat,
     started : Nat, completed : Nat, cancelled : Nat]

RelationRow == [source : Nat, target : Nat, kind : RelationKind]

\* root is root_ticket_key; restored stands for restored_at IS NOT NULL.
BatchRow == [root : Nat, restored : BOOLEAN]

Tickets == DOMAIN ticket
Active(t) == ticket[t].batch = 0
RelationsOf(t) == {r \in relations : t \in {r.source, r.target}}

\* The state that a history row stores before and after a change.
Snapshot(t) == [fields |-> ticket[t], links |-> RelationsOf(t)]

\* One history row for each changed ticket, in the transaction of the change.
RecordHistory(S) ==
    logged' = [u \in DOMAIN ticket' |->
                 IF u \in S THEN Snapshot(u)' ELSE logged[u]]

\* A flushed change of a row bumps its version_id_col.
Bump(row) == [row EXCEPT !.version = @ + 1]

-----------------------------------------------------------------------------
(* Checks under the write lock *)

IsSystemAdmin(a) == userActive[a] /\ a \in systemAdmins

CanWrite(a) ==
    userActive[a] /\ (role[a] \in {"USER", "ADMIN"} \/ a \in systemAdmins)

CanManage(a) == userActive[a] /\ (role[a] = "ADMIN" \/ a \in systemAdmins)

\* A request for an existing ticket names the version that the client saw.
TicketRequest(a, t, seen) ==
    /\ CanWrite(a)
    /\ projectActive
    /\ t \in Tickets /\ Active(t)
    /\ ticket[t].version = seen

AssigneeEligible(u) == userActive[u] /\ role[u] \in {"USER", "ADMIN"}
=============================================================================

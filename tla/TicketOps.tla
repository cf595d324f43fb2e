----------------------------- MODULE TicketOps -----------------------------
(***************************************************************************)
(* app/services/tickets.py: create_ticket, update_ticket and               *)
(* transition_ticket, and the part of an attachment upload that changes    *)
(* the ticket (app/services/attachments.py).                               *)
(***************************************************************************)
EXTENDS WorkState

AllowedTransitions ==
    [TODO        |-> {"IN_PROGRESS", "ON_HOLD", "CANCELLED"},
     IN_PROGRESS |-> {"DONE", "ON_HOLD", "CANCELLED"},
     ON_HOLD     |-> {"TODO", "IN_PROGRESS", "CANCELLED"},
     DONE        |-> {"IN_PROGRESS"},
     CANCELLED   |-> {"TODO"}]

-----------------------------------------------------------------------------
(* Parents and assignees *)

ParentType == [TASK |-> "EPIC", SUBTASK |-> "TASK"]

\* An Epic has no parent, a Subtask needs one; a parent is an active ticket
\* of the next type up.
ParentAllowed(type, p) ==
    IF p = 0 THEN type # "SUBTASK"
    ELSE /\ type # "EPIC"
         /\ p \in Tickets /\ Active(p)
         /\ ticket[p].type = ParentType[type]

\* The walk up from p meets t; the hierarchy has three levels.
ParentWouldCycle(t, p) ==
    /\ p # 0
    /\ \/ p = t
       \/ ticket[p].parent = t
       \/ /\ ticket[p].parent # 0
          /\ ticket[ticket[p].parent].parent = t

AssigneeAllowed(w) == w \in {NoUser} \cup {u \in User : AssigneeEligible(u)}

-----------------------------------------------------------------------------
NewTicket(type, title, p, w) ==
    [type |-> type, title |-> title, parent |-> p, status |-> "TODO",
     assignee |-> w, version |-> 1, batch |-> 0,
     started |-> 0, completed |-> 0, cancelled |-> 0]

\* The mutated form hands out the same number again.
CounterKept == nextNumber' = nextNumber

\* allocate_number takes the counter's value and leaves it one higher.
AllocateNumber == nextNumber' = nextNumber + 1

CreateTicket(a, type, title, p, w) ==
    /\ nextNumber <= MaxTicket
    /\ CanWrite(a) /\ projectActive
    /\ ParentAllowed(type, p)
    /\ AssigneeAllowed(w)
    /\ ticket' = [u \in 1..nextNumber |->
                    IF u = nextNumber THEN NewTicket(type, title, p, w)
                    ELSE ticket[u]]
    /\ AllocateNumber
    /\ UNCHANGED <<relations, batches, expiredUpTo, memberVars, accountVars>>
    /\ RecordHistory({nextNumber})

-----------------------------------------------------------------------------
\* The business fields that an edit form sends, all of them at once.
Edited(row, title, p, w) ==
    Bump([row EXCEPT !.title = title, !.parent = p, !.assignee = w])

\* A request that changes nothing succeeds without a new version: no step.
ChangesSomething(t, title, p, w) ==
    <<title, p, w>> # <<ticket[t].title, ticket[t].parent, ticket[t].assignee>>

EditableStatus(t) == ticket[t].status \notin Terminal

\* Only a changed assignee is checked again.
UpdateTicket(a, t, seen, title, p, w) ==
    /\ TicketRequest(a, t, seen) /\ seen < MaxVersion
    /\ EditableStatus(t)
    /\ ParentAllowed(ticket[t].type, p) /\ ~ParentWouldCycle(t, p)
    /\ w = ticket[t].assignee \/ AssigneeAllowed(w)
    /\ ChangesSomething(t, title, p, w)
    /\ ticket' = [ticket EXCEPT ![t] = Edited(@, title, p, w)]
    /\ UNCHANGED <<nextNumber, relations, batches, expiredUpTo,
                   memberVars, accountVars>>
    /\ RecordHistory({t})

-----------------------------------------------------------------------------
\* Dependencies in the trash count as well: the query has no deleted_at test.
IncompleteDependencies(t) ==
    {r \in relations : /\ r.kind = "DEPENDS_ON" /\ r.source = t
                       /\ ticket[r.target].status # "DONE"}

IncompleteChildren(t) ==
    {u \in Tickets : /\ ticket[u].parent = t /\ ticket[u].type = "TASK"
                     /\ ticket[u].status # "DONE" /\ Active(u)}

\* Leaving a terminal status puts the assignee back to work.
ReopeningAllowed(t) ==
    \/ ticket[t].status \notin Terminal
    \/ AssigneeAllowed(ticket[t].assignee)

CompletionAllowed(t, confirm) ==
    /\ IncompleteDependencies(t) = {}
    /\ ticket[t].type = "EPIC" /\ IncompleteChildren(t) # {} => confirm

\* The mutated form restarts the clock whenever work resumes and keeps a stale
\* cancellation time.
MovedAlwaysRestarting(row, target) ==
    [Bump(row) EXCEPT
        !.status    = target,
        !.started   = IF target = "IN_PROGRESS" THEN row.version + 1 ELSE @,
        !.completed = IF target = "DONE" THEN row.version + 1 ELSE 0,
        !.cancelled = IF target = "CANCELLED" THEN row.version + 1 ELSE @]

\* actual_started_at is written once; completed_at and cancelled_at are cleared
\* when their status is left and written when it is entered.
Moved(row, target) ==
    LET now == row.version + 1
        left(s, stamp) == IF row.status = s THEN 0 ELSE stamp
        entered(s, stamp) == IF target = s THEN now ELSE stamp
    IN  [Bump(row) EXCEPT
            !.status    = target,
            !.started   = IF target = "IN_PROGRESS" /\ @ = 0 THEN now ELSE @,
            !.completed = entered("DONE", left("DONE", @)),
            !.cancelled = entered("CANCELLED", left("CANCELLED", @))]

TransitionTicket(a, t, seen, target, confirm) ==
    /\ TicketRequest(a, t, seen) /\ seen < MaxVersion
    /\ target \in AllowedTransitions[ticket[t].status]
    /\ ReopeningAllowed(t)
    /\ target = "DONE" => CompletionAllowed(t, confirm)
    /\ ticket' = [ticket EXCEPT ![t] = Moved(@, target)]
    /\ UNCHANGED <<nextNumber, relations, batches, expiredUpTo,
                   memberVars, accountVars>>
    /\ RecordHistory({t})

-----------------------------------------------------------------------------
\* A stored attachment bumps the ticket and adds a CONTENT_CHANGED row; it is
\* allowed on a finished ticket.  The file itself is not part of this state.
AttachFile(a, t, seen) ==
    /\ TicketRequest(a, t, seen) /\ seen < MaxVersion
    /\ ticket' = [ticket EXCEPT ![t] = Bump(@)]
    /\ UNCHANGED <<nextNumber, relations, batches, expiredUpTo,
                   memberVars, accountVars>>
    /\ RecordHistory({t})
=============================================================================

------------------------------ MODULE TrashOps ------------------------------
(***************************************************************************)
(* app/services/tickets.py: move_ticket_to_trash and                       *)
(* restore_ticket_trash_batch.  Permanent purge is not implemented at this *)
(* commit: no code sets purged_at.                                         *)
(***************************************************************************)
EXTENDS WorkState

\* The mutated form also takes children that are in the trash already.
HierarchyWithTrashed(t) ==
    {u \in Tickets :
        LET p == ticket[u].parent
        IN  u = t \/ p = t \/ (p \in Tickets /\ ticket[p].parent = t)}

\* The root, its active children and, for an Epic, their active Subtasks.
Hierarchy(t) ==
    {u \in Tickets :
        /\ Active(u)
        /\ LET p == ticket[u].parent
           IN  \/ u = t
               \/ ticket[t].type \in {"TASK", "EPIC"} /\ p = t
               \/ /\ ticket[t].type = "EPIC" /\ p \in Tickets
                  /\ ticket[p].parent = t /\ ticket[p].type = "TASK" /\ Active(p)}

\* Active tickets outside S that depend on an unfinished active ticket of S.
Blockers(S) ==
    {u \in Tickets \ S :
        /\ Active(u)
        /\ \E r \in relations :
              /\ r.kind = "DEPENDS_ON" /\ r.source = u /\ r.target \in S
              /\ Active(r.target) /\ ticket[r.target].status # "DONE"}

Trashed(row, b) == Bump([row EXCEPT !.batch = b])

MoveToTrash(a, t, seen) ==
    LET moved == Hierarchy(t)
        b == Len(batches) + 1
    IN  /\ TicketRequest(a, t, seen)
        /\ b <= MaxBatch /\ \A u \in moved : ticket[u].version < MaxVersion
        /\ Blockers(moved) = {}
        /\ batches' = Append(batches, [root |-> t, restored |-> FALSE])
        /\ ticket' = [u \in Tickets |->
                        IF u \in moved THEN Trashed(ticket[u], b) ELSE ticket[u]]
        /\ UNCHANGED <<nextNumber, relations, expiredUpTo, memberVars, accountVars>>
        /\ RecordHistory(moved)

-----------------------------------------------------------------------------
InBatch(b) == {u \in Tickets : ticket[u].batch = b}

\* The mutated form forgets the tickets above the batch.
NoParentCheck(b) == TRUE

\* No ticket of the batch hangs under a ticket trashed in another batch.
ParentsAvailable(b) ==
    \A u \in InBatch(b) :
        LET p == ticket[u].parent
        IN  p \in Tickets => ticket[p].batch \in {0, b}

AssigneesEligible(b) ==
    \A u \in InBatch(b) :
        ticket[u].assignee # NoUser => AssigneeEligible(ticket[u].assignee)

\* The mutated form un-deletes the root alone.
ReturnedRootOnly(b) == {batches[b].root}

Returned(b) == InBatch(b)

RestoreBatch(a, b, seen) ==
    /\ CanWrite(a) /\ projectActive
    /\ b \in DOMAIN batches /\ ~batches[b].restored
    /\ batches[b].root \in InBatch(b)
    /\ b > expiredUpTo
    /\ ticket[batches[b].root].version = seen
    /\ \A u \in InBatch(b) : ticket[u].version < MaxVersion
    /\ ParentsAvailable(b)
    /\ AssigneesEligible(b)
    /\ batches' = [batches EXCEPT ![b].restored = TRUE]
    /\ ticket' = [u \in Tickets |->
                    IF u \in Returned(b) THEN Trashed(ticket[u], 0) ELSE ticket[u]]
    /\ UNCHANGED <<nextNumber, relations, expiredUpTo, memberVars, accountVars>>
    /\ RecordHistory(Returned(b))

-----------------------------------------------------------------------------
\* purge_after = deleted_at + retention: batches expire in order of creation.
RetentionPasses ==
    /\ expiredUpTo < Len(batches)
    /\ expiredUpTo' = expiredUpTo + 1
    /\ UNCHANGED <<ticketVars, memberVars, accountVars>>
=============================================================================

---------------------------- MODULE RelationOps ----------------------------
(***************************************************************************)
(* app/services/tickets.py: create_ticket_relation and                     *)
(* delete_ticket_relation.  Both change the two end tickets: a version and *)
(* a RELATION_CHANGED history row each, though only the ticket of the      *)
(* request has its version compared.                                       *)
(***************************************************************************)
EXTENDS WorkState

\* The mutated form stores every relation from the ticket of the request.
RelationFromRequest(t, o, kind) == [source |-> t, target |-> o, kind |-> kind]

\* RELATED is stored once, from the lower id; DEPENDS_ON from the dependent.
RelationRequested(t, o, kind) ==
    IF kind = "RELATED" /\ o < t
    THEN [source |-> o, target |-> t, kind |-> kind]
    ELSE [source |-> t, target |-> o, kind |-> kind]

\* The mutated form looks only at the ticket of the request.
EndsEditableCurrentOnly(t, o) == ticket[t].status \notin Terminal

EndsEditable(t, o) ==
    ticket[t].status \notin Terminal /\ ticket[o].status \notin Terminal

\* The mutated form touches only the ticket of the request.
TouchCurrentOnly(t, o) ==
    /\ ticket' = [ticket EXCEPT ![t] = Bump(@)]
    /\ RecordHistory({t})

TouchBothEnds(t, o) ==
    /\ ticket' = [u \in Tickets |-> IF u \in {t, o} THEN Bump(ticket[u]) ELSE ticket[u]]
    /\ RecordHistory({t, o})

\* The other end is looked up among the tickets outside the trash.
OtherEndVisible(o) == o \in Tickets /\ Active(o)

CreateRelation(a, t, seen, o, kind) ==
    /\ TicketRequest(a, t, seen) /\ seen < MaxVersion
    /\ OtherEndVisible(o) /\ o # t /\ ticket[o].version < MaxVersion
    /\ EndsEditable(t, o)
    /\ RelationRequested(t, o, kind) \notin relations
    /\ Cardinality(relations) < MaxRelation
    /\ relations' = relations \cup {RelationRequested(t, o, kind)}
    /\ UNCHANGED <<nextNumber, batches, expiredUpTo, memberVars, accountVars>>
    /\ TouchBothEnds(t, o)

DeleteRelation(a, t, seen, r) ==
    LET o == IF r.source = t THEN r.target ELSE r.source
    IN  /\ TicketRequest(a, t, seen) /\ seen < MaxVersion
        /\ r \in RelationsOf(t)
        /\ OtherEndVisible(o) /\ ticket[o].version < MaxVersion
        /\ EndsEditable(t, o)
        /\ relations' = relations \ {r}
        /\ UNCHANGED <<nextNumber, batches, expiredUpTo, memberVars, accountVars>>
        /\ TouchBothEnds(t, o)
=============================================================================

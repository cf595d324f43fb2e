------------------------- MODULE WorkSystem_proofs -------------------------
(***************************************************************************)
(* Theorems about WorkSystem for every set of users and every bound: the   *)
(* types, members and places of tickets, then the timestamps of tickets,   *)
(* the relations, and the batches of the trash.                            *)
(***************************************************************************)
EXTENDS WorkSystem, TLAPS

-----------------------------------------------------------------------------
(* Types *)

\* A history row written from typed ticket and relation rows is typed, whichever
\* tickets changed, as long as a new ticket is among them.
LEMMA HistoryTyped ==
    ASSUME TypeOK, NEW S,
           nextNumber' \in Nat \ {0},
           ticket' \in [1..(nextNumber' - 1) -> TicketRow],
           relations' \subseteq RelationRow,
           \A u \in 1..(nextNumber' - 1) : u \in S \/ u \in 1..(nextNumber - 1),
           RecordHistory(S)
    PROVE  logged' \in [1..(nextNumber' - 1) ->
                          [fields : TicketRow, links : SUBSET RelationRow]]
  <1> DEFINE H == [fields : TicketRow, links : SUBSET RelationRow]
  <1>1. DOMAIN ticket' = 1..(nextNumber' - 1)
    OBVIOUS
  <1>2. ASSUME NEW u \in 1..(nextNumber' - 1)
        PROVE  (IF u \in S THEN Snapshot(u)' ELSE logged[u]) \in H
    <2>1. Snapshot(u)' = [fields |-> ticket'[u], links |-> RelationsOf(u)']
      BY DEF Snapshot
    <2>2. ticket'[u] \in TicketRow
      BY <1>2
    <2>3. RelationsOf(u)' \subseteq RelationRow
      BY DEF RelationsOf
    <2>4. Snapshot(u)' \in H
      BY <2>1, <2>2, <2>3
    <2>5. u \notin S => logged[u] \in H
      BY DEF TypeOK
    <2> QED BY <2>4, <2>5
  <1> QED BY <1>1, <1>2 DEF RecordHistory

\* A typed row stays typed with its version one higher.
LEMMA BumpTyped ==
    ASSUME NEW row \in TicketRow
    PROVE  Bump(row) \in TicketRow
  BY DEF Bump, TicketRow

\* What an edit leaves alone: everything but title, parent, assignee and version.
LEMMA EditedRow ==
    ASSUME NEW row \in TicketRow, NEW title \in Title, NEW p \in Nat,
           NEW w \in User \cup {NoUser}
    PROVE  /\ Edited(row, title, p, w) \in TicketRow
           /\ Edited(row, title, p, w).type = row.type
           /\ Edited(row, title, p, w).parent = p
           /\ Edited(row, title, p, w).status = row.status
           /\ Edited(row, title, p, w).assignee = w
           /\ Edited(row, title, p, w).batch = row.batch
           /\ Edited(row, title, p, w).started = row.started
  <1> DEFINE r1 == [row EXCEPT !.title = title]
             r2 == [r1 EXCEPT !.parent = p]
             r3 == [r2 EXCEPT !.assignee = w]
  <1>1. r1 \in TicketRow /\ r1.type = row.type /\ r1.status = row.status
        /\ r1.batch = row.batch /\ r1.started = row.started
    BY DEF TicketRow
  <1>2. r2 \in TicketRow /\ r2.type = row.type /\ r2.status = row.status
        /\ r2.batch = row.batch /\ r2.started = row.started /\ r2.parent = p
    <2> HIDE DEF r1
    <2> QED BY <1>1 DEF TicketRow
  <1>3. r3 \in TicketRow /\ r3.type = row.type /\ r3.status = row.status
        /\ r3.batch = row.batch /\ r3.started = row.started /\ r3.parent = p
        /\ r3.assignee = w
    <2> HIDE DEF r2
    <2> QED BY <1>2 DEF TicketRow
  <1>4. Edited(row, title, p, w) = Bump(r3)
    BY DEF Edited
  <1>5. Bump(r3) \in TicketRow /\ Bump(r3).type = r3.type /\ Bump(r3).status = r3.status
        /\ Bump(r3).batch = r3.batch /\ Bump(r3).started = r3.started
        /\ Bump(r3).parent = r3.parent /\ Bump(r3).assignee = r3.assignee
    <2> HIDE DEF r3
    <2> QED BY <1>3 DEF Bump, TicketRow
  <1> HIDE DEF r3
  <1> QED BY <1>3, <1>4, <1>5

\* A transition changes the status, the timestamps and the version; a first
\* start is kept.
LEMMA MovedRow ==
    ASSUME NEW row \in TicketRow, NEW target \in Status
    PROVE  /\ Moved(row, target) \in TicketRow
           /\ Moved(row, target).type = row.type
           /\ Moved(row, target).title = row.title
           /\ Moved(row, target).parent = row.parent
           /\ Moved(row, target).status = target
           /\ Moved(row, target).assignee = row.assignee
           /\ Moved(row, target).batch = row.batch
           /\ row.started # 0 => Moved(row, target).started = row.started
  <1> DEFINE now == row.version + 1
             same(r) == /\ r \in TicketRow /\ r.type = row.type
                        /\ r.title = row.title
                        /\ r.parent = row.parent /\ r.assignee = row.assignee
                        /\ r.batch = row.batch
             r0 == Bump(row)
             started == IF target = "IN_PROGRESS" /\ r0.started = 0 THEN now ELSE r0.started
             completed == IF target = "DONE" THEN now
                          ELSE IF row.status = "DONE" THEN 0 ELSE r0.completed
             cancelled == IF target = "CANCELLED" THEN now
                          ELSE IF row.status = "CANCELLED" THEN 0 ELSE r0.cancelled
             r1 == [r0 EXCEPT !.status = target]
             r2 == [r1 EXCEPT !.started = started]
             r3 == [r2 EXCEPT !.completed = completed]
             r4 == [r3 EXCEPT !.cancelled = cancelled]
  <1>1. same(r0) /\ r0.started = row.started
    BY DEF Bump, TicketRow
  <1>2. started \in Nat /\ completed \in Nat /\ cancelled \in Nat /\ now \in Nat
    <2> HIDE DEF r0
    <2> QED BY <1>1 DEF TicketRow
  <1>3. row.started # 0 => started = row.started
    <2> HIDE DEF r0
    <2> QED BY <1>1 DEF TicketRow
  <1>4. same(r1) /\ r1.status = target
    <2> HIDE DEF r0
    <2> QED BY <1>1 DEF TicketRow
  <1>5. same(r2) /\ r2.status = target /\ r2.started = started
    <2> HIDE DEF r1, started
    <2> QED BY <1>2, <1>4 DEF TicketRow
  <1>6. same(r3) /\ r3.status = target /\ r3.started = started
    <2> HIDE DEF r2, started, completed
    <2> QED BY <1>2, <1>5 DEF TicketRow
  <1>7. same(r4) /\ r4.status = target /\ r4.started = started
    <2> HIDE DEF r3, started, cancelled
    <2> QED BY <1>2, <1>6 DEF TicketRow
  <1>8. Moved(row, target) = r4
    BY DEF Moved
  <1> HIDE DEF r4, started
  <1> QED BY <1>3, <1>7, <1>8

LEMMA InitTyped == Init => TypeOK
  <1> SUFFICES ASSUME Init PROVE TypeOK
    OBVIOUS
  <1>1. ticket \in [1..(nextNumber - 1) -> TicketRow]
    BY DEF Init
  <1>2. logged \in [1..(nextNumber - 1) -> [fields : TicketRow, links : SUBSET RelationRow]]
    BY DEF Init
  <1>3. role \in [User -> Role \cup {"NONE"}] /\ userActive \in [User -> BOOLEAN]
    BY DEF Init, Role
  <1> QED BY <1>1, <1>2, <1>3, UserAssumption DEF Init, TypeOK, RelationRow, BatchRow

-----------------------------------------------------------------------------
\* Creating, editing, moving and attaching to a ticket keep the rows typed.
LEMMA TicketTyped ==
    ASSUME TypeOK, TicketStep
    PROVE  TypeOK'
  <1>1. ASSUME NEW a \in User, NEW type \in RequestedType, NEW title \in Title,
               NEW p \in {0} \cup Tickets, NEW w \in {NoUser} \cup Assignable,
               CreateTicket(a, type, title, p, w)
        PROVE  TypeOK'
    <2>1. NewTicket(type, title, p, w) \in TicketRow
      BY <1>1, InputAssumption DEF NewTicket, TicketRow, TypeOK, Status, Tickets
    <2>2. nextNumber' = nextNumber + 1
      BY <1>1 DEF CreateTicket, AllocateNumber
    <2>3. ticket' \in [1..(nextNumber' - 1) -> TicketRow]
      BY <1>1, <2>1, <2>2 DEF CreateTicket, TypeOK
    <2>4. RecordHistory({nextNumber})
      BY <1>1 DEF CreateTicket
    <2>5. \A u \in 1..(nextNumber' - 1) : u \in {nextNumber} \/ u \in 1..(nextNumber - 1)
      BY <2>2 DEF TypeOK
    <2>6. /\ relations' = relations /\ batches' = batches /\ expiredUpTo' = expiredUpTo
          /\ projectActive' = projectActive /\ role' = role
          /\ userActive' = userActive /\ systemAdmins' = systemAdmins
      BY <1>1 DEF CreateTicket, memberVars, accountVars
    <2>7. nextNumber' \in Nat \ {0} /\ relations' \subseteq RelationRow
      BY <2>2, <2>6 DEF TypeOK
    <2> QED BY <2>3, <2>4, <2>5, <2>6, <2>7, HistoryTyped DEF TypeOK
  <1>2. ASSUME NEW t \in Tickets, NEW row \in TicketRow,
               ticket' = [ticket EXCEPT ![t] = row],
               UNCHANGED <<nextNumber, relations, batches, expiredUpTo,
                           memberVars, accountVars>>,
               RecordHistory({t})
        PROVE  TypeOK'
    <2>1. ticket' \in [1..(nextNumber' - 1) -> TicketRow]
      BY <1>2 DEF TypeOK, Tickets
    <2>2. /\ relations' = relations /\ batches' = batches /\ expiredUpTo' = expiredUpTo
          /\ projectActive' = projectActive /\ role' = role
          /\ userActive' = userActive /\ systemAdmins' = systemAdmins
          /\ nextNumber' = nextNumber
      BY <1>2 DEF memberVars, accountVars
    <2>3. nextNumber' \in Nat \ {0} /\ relations' \subseteq RelationRow
      BY <2>2 DEF TypeOK
    <2>4. \A u \in 1..(nextNumber' - 1) : u \in {t} \/ u \in 1..(nextNumber - 1)
      BY <2>2
    <2> QED BY <1>2, <2>1, <2>2, <2>3, <2>4, HistoryTyped DEF TypeOK
  <1>3. ASSUME NEW t \in Tickets PROVE ticket[t] \in TicketRow
    BY <1>3 DEF TypeOK, Tickets
  <1>4. ASSUME NEW a \in User, NEW t \in Tickets, NEW title \in Title,
               NEW p \in {0} \cup Tickets,
               NEW w \in {NoUser, ticket[t].assignee} \cup Assignable,
               UpdateTicket(a, t, ticket[t].version, title, p, w)
        PROVE  TypeOK'
    <2>1. Edited(ticket[t], title, p, w) \in TicketRow
      <3>1. p \in Nat
        BY DEF TypeOK, Tickets
      <3>2. w \in User \cup {NoUser}
        BY <1>3, InputAssumption DEF TicketRow
      <3> QED BY <1>3, <3>1, <3>2, EditedRow
    <2>2. ticket' = [ticket EXCEPT ![t] = Edited(ticket[t], title, p, w)]
      BY <1>4 DEF UpdateTicket
    <2> QED BY <1>2, <1>4, <2>1, <2>2 DEF UpdateTicket
  <1>5. ASSUME NEW a \in User, NEW t \in Tickets, NEW target \in RequestedStatus,
               NEW confirm \in BOOLEAN,
               TransitionTicket(a, t, ticket[t].version, target, confirm)
        PROVE  TypeOK'
    <2>1. Moved(ticket[t], target) \in TicketRow
      BY <1>3, MovedRow, InputAssumption
    <2>2. ticket' = [ticket EXCEPT ![t] = Moved(ticket[t], target)]
      BY <1>5 DEF TransitionTicket
    <2> QED BY <1>2, <1>5, <2>1, <2>2 DEF TransitionTicket
  <1>6. ASSUME NEW a \in User, NEW t \in Tickets, AttachFile(a, t, ticket[t].version)
        PROVE  TypeOK'
    <2>1. Bump(ticket[t]) \in TicketRow
      BY <1>3, BumpTyped
    <2>2. ticket' = [ticket EXCEPT ![t] = Bump(ticket[t])]
      BY <1>6 DEF AttachFile
    <2> QED BY <1>2, <1>6, <2>1, <2>2 DEF AttachFile
  <1> QED BY <1>1, <1>4, <1>5, <1>6 DEF TicketStep

\* Linking and unlinking keep the rows typed.
LEMMA RelationTyped ==
    ASSUME TypeOK, RelationStep
    PROVE  TypeOK'
  <1>1. ASSUME NEW t \in Tickets, NEW o \in Tickets, TouchBothEnds(t, o),
               relations' \subseteq RelationRow,
               UNCHANGED <<nextNumber, batches, expiredUpTo, memberVars, accountVars>>
        PROVE  TypeOK'
    <2>1. /\ ticket' = [u \in Tickets |-> IF u \in {t, o} THEN Bump(ticket[u]) ELSE ticket[u]]
          /\ RecordHistory({t, o})
      BY <1>1 DEF TouchBothEnds
    <2>3. ticket' \in [1..(nextNumber - 1) -> TicketRow]
      BY <2>1, BumpTyped DEF TypeOK, Tickets
    <2>4. /\ batches' = batches /\ expiredUpTo' = expiredUpTo
          /\ projectActive' = projectActive /\ role' = role
          /\ userActive' = userActive /\ systemAdmins' = systemAdmins
          /\ nextNumber' = nextNumber
      BY <1>1 DEF memberVars, accountVars
    <2>5. \A u \in 1..(nextNumber' - 1) : u \in {t, o} \/ u \in 1..(nextNumber - 1)
      BY <2>4
    <2> QED BY <1>1, <2>1, <2>3, <2>4, <2>5, HistoryTyped DEF TypeOK
  <1>2. ASSUME NEW a \in User, NEW t \in Tickets, NEW o \in Tickets,
               NEW kind \in RequestedLink,
               CreateRelation(a, t, ticket[t].version, o, kind)
        PROVE  TypeOK'
    <2>1. RelationRequested(t, o, kind) \in RelationRow
      BY InputAssumption DEF RelationRequested, RelationRow, TypeOK, Tickets
    <2>2. relations' \subseteq RelationRow
      BY <1>2, <2>1 DEF CreateRelation, TypeOK
    <2> QED BY <1>1, <1>2, <2>2 DEF CreateRelation
  <1>3. ASSUME NEW a \in User, NEW t \in Tickets, NEW r \in relations,
               DeleteRelation(a, t, ticket[t].version, r)
        PROVE  TypeOK'
    <2> DEFINE o == IF r.source = t THEN r.target ELSE r.source
    <2>1. o \in Tickets
      BY <1>3 DEF DeleteRelation, OtherEndVisible
    <2>2. relations' \subseteq RelationRow
      BY <1>3 DEF DeleteRelation, TypeOK
    <2>3. TouchBothEnds(t, o)
      BY <1>3 DEF DeleteRelation
    <2>4. UNCHANGED <<nextNumber, batches, expiredUpTo, memberVars, accountVars>>
      BY <1>3 DEF DeleteRelation
    <2> HIDE DEF o
    <2> QED BY <1>1, <2>1, <2>2, <2>3, <2>4
  <1> QED BY <1>2, <1>3 DEF RelationStep

\* A ticket enters or leaves the trash with its row typed.
LEMMA TrashedTyped ==
    ASSUME NEW row \in TicketRow, NEW b \in Nat
    PROVE  /\ Trashed(row, b) \in TicketRow
           /\ Trashed(row, b).type = row.type
           /\ Trashed(row, b).title = row.title
           /\ Trashed(row, b).parent = row.parent
           /\ Trashed(row, b).status = row.status
           /\ Trashed(row, b).assignee = row.assignee
           /\ Trashed(row, b).batch = b
           /\ Trashed(row, b).started = row.started
  <1> DEFINE r1 == [row EXCEPT !.batch = b]
  <1>1. /\ r1 \in TicketRow /\ r1.type = row.type /\ r1.parent = row.parent
        /\ r1.title = row.title
        /\ r1.status = row.status /\ r1.assignee = row.assignee /\ r1.batch = b
        /\ r1.started = row.started
    BY DEF TicketRow
  <1>2. Trashed(row, b) = Bump(r1)
    BY DEF Trashed
  <1> HIDE DEF r1
  <1> QED BY <1>1, <1>2 DEF Bump, TicketRow

\* Moving to the trash and restoring keep the rows typed.
LEMMA TrashTyped ==
    ASSUME TypeOK, TrashStep
    PROVE  TypeOK'
  <1>1. ASSUME NEW S, NEW b \in Nat,
               ticket' = [u \in Tickets |-> IF u \in S THEN Trashed(ticket[u], b) ELSE ticket[u]],
               batches' \in Seq(BatchRow),
               UNCHANGED <<nextNumber, relations, expiredUpTo, memberVars, accountVars>>,
               RecordHistory(S)
        PROVE  TypeOK'
    <2>1. ticket' \in [1..(nextNumber - 1) -> TicketRow]
      BY <1>1, TrashedTyped DEF TypeOK, Tickets
    <2>2. /\ relations' = relations /\ expiredUpTo' = expiredUpTo
          /\ projectActive' = projectActive /\ role' = role
          /\ userActive' = userActive /\ systemAdmins' = systemAdmins
          /\ nextNumber' = nextNumber
      BY <1>1 DEF memberVars, accountVars
    <2>3. relations' \subseteq RelationRow
      BY <2>2 DEF TypeOK
    <2>4. \A u \in 1..(nextNumber' - 1) : u \in S \/ u \in 1..(nextNumber - 1)
      BY <2>2
    <2> QED BY <1>1, <2>1, <2>2, <2>3, <2>4, HistoryTyped DEF TypeOK
  <1>2. ASSUME NEW a \in User, NEW t \in Tickets, MoveToTrash(a, t, ticket[t].version)
        PROVE  TypeOK'
    <2>1. [root |-> t, restored |-> FALSE] \in BatchRow
      BY DEF BatchRow, TypeOK, Tickets
    <2>2. batches' = Append(batches, [root |-> t, restored |-> FALSE])
      BY <1>2 DEF MoveToTrash
    <2>3. batches' \in Seq(BatchRow)
      BY <2>1, <2>2 DEF TypeOK
    <2>4. Len(batches) + 1 \in Nat
      BY DEF TypeOK
    <2>5. ticket' = [u \in Tickets |-> IF u \in Hierarchy(t)
                      THEN Trashed(ticket[u], Len(batches) + 1) ELSE ticket[u]]
      BY <1>2 DEF MoveToTrash
    <2> QED BY <1>1, <1>2, <2>3, <2>4, <2>5 DEF MoveToTrash
  <1>3. ASSUME NEW a \in User, NEW b \in DOMAIN batches,
               RestoreBatch(a, b, ticket[batches[b].root].version)
        PROVE  TypeOK'
    <2>1. batches' = [batches EXCEPT ![b].restored = TRUE]
      BY <1>3 DEF RestoreBatch
    <2>2. batches' \in Seq(BatchRow)
      <3> DEFINE done == [batches[b] EXCEPT !.restored = TRUE]
      <3>1. batches[b] \in BatchRow
        BY DEF TypeOK
      <3>2. done \in BatchRow
        BY <3>1 DEF BatchRow
      <3>3. batches' = [batches EXCEPT ![b] = done]
        BY <2>1
      <3> HIDE DEF done
      <3> QED BY <3>2, <3>3 DEF TypeOK
    <2>3. ticket' = [u \in Tickets |-> IF u \in Returned(b)
                      THEN Trashed(ticket[u], 0) ELSE ticket[u]]
      BY <1>3 DEF RestoreBatch
    <2> QED BY <1>1, <1>3, <2>2, <2>3 DEF RestoreBatch
  <1>4. ASSUME RetentionPasses
        PROVE  TypeOK'
    BY <1>4 DEF RetentionPasses, TypeOK, ticketVars, memberVars, accountVars,
                Tickets
  <1> QED BY <1>2, <1>3, <1>4 DEF TrashStep

\* Membership and account changes keep the rows typed.
LEMMA ProjectTyped ==
    ASSUME TypeOK, ProjectStep
    PROVE  TypeOK'
  <1>1. ASSUME NEW a \in User, NEW active \in BOOLEAN, UpdateProject(a, active)
        PROVE  TypeOK'
    BY <1>1 DEF UpdateProject, TypeOK, ticketVars, accountVars
  <1>2. ASSUME NEW a \in User, NEW u \in User, NEW r \in Role, AddMember(a, u, r)
        PROVE  TypeOK'
    BY <1>2 DEF AddMember, TypeOK, ticketVars, accountVars
  <1>3. ASSUME NEW a \in User, NEW u \in User, NEW r \in Role, UpdateMemberRole(a, u, r)
        PROVE  TypeOK'
    BY <1>3 DEF UpdateMemberRole, TypeOK, ticketVars, accountVars
  <1>4. ASSUME NEW a \in User, NEW u \in User, RemoveMember(a, u)
        PROVE  TypeOK'
    BY <1>4 DEF RemoveMember, TypeOK, ticketVars, accountVars
  <1>5. ASSUME NEW a \in User, NEW u \in User, NEW active \in BOOLEAN,
               NEW admin \in BOOLEAN, UpdateUser(a, u, active, admin)
        PROVE  TypeOK'
    <2>1. userActive' \in [User -> BOOLEAN] /\ systemAdmins' \subseteq User
      BY <1>5 DEF UpdateUser, TypeOK
    <2> QED BY <1>5, <2>1 DEF UpdateUser, TypeOK, ticketVars, memberVars
  <1> QED BY <1>1, <1>2, <1>3, <1>4, <1>5 DEF ProjectStep

\* Every reachable state holds rows of the declared types, and tickets are
\* numbered without gaps up to the counter that allocate_number increments.
THEOREM TypesCorrect == Spec => []TypeOK
  <1>1. TypeOK /\ [Next]_vars => TypeOK'
    <2>1. ASSUME TypeOK, UNCHANGED vars PROVE TypeOK'
      BY <2>1 DEF TypeOK, vars
    <2> QED BY <2>1, TicketTyped, RelationTyped, TrashTyped, ProjectTyped DEF Next
  <1> QED BY InitTyped, <1>1, PTL DEF Spec

-----------------------------------------------------------------------------
(* Administrators *)

\* Only ProjectStep changes memberships and accounts.
LEMMA MembershipFrame ==
    ASSUME TicketStep \/ RelationStep \/ TrashStep
    PROVE  UNCHANGED <<projectActive, role, userActive, systemAdmins>>
  <1> DEFINE frame == UNCHANGED <<projectActive, role, userActive, systemAdmins>>
  <1>1. CASE TicketStep
    <2>1. ASSUME NEW a \in User, NEW type \in RequestedType, NEW title \in Title,
                 NEW p \in {0} \cup Tickets, NEW w \in {NoUser} \cup Assignable,
                 CreateTicket(a, type, title, p, w)
          PROVE  frame
      BY <2>1 DEF CreateTicket, memberVars, accountVars
    <2>2. ASSUME NEW a \in User, NEW t \in Tickets, NEW title \in Title,
                 NEW p \in {0} \cup Tickets,
                 NEW w \in {NoUser, ticket[t].assignee} \cup Assignable,
                 UpdateTicket(a, t, ticket[t].version, title, p, w)
          PROVE  frame
      BY <2>2 DEF UpdateTicket, memberVars, accountVars
    <2>3. ASSUME NEW a \in User, NEW t \in Tickets, NEW target \in RequestedStatus,
                 NEW confirm \in BOOLEAN,
                 TransitionTicket(a, t, ticket[t].version, target, confirm)
          PROVE  frame
      BY <2>3 DEF TransitionTicket, memberVars, accountVars
    <2>4. ASSUME NEW a \in User, NEW t \in Tickets, AttachFile(a, t, ticket[t].version)
          PROVE  frame
      BY <2>4 DEF AttachFile, memberVars, accountVars
    <2> QED BY <1>1, <2>1, <2>2, <2>3, <2>4 DEF TicketStep
  <1>2. CASE RelationStep
    BY <1>2 DEF RelationStep, CreateRelation, DeleteRelation, memberVars, accountVars
  <1>3. CASE TrashStep
    BY <1>3 DEF TrashStep, MoveToTrash, RestoreBatch, RetentionPasses,
                memberVars, accountVars
  <1> QED BY <1>1, <1>2, <1>3

\* No sequence of role changes, removals, deactivations and demotions, by
\* administrators who may act on each other, leaves the project without an
\* administrator row or the deployment without an active system administrator.
THEOREM AdministratorsStay == Spec => []AdministratorsRemain
  <1>1. Init => AdministratorsRemain
    BY UserAssumption DEF Init, AdministratorsRemain
  <1>2. TypeOK /\ AdministratorsRemain /\ [Next]_vars => AdministratorsRemain'
    <2> SUFFICES ASSUME TypeOK, AdministratorsRemain, [Next]_vars
                 PROVE  AdministratorsRemain'
      OBVIOUS
    <2>1. CASE TicketStep \/ RelationStep \/ TrashStep
      BY <2>1, MembershipFrame DEF AdministratorsRemain
    <2>2. ASSUME NEW a \in User, NEW active \in BOOLEAN, UpdateProject(a, active)
          PROVE  AdministratorsRemain'
      BY <2>2 DEF UpdateProject, AdministratorsRemain, accountVars
    <2>3. ASSUME NEW a \in User, NEW u \in User, NEW r \in Role, AddMember(a, u, r)
          PROVE  AdministratorsRemain'
      BY <2>3 DEF AddMember, AdministratorsRemain, accountVars, TypeOK
    <2>4. ASSUME NEW a \in User, NEW u \in User, NEW r \in Role, UpdateMemberRole(a, u, r)
          PROVE  AdministratorsRemain'
      BY <2>4 DEF UpdateMemberRole, AnotherAdministrator, AdministratorsRemain,
                  accountVars, TypeOK
    <2>5. ASSUME NEW a \in User, NEW u \in User, RemoveMember(a, u)
          PROVE  AdministratorsRemain'
      BY <2>5 DEF RemoveMember, AnotherAdministrator, AdministratorsRemain,
                  accountVars, TypeOK
    <2>6. ASSUME NEW a \in User, NEW u \in User, NEW active \in BOOLEAN,
                 NEW admin \in BOOLEAN, UpdateUser(a, u, active, admin)
          PROVE  AdministratorsRemain'
      <3>1. role' = role
        BY <2>6 DEF UpdateUser, memberVars
      <3>2. CASE active /\ admin
        BY <2>6, <3>1, <3>2 DEF UpdateUser, AdministratorsRemain, TypeOK
      <3>3. CASE ~(active /\ admin)
        <4>1. \E o \in systemAdmins \ {u} : userActive[o]
          BY <2>6, <3>3 DEF UpdateUser, IsSystemAdmin, AnotherSystemAdmin,
                            AdministratorsRemain, TypeOK
        <4> QED BY <2>6, <3>1, <4>1 DEF UpdateUser, AdministratorsRemain, TypeOK
      <3> QED BY <3>2, <3>3
    <2>7. CASE UNCHANGED vars
      BY <2>7 DEF AdministratorsRemain, vars
    <2> QED BY <2>1, <2>2, <2>3, <2>4, <2>5, <2>6, <2>7 DEF Next, ProjectStep
  <1> QED BY <1>1, <1>2, TypesCorrect, PTL DEF Spec

-----------------------------------------------------------------------------
(* Open work and its assignees *)

\* Creating, editing, moving and attaching to a ticket never leave open work
\* with somebody who may not write.
LEMMA TicketKeepsWriters ==
    ASSUME TypeOK, OpenWorkHasWriter, TicketStep
    PROVE  OpenWorkHasWriter'
  <1>1. role' = role
    BY MembershipFrame
  <1>2. ASSUME NEW t \in Tickets, NEW row,
               ticket' = [ticket EXCEPT ![t] = row],
               row.batch = 0 /\ row.status \notin Terminal /\ row.assignee # NoUser
                   => role[row.assignee] \in {"USER", "ADMIN"}
        PROVE  OpenWorkHasWriter'
    BY <1>1, <1>2 DEF OpenWorkHasWriter, TypeOK, Tickets, Active
  <1>3. ASSUME NEW t \in Tickets PROVE ticket[t] \in TicketRow
    BY <1>3 DEF TypeOK, Tickets
  <1>4. ASSUME NEW a \in User, NEW type \in RequestedType, NEW title \in Title,
               NEW p \in {0} \cup Tickets, NEW w \in {NoUser} \cup Assignable,
               CreateTicket(a, type, title, p, w)
        PROVE  OpenWorkHasWriter'
    <2>1. w # NoUser => role[w] \in {"USER", "ADMIN"}
      BY <1>4 DEF CreateTicket, AssigneeAllowed, AssigneeEligible
    <2>2. ticket' = [u \in 1..nextNumber |-> IF u = nextNumber
                       THEN NewTicket(type, title, p, w) ELSE ticket[u]]
      BY <1>4 DEF CreateTicket
    <2>3. NewTicket(type, title, p, w).assignee = w
      BY DEF NewTicket
    <2>4. ASSUME NEW u \in 1..nextNumber, u # nextNumber
          PROVE  u \in Tickets /\ ticket'[u] = ticket[u]
      BY <2>2, <2>4 DEF TypeOK, Tickets
    <2>5. nextNumber \in 1..nextNumber
      BY DEF TypeOK
    <2>6. ticket'[nextNumber].assignee = w
      BY <2>2, <2>3, <2>5
    <2>7. Tickets' = 1..nextNumber
      BY <2>2 DEF Tickets
    <2> QED BY <1>1, <2>1, <2>4, <2>6, <2>7 DEF OpenWorkHasWriter, Active
  <1>5. ASSUME NEW a \in User, NEW t \in Tickets, NEW title \in Title,
               NEW p \in {0} \cup Tickets,
               NEW w \in {NoUser, ticket[t].assignee} \cup Assignable,
               UpdateTicket(a, t, ticket[t].version, title, p, w)
        PROVE  OpenWorkHasWriter'
    <2> DEFINE row == Edited(ticket[t], title, p, w)
    <2>1. row.assignee = w
      <3>1. p \in Nat
        BY DEF TypeOK, Tickets
      <3>2. w \in User \cup {NoUser}
        BY <1>3, InputAssumption DEF TicketRow
      <3> QED BY <1>3, <3>1, <3>2, EditedRow
    <2>2. w = ticket[t].assignee \/ AssigneeAllowed(w)
      BY <1>5 DEF UpdateTicket
    <2>3. Active(t) /\ ticket[t].status \notin Terminal
      BY <1>5 DEF UpdateTicket, TicketRequest, EditableStatus
    <2>4. w # NoUser => role[w] \in {"USER", "ADMIN"}
      BY <2>2, <2>3 DEF OpenWorkHasWriter, AssigneeAllowed, AssigneeEligible
    <2>5. ticket' = [ticket EXCEPT ![t] = row]
      BY <1>5 DEF UpdateTicket
    <2> HIDE DEF row
    <2> QED BY <1>2, <2>1, <2>4, <2>5
  <1>6. ASSUME NEW a \in User, NEW t \in Tickets, NEW target \in RequestedStatus,
               NEW confirm \in BOOLEAN,
               TransitionTicket(a, t, ticket[t].version, target, confirm)
        PROVE  OpenWorkHasWriter'
    <2> DEFINE row == Moved(ticket[t], target)
    <2>1. row.assignee = ticket[t].assignee
      BY <1>3, MovedRow, InputAssumption
    <2>2. Active(t) /\ ReopeningAllowed(t)
      BY <1>6 DEF TransitionTicket, TicketRequest
    <2>3. ticket[t].assignee # NoUser => role[ticket[t].assignee] \in {"USER", "ADMIN"}
      BY <2>2 DEF OpenWorkHasWriter, ReopeningAllowed, AssigneeAllowed, AssigneeEligible
    <2>4. ticket' = [ticket EXCEPT ![t] = row]
      BY <1>6 DEF TransitionTicket
    <2> HIDE DEF row
    <2> QED BY <1>2, <2>1, <2>3, <2>4
  <1>7. ASSUME NEW a \in User, NEW t \in Tickets, AttachFile(a, t, ticket[t].version)
        PROVE  OpenWorkHasWriter'
    <2> DEFINE row == Bump(ticket[t])
    <2>1. row.batch = ticket[t].batch /\ row.status = ticket[t].status
          /\ row.assignee = ticket[t].assignee
      BY <1>3 DEF Bump, TicketRow
    <2>2. ticket' = [ticket EXCEPT ![t] = row]
      BY <1>7 DEF AttachFile
    <2> HIDE DEF row
    <2> QED BY <1>2, <2>1, <2>2 DEF OpenWorkHasWriter, Active
  <1> QED BY <1>4, <1>5, <1>6, <1>7 DEF TicketStep

\* A relation changes the versions of its two ends and nothing else of them.
LEMMA RelationEffect ==
    ASSUME TypeOK, RelationStep
    PROVE  /\ Tickets' = Tickets
           /\ \A u \in Tickets :
                 ticket'[u] = ticket[u] \/ ticket'[u] = Bump(ticket[u])
  <1>1. ASSUME NEW t, NEW o, TouchBothEnds(t, o)
        PROVE  /\ Tickets' = Tickets
               /\ \A u \in Tickets :
                     ticket'[u] = ticket[u] \/ ticket'[u] = Bump(ticket[u])
    BY <1>1 DEF TouchBothEnds, Tickets
  <1> QED BY <1>1 DEF RelationStep, CreateRelation, DeleteRelation

LEMMA RelationKeepsWriters ==
    ASSUME TypeOK, OpenWorkHasWriter, RelationStep
    PROVE  OpenWorkHasWriter'
  <1>1. ASSUME NEW u \in Tickets
        PROVE  /\ ticket'[u].batch = ticket[u].batch
               /\ ticket'[u].status = ticket[u].status
               /\ ticket'[u].assignee = ticket[u].assignee
    <2>1. ticket[u] \in TicketRow
      BY DEF TypeOK, Tickets
    <2>2. ticket'[u] = ticket[u] \/ ticket'[u] = Bump(ticket[u])
      BY RelationEffect
    <2> QED BY <2>1, <2>2 DEF Bump, TicketRow
  <1> QED BY <1>1, RelationEffect, MembershipFrame DEF OpenWorkHasWriter, Active

\* Restoring checks the assignees of the whole batch again.
LEMMA TrashKeepsWriters ==
    ASSUME TypeOK, OpenWorkHasWriter, TrashStep
    PROVE  OpenWorkHasWriter'
  <1>1. role' = role
    BY MembershipFrame
  <1>2. ASSUME NEW u \in Tickets PROVE ticket[u] \in TicketRow
    BY DEF TypeOK, Tickets
  <1>3. ASSUME NEW a \in User, NEW t \in Tickets, MoveToTrash(a, t, ticket[t].version)
        PROVE  OpenWorkHasWriter'
    <2> DEFINE b == Len(batches) + 1
    <2>1. b \in Nat /\ b # 0
      BY DEF TypeOK
    <2>2. ticket' = [u \in Tickets |-> IF u \in Hierarchy(t)
                      THEN Trashed(ticket[u], b) ELSE ticket[u]]
      BY <1>3 DEF MoveToTrash
    <2> HIDE DEF b
    <2>3. ASSUME NEW u \in Tickets, ticket'[u].batch = 0
          PROVE  ticket'[u] = ticket[u]
      BY <1>2, <2>1, <2>2, <2>3, TrashedTyped
    <2>4. Tickets' = Tickets
      BY <2>2 DEF Tickets
    <2> QED BY <1>1, <2>3, <2>4 DEF OpenWorkHasWriter, Active
  <1>4. ASSUME NEW a \in User, NEW b \in DOMAIN batches,
               RestoreBatch(a, b, ticket[batches[b].root].version)
        PROVE  OpenWorkHasWriter'
    <2>1. ticket' = [u \in Tickets |-> IF u \in Returned(b)
                      THEN Trashed(ticket[u], 0) ELSE ticket[u]]
      BY <1>4 DEF RestoreBatch
    <2>2. Tickets' = Tickets
      BY <2>1 DEF Tickets
    <2>3. ASSUME NEW u \in Returned(b), ticket'[u].assignee # NoUser
          PROVE  role[ticket'[u].assignee] \in {"USER", "ADMIN"}
      <3>1. u \in InBatch(b) /\ u \in Tickets
        BY <2>3 DEF Returned, InBatch
      <3>2. ticket'[u].assignee = ticket[u].assignee
        BY <1>2, <2>1, <3>1, TrashedTyped
      <3>3. AssigneesEligible(b)
        BY <1>4 DEF RestoreBatch
      <3> QED BY <2>3, <3>1, <3>2, <3>3 DEF AssigneesEligible, AssigneeEligible
    <2>4. ASSUME NEW u \in Tickets \ Returned(b) PROVE ticket'[u] = ticket[u]
      BY <2>1
    <2> QED BY <1>1, <2>2, <2>3, <2>4 DEF OpenWorkHasWriter, Active
  <1>5. ASSUME RetentionPasses PROVE OpenWorkHasWriter'
    BY <1>1, <1>5 DEF RetentionPasses, ticketVars, OpenWorkHasWriter, Tickets, Active
  <1> QED BY <1>3, <1>4, <1>5 DEF TrashStep

\* Nobody is made a guest or removed while open work is theirs; somebody who
\* joins has none.
LEMMA ProjectKeepsWriters ==
    ASSUME TypeOK, OpenWorkHasWriter, ProjectStep
    PROVE  OpenWorkHasWriter'
  <1>1. ASSUME NEW u \in User, NEW r \in Role \cup {"NONE"},
               role' = [role EXCEPT ![u] = r], ticket' = ticket,
               r \in {"USER", "ADMIN"} \/ NoOpenAssignment(u) \/ role[u] = "NONE"
        PROVE  OpenWorkHasWriter'
    <2> SUFFICES ASSUME NEW t \in Tickets,
                        Active(t), ticket[t].status \notin Terminal,
                        ticket[t].assignee # NoUser
                 PROVE  role'[ticket[t].assignee] \in {"USER", "ADMIN"}
      BY <1>1 DEF OpenWorkHasWriter, Tickets, Active
    <2>1. role[ticket[t].assignee] \in {"USER", "ADMIN"}
      BY DEF OpenWorkHasWriter
    <2>2. ticket[t].assignee \in User
      BY DEF TypeOK, Tickets, TicketRow
    <2>3. CASE ticket[t].assignee = u
      BY <1>1, <2>1, <2>2, <2>3 DEF NoOpenAssignment, TypeOK
    <2>4. CASE ticket[t].assignee # u
      BY <1>1, <2>1, <2>2, <2>4 DEF TypeOK
    <2> QED BY <2>3, <2>4
  <1>2. ASSUME NEW a \in User, NEW active \in BOOLEAN, UpdateProject(a, active)
        PROVE  OpenWorkHasWriter'
    BY <1>2 DEF UpdateProject, ticketVars, OpenWorkHasWriter, Tickets, Active
  <1>3. ASSUME NEW a \in User, NEW u \in User, NEW r \in Role, AddMember(a, u, r)
        PROVE  OpenWorkHasWriter'
    BY <1>1, <1>3 DEF AddMember, ticketVars
  <1>4. ASSUME NEW a \in User, NEW u \in User, NEW r \in Role, UpdateMemberRole(a, u, r)
        PROVE  OpenWorkHasWriter'
    BY <1>1, <1>4 DEF UpdateMemberRole, ticketVars, Role
  <1>5. ASSUME NEW a \in User, NEW u \in User, RemoveMember(a, u)
        PROVE  OpenWorkHasWriter'
    BY <1>1, <1>5 DEF RemoveMember, ticketVars
  <1>6. ASSUME NEW a \in User, NEW u \in User, NEW active \in BOOLEAN,
               NEW admin \in BOOLEAN, UpdateUser(a, u, active, admin)
        PROVE  OpenWorkHasWriter'
    BY <1>6 DEF UpdateUser, ticketVars, memberVars, OpenWorkHasWriter, Tickets, Active
  <1> QED BY <1>2, <1>3, <1>4, <1>5, <1>6 DEF ProjectStep

\* Whatever is created, assigned, reopened, restored, demoted and removed, in
\* whatever order, open work belongs to nobody or to a member who may write.
THEOREM OpenWorkKeepsWriter == Spec => []OpenWorkHasWriter
  <1>1. Init => OpenWorkHasWriter
    BY DEF Init, OpenWorkHasWriter, Tickets
  <1>2. TypeOK /\ OpenWorkHasWriter /\ [Next]_vars => OpenWorkHasWriter'
    <2>1. ASSUME OpenWorkHasWriter, UNCHANGED vars PROVE OpenWorkHasWriter'
      BY <2>1 DEF OpenWorkHasWriter, Tickets, Active, vars
    <2> QED BY <2>1, TicketKeepsWriters, RelationKeepsWriters, TrashKeepsWriters,
               ProjectKeepsWriters DEF Next
  <1> QED BY <1>1, <1>2, TypesCorrect, PTL DEF Spec

-----------------------------------------------------------------------------
(* History *)

\* If whatever changed is in S, a history row for each ticket of S is enough.
LEMMA HistoryCovers ==
    ASSUME HistoryReplaysState, NEW S, RecordHistory(S),
           \A u \in Tickets' \ S :
              /\ u \in Tickets
              /\ ticket'[u] = ticket[u]
              /\ RelationsOf(u)' = RelationsOf(u)
    PROVE  HistoryReplaysState'
  <1> SUFFICES ASSUME NEW u \in Tickets' PROVE logged'[u] = Snapshot(u)'
    BY DEF HistoryReplaysState
  <1>1. logged'[u] = IF u \in S THEN Snapshot(u)' ELSE logged[u]
    BY DEF RecordHistory, Tickets
  <1>2. CASE u \in S
    BY <1>1, <1>2
  <1>3. CASE u \notin S
    <2>1. Snapshot(u)' = Snapshot(u)
      BY <1>3 DEF Snapshot
    <2>2. logged[u] = Snapshot(u)
      BY <1>3 DEF HistoryReplaysState
    <2> QED BY <1>1, <1>3, <2>1, <2>2
  <1> QED BY <1>2, <1>3

LEMMA TicketKeepsHistory ==
    ASSUME TypeOK, HistoryReplaysState, TicketStep
    PROVE  HistoryReplaysState'
  <1>1. ASSUME NEW t \in Tickets, NEW row, ticket' = [ticket EXCEPT ![t] = row],
               relations' = relations, RecordHistory({t})
        PROVE  HistoryReplaysState'
    BY <1>1, HistoryCovers DEF Tickets, RelationsOf
  <1>2. ASSUME NEW a \in User, NEW type \in RequestedType, NEW title \in Title,
               NEW p \in {0} \cup Tickets, NEW w \in {NoUser} \cup Assignable,
               CreateTicket(a, type, title, p, w)
        PROVE  HistoryReplaysState'
    <2>1. ticket' = [u \in 1..nextNumber |-> IF u = nextNumber
                       THEN NewTicket(type, title, p, w) ELSE ticket[u]]
      BY <1>2 DEF CreateTicket
    <2>2. relations' = relations /\ RecordHistory({nextNumber})
      BY <1>2 DEF CreateTicket
    <2>3. ASSUME NEW u \in Tickets' \ {nextNumber}
          PROVE  u \in Tickets /\ ticket'[u] = ticket[u] /\ RelationsOf(u)' = RelationsOf(u)
      <3>1. u \in 1..nextNumber /\ u # nextNumber
        BY <2>1 DEF Tickets
      <3> QED BY <2>1, <2>2, <3>1 DEF TypeOK, Tickets, RelationsOf
    <2> QED BY <2>2, <2>3, HistoryCovers
  <1>3. ASSUME NEW a \in User, NEW t \in Tickets, NEW title \in Title,
               NEW p \in {0} \cup Tickets,
               NEW w \in {NoUser, ticket[t].assignee} \cup Assignable,
               UpdateTicket(a, t, ticket[t].version, title, p, w)
        PROVE  HistoryReplaysState'
    BY <1>1, <1>3 DEF UpdateTicket
  <1>4. ASSUME NEW a \in User, NEW t \in Tickets, NEW target \in RequestedStatus,
               NEW confirm \in BOOLEAN,
               TransitionTicket(a, t, ticket[t].version, target, confirm)
        PROVE  HistoryReplaysState'
    BY <1>1, <1>4 DEF TransitionTicket
  <1>5. ASSUME NEW a \in User, NEW t \in Tickets, AttachFile(a, t, ticket[t].version)
        PROVE  HistoryReplaysState'
    BY <1>1, <1>5 DEF AttachFile
  <1> QED BY <1>2, <1>3, <1>4, <1>5 DEF TicketStep

\* The relation that appears or disappears is one of its two ends only, and
\* both ends get a history row.
LEMMA RelationKeepsHistory ==
    ASSUME TypeOK, HistoryReplaysState, RelationStep
    PROVE  HistoryReplaysState'
  <1>1. ASSUME NEW t, NEW o, NEW r, TouchBothEnds(t, o),
               relations' = relations \cup {r} \/ relations' = relations \ {r},
               {r.source, r.target} \subseteq {t, o}
        PROVE  HistoryReplaysState'
    <2>1. ticket' = [u \in Tickets |-> IF u \in {t, o} THEN Bump(ticket[u]) ELSE ticket[u]]
      BY <1>1 DEF TouchBothEnds
    <2>2. RecordHistory({t, o})
      BY <1>1 DEF TouchBothEnds
    <2>3. ASSUME NEW u \in Tickets' \ {t, o}
          PROVE  u \in Tickets /\ ticket'[u] = ticket[u] /\ RelationsOf(u)' = RelationsOf(u)
      BY <1>1, <2>1, <2>3 DEF Tickets, RelationsOf
    <2> QED BY <2>2, <2>3, HistoryCovers
  <1>2. ASSUME NEW a \in User, NEW t \in Tickets, NEW o \in Tickets,
               NEW kind \in RequestedLink,
               CreateRelation(a, t, ticket[t].version, o, kind)
        PROVE  HistoryReplaysState'
    <2> DEFINE r == RelationRequested(t, o, kind)
    <2>1. {r.source, r.target} \subseteq {t, o}
      BY DEF RelationRequested
    <2>2. relations' = relations \cup {r} /\ TouchBothEnds(t, o)
      BY <1>2 DEF CreateRelation
    <2> HIDE DEF r
    <2> QED BY <1>1, <2>1, <2>2
  <1>3. ASSUME NEW a \in User, NEW t \in Tickets, NEW r \in relations,
               DeleteRelation(a, t, ticket[t].version, r)
        PROVE  HistoryReplaysState'
    <2> DEFINE o == IF r.source = t THEN r.target ELSE r.source
    <2>1. {r.source, r.target} \subseteq {t, o}
      BY <1>3 DEF DeleteRelation, RelationsOf
    <2>2. relations' = relations \ {r} /\ TouchBothEnds(t, o)
      BY <1>3 DEF DeleteRelation
    <2> HIDE DEF o
    <2> QED BY <1>1, <2>1, <2>2
  <1> QED BY <1>2, <1>3 DEF RelationStep

LEMMA TrashKeepsHistory ==
    ASSUME TypeOK, HistoryReplaysState, TrashStep
    PROVE  HistoryReplaysState'
  <1>1. ASSUME NEW S, NEW b, relations' = relations, RecordHistory(S),
               ticket' = [u \in Tickets |-> IF u \in S THEN Trashed(ticket[u], b) ELSE ticket[u]]
        PROVE  HistoryReplaysState'
    BY <1>1, HistoryCovers DEF Tickets, RelationsOf
  <1>2. ASSUME NEW a \in User, NEW t \in Tickets, MoveToTrash(a, t, ticket[t].version)
        PROVE  HistoryReplaysState'
    BY <1>1, <1>2 DEF MoveToTrash
  <1>3. ASSUME NEW a \in User, NEW b \in DOMAIN batches,
               RestoreBatch(a, b, ticket[batches[b].root].version)
        PROVE  HistoryReplaysState'
    BY <1>1, <1>3 DEF RestoreBatch
  <1>4. ASSUME RetentionPasses PROVE HistoryReplaysState'
    BY <1>4 DEF RetentionPasses, ticketVars, HistoryReplaysState, Tickets, Snapshot, RelationsOf
  <1> QED BY <1>2, <1>3, <1>4 DEF TrashStep

LEMMA ProjectFrame ==
    ASSUME ProjectStep
    PROVE  UNCHANGED <<ticketVars, expiredUpTo>>
  BY DEF ProjectStep, UpdateProject, AddMember, UpdateMemberRole, RemoveMember, UpdateUser,
         ticketVars

\* The newest history row of every ticket is the ticket's present state, for
\* every sequence of operations: a report that replays the rows sees no state
\* that was skipped.
THEOREM HistoryIsComplete == Spec => []HistoryReplaysState
  <1>1. Init => HistoryReplaysState
    BY DEF Init, HistoryReplaysState, Tickets
  <1>2. TypeOK /\ HistoryReplaysState /\ [Next]_vars => HistoryReplaysState'
    <2> USE DEF HistoryReplaysState, Tickets, Snapshot, RelationsOf
    <2>1. ASSUME HistoryReplaysState, UNCHANGED vars PROVE HistoryReplaysState'
      BY <2>1 DEF vars
    <2>2. ASSUME HistoryReplaysState, ProjectStep PROVE HistoryReplaysState'
      BY <2>2, ProjectFrame DEF ticketVars
    <2> QED BY <2>1, <2>2, TicketKeepsHistory, RelationKeepsHistory, TrashKeepsHistory
            DEF Next
  <1> QED BY <1>1, <1>2, TypesCorrect, PTL DEF Spec

-----------------------------------------------------------------------------
(* The hierarchy *)

\* What ParentsInPlace says of one ticket.
Placed(t) ==
    IF ticket[t].parent = 0 THEN ticket[t].type # "SUBTASK"
    ELSE /\ ticket[t].type # "EPIC"
         /\ ticket[t].parent \in Tickets
         /\ ticket[ticket[t].parent].type = ParentType[ticket[t].type]
         /\ Active(t) => Active(ticket[t].parent)

LEMMA ParentsPlaced == ParentsInPlace <=> \A t \in Tickets : Placed(t)
  BY DEF ParentsInPlace, Placed

\* A step that keeps type, parent and trash state of every ticket keeps the
\* hierarchy.
LEMMA SameShape ==
    ASSUME ParentsInPlace, Tickets' = Tickets,
           \A u \in Tickets : /\ ticket'[u].type = ticket[u].type
                              /\ ticket'[u].parent = ticket[u].parent
                              /\ ticket'[u].batch = ticket[u].batch
    PROVE  ParentsInPlace'
  BY DEF ParentsInPlace, Active

LEMMA TicketKeepsParents ==
    ASSUME TypeOK, ParentsInPlace, TicketStep
    PROVE  ParentsInPlace'
  <1>1. ASSUME NEW t \in Tickets PROVE ticket[t] \in TicketRow
    BY <1>1 DEF TypeOK, Tickets
  <1>2. ASSUME NEW t \in Tickets, NEW row, ticket' = [ticket EXCEPT ![t] = row],
               row.type = ticket[t].type, row.parent = ticket[t].parent,
               row.batch = ticket[t].batch
        PROVE  ParentsInPlace'
    <2>1. Tickets' = Tickets
      BY <1>2 DEF Tickets
    <2>2. ASSUME NEW u \in Tickets
          PROVE  /\ ticket'[u].type = ticket[u].type
                 /\ ticket'[u].parent = ticket[u].parent
                 /\ ticket'[u].batch = ticket[u].batch
      BY <1>2 DEF TypeOK, Tickets
    <2> QED BY <2>1, <2>2, SameShape
  <1>3. ASSUME NEW a \in User, NEW type \in RequestedType, NEW title \in Title,
               NEW p \in {0} \cup Tickets, NEW w \in {NoUser} \cup Assignable,
               CreateTicket(a, type, title, p, w)
        PROVE  ParentsInPlace'
    <2> DEFINE row == NewTicket(type, title, p, w)
    <2>1. row.type = type /\ row.parent = p /\ row.batch = 0
      BY DEF NewTicket
    <2>2. ticket' = [u \in 1..nextNumber |-> IF u = nextNumber THEN row ELSE ticket[u]]
      BY <1>3 DEF CreateTicket
    <2>3. ParentAllowed(type, p)
      BY <1>3 DEF CreateTicket
    <2> HIDE DEF row
    <2>4. /\ Tickets' = 1..nextNumber /\ nextNumber \in Tickets'
          /\ nextNumber \notin Tickets /\ 0 \notin Tickets
          /\ ticket'[nextNumber] = row
      BY <2>2 DEF Tickets, TypeOK
    <2>5. ASSUME NEW u \in Tickets PROVE u \in Tickets' /\ ticket'[u] = ticket[u]
      BY <2>2 DEF Tickets, TypeOK
    <2>6. ASSUME NEW u \in Tickets' PROVE u = nextNumber \/ u \in Tickets
      BY <2>4 DEF Tickets, TypeOK
    <2>7. ASSUME NEW n \in Tickets', n = nextNumber PROVE Placed(n)'
      BY <2>1, <2>3, <2>4, <2>5, <2>7 DEF Placed, ParentAllowed, Active
    <2>8. ASSUME NEW u \in Tickets PROVE Placed(u)'
      BY <2>5, <2>8, ParentsPlaced DEF Placed, Active
    <2> QED BY <2>6, <2>7, <2>8 DEF Placed, ParentsInPlace
  <1>4. ASSUME NEW a \in User, NEW t \in Tickets, NEW title \in Title,
               NEW p \in {0} \cup Tickets,
               NEW w \in {NoUser, ticket[t].assignee} \cup Assignable,
               UpdateTicket(a, t, ticket[t].version, title, p, w)
        PROVE  ParentsInPlace'
    <2> DEFINE row == Edited(ticket[t], title, p, w)
    <2>1. row.type = ticket[t].type /\ row.parent = p /\ row.batch = ticket[t].batch
      <3>1. p \in Nat
        BY DEF TypeOK, Tickets
      <3>2. w \in User \cup {NoUser}
        BY <1>1, InputAssumption DEF TicketRow
      <3>3. ticket[t] \in TicketRow
        BY <1>1
      <3> HIDE DEF row
      <3>4. Edited(ticket[t], title, p, w).type = ticket[t].type
            /\ Edited(ticket[t], title, p, w).parent = p
            /\ Edited(ticket[t], title, p, w).batch = ticket[t].batch
        BY <3>1, <3>2, <3>3, EditedRow
      <3> QED BY <3>4 DEF row
    <2>2. ticket' = [ticket EXCEPT ![t] = row]
      BY <1>4 DEF UpdateTicket
    <2>3. ParentAllowed(ticket[t].type, p)
      BY <1>4 DEF UpdateTicket
    <2> HIDE DEF row
    <2>4. Tickets' = Tickets /\ ticket'[t] = row
      BY <2>2 DEF Tickets
    <2>5. ASSUME NEW u \in Tickets
          PROVE  /\ ticket'[u].type = ticket[u].type
                 /\ ticket'[u].batch = ticket[u].batch
                 /\ u # t => ticket'[u].parent = ticket[u].parent
      BY <2>1, <2>2 DEF Tickets
    <2>6. Placed(t)'
      BY <2>1, <2>3, <2>4, <2>5 DEF Placed, ParentAllowed, Active
    <2>7. ASSUME NEW u \in Tickets, u # t PROVE Placed(u)'
      BY <2>4, <2>5, <2>7, ParentsPlaced DEF Placed, Active
    <2> QED BY <2>4, <2>6, <2>7 DEF Placed, ParentsInPlace
  <1>5. ASSUME NEW a \in User, NEW t \in Tickets, NEW target \in RequestedStatus,
               NEW confirm \in BOOLEAN,
               TransitionTicket(a, t, ticket[t].version, target, confirm)
        PROVE  ParentsInPlace'
    <2> DEFINE row == Moved(ticket[t], target)
    <2>1. /\ row.type = ticket[t].type /\ row.parent = ticket[t].parent
          /\ row.batch = ticket[t].batch
      BY <1>1, MovedRow, InputAssumption
    <2>2. ticket' = [ticket EXCEPT ![t] = row]
      BY <1>5 DEF TransitionTicket
    <2> HIDE DEF row
    <2> QED BY <1>2, <2>1, <2>2
  <1>6. ASSUME NEW a \in User, NEW t \in Tickets, AttachFile(a, t, ticket[t].version)
        PROVE  ParentsInPlace'
    <2> DEFINE row == Bump(ticket[t])
    <2>1. /\ row.type = ticket[t].type /\ row.parent = ticket[t].parent
          /\ row.batch = ticket[t].batch
      BY <1>1 DEF Bump, TicketRow
    <2>2. ticket' = [ticket EXCEPT ![t] = row]
      BY <1>6 DEF AttachFile
    <2> HIDE DEF row
    <2> QED BY <1>2, <2>1, <2>2
  <1> QED BY <1>3, <1>4, <1>5, <1>6 DEF TicketStep

LEMMA RelationKeepsParents ==
    ASSUME TypeOK, ParentsInPlace, RelationStep
    PROVE  ParentsInPlace'
  <1>1. ASSUME NEW u \in Tickets
        PROVE  /\ ticket'[u].type = ticket[u].type
               /\ ticket'[u].parent = ticket[u].parent
               /\ ticket'[u].batch = ticket[u].batch
    <2>1. ticket[u] \in TicketRow
      BY DEF TypeOK, Tickets
    <2>2. ticket'[u] = ticket[u] \/ ticket'[u] = Bump(ticket[u])
      BY RelationEffect
    <2> QED BY <2>1, <2>2 DEF Bump, TicketRow
  <1> QED BY <1>1, RelationEffect, SameShape

\* A ticket whose parent is moved to the trash is moved with it: three levels
\* are all there are, by ParentType.
LEMMA HierarchyClosed ==
    ASSUME TypeOK, ParentsInPlace, NEW t \in Tickets, Active(t),
           NEW u \in Tickets, Active(u), ticket[u].parent \in Hierarchy(t)
    PROVE  u \in Hierarchy(t)
  <1> DEFINE p == ticket[u].parent
             q == ticket[p].parent
  <1>1. p \in Tickets /\ p # 0
    BY DEF Hierarchy, Tickets, TypeOK
  <1>2. /\ ticket[u].type # "EPIC"
        /\ ticket[p].type = ParentType[ticket[u].type]
    BY <1>1 DEF ParentsInPlace
  <1>3. \A v \in Tickets : ticket[v].type \in TicketType
    BY DEF TypeOK, Tickets, TicketRow
  <1>4. \/ ticket[u].type = "TASK" /\ ticket[p].type = "EPIC"
        \/ ticket[u].type = "SUBTASK" /\ ticket[p].type = "TASK"
    BY <1>2, <1>3 DEF ParentType, TicketType
  <1>5. CASE p = t
    BY <1>4, <1>5 DEF Hierarchy
  <1>6. CASE p # t
    <2>1. q \in Tickets /\ q # 0
      BY <1>6, <1>1 DEF Hierarchy, Tickets, TypeOK
    <2>2. /\ ticket[p].type # "EPIC"
          /\ ticket[q].type = ParentType[ticket[p].type]
      BY <1>1, <2>1 DEF ParentsInPlace
    <2>3. ticket[p].type = "TASK" /\ ticket[q].type = "EPIC"
      BY <1>4, <2>2 DEF ParentType
    <2>4. q = t
      BY <1>6, <2>1, <2>3 DEF Hierarchy
    <2>5. Active(p)
      BY DEF Hierarchy
    <2> QED BY <1>1, <2>3, <2>4, <2>5 DEF Hierarchy
  <1> QED BY <1>5, <1>6

LEMMA TrashKeepsParents ==
    ASSUME TypeOK, ParentsInPlace, TrashStep
    PROVE  ParentsInPlace'
  <1>1. ASSUME NEW u \in Tickets PROVE ticket[u] \in TicketRow
    BY DEF TypeOK, Tickets
  <1>2. ASSUME NEW S \in SUBSET Tickets, NEW b \in Nat,
               ticket' = [u \in Tickets |-> IF u \in S THEN Trashed(ticket[u], b) ELSE ticket[u]]
        PROVE  /\ Tickets' = Tickets
               /\ \A u \in Tickets :
                     /\ ticket'[u].type = ticket[u].type
                     /\ ticket'[u].parent = ticket[u].parent
                     /\ ticket'[u].batch = IF u \in S THEN b ELSE ticket[u].batch
    <2>1. Tickets' = Tickets
      BY <1>2 DEF Tickets
    <2>2. ASSUME NEW u \in Tickets
          PROVE  /\ ticket'[u].type = ticket[u].type
                 /\ ticket'[u].parent = ticket[u].parent
                 /\ ticket'[u].batch = IF u \in S THEN b ELSE ticket[u].batch
      BY <1>1, <1>2, TrashedTyped
    <2> QED BY <2>1, <2>2
  <1>3. ASSUME NEW a \in User, NEW t \in Tickets, MoveToTrash(a, t, ticket[t].version)
        PROVE  ParentsInPlace'
    <2> DEFINE b == Len(batches) + 1
    <2>1. b \in Nat /\ b # 0
      BY DEF TypeOK
    <2>2. ticket' = [u \in Tickets |-> IF u \in Hierarchy(t)
                      THEN Trashed(ticket[u], b) ELSE ticket[u]]
      BY <1>3 DEF MoveToTrash
    <2>3. Active(t)
      BY <1>3 DEF MoveToTrash, TicketRequest
    <2>4. Hierarchy(t) \in SUBSET Tickets
      BY DEF Hierarchy
    <2> HIDE DEF b
    <2>5. /\ Tickets' = Tickets
          /\ \A u \in Tickets :
                /\ ticket'[u].type = ticket[u].type
                /\ ticket'[u].parent = ticket[u].parent
                /\ ticket'[u].batch = IF u \in Hierarchy(t) THEN b ELSE ticket[u].batch
      BY <1>2, <2>1, <2>2, <2>4
    <2>6. ASSUME NEW u \in Tickets, ticket[u].parent \in Tickets, ticket'[u].batch = 0
          PROVE  ticket'[ticket[u].parent].batch = 0 \/ ticket[ticket[u].parent].batch # 0
      <3>1. u \notin Hierarchy(t) /\ Active(u)
        BY <2>1, <2>5, <2>6 DEF Active
      <3>2. ticket[u].parent \notin Hierarchy(t)
        BY <2>3, <3>1, HierarchyClosed
      <3> QED BY <2>5, <2>6, <3>2
    <2>7. ASSUME NEW u \in Tickets, ticket'[u].batch = 0 PROVE ticket[u].batch = 0
      BY <2>1, <2>5, <2>7
    <2> QED BY <2>5, <2>6, <2>7 DEF ParentsInPlace, Active
  <1>4. ASSUME NEW a \in User, NEW b \in DOMAIN batches,
               RestoreBatch(a, b, ticket[batches[b].root].version)
        PROVE  ParentsInPlace'
    <2>1. ticket' = [u \in Tickets |-> IF u \in Returned(b)
                      THEN Trashed(ticket[u], 0) ELSE ticket[u]]
      BY <1>4 DEF RestoreBatch
    <2>2. Returned(b) \in SUBSET Tickets
      BY DEF Returned, InBatch
    <2>3. /\ Tickets' = Tickets
          /\ \A u \in Tickets :
                /\ ticket'[u].type = ticket[u].type
                /\ ticket'[u].parent = ticket[u].parent
                /\ ticket'[u].batch = IF u \in Returned(b) THEN 0 ELSE ticket[u].batch
      BY <1>2, <2>1, <2>2
    <2>4. ASSUME NEW u \in Tickets, ticket[u].parent \in Tickets, ticket'[u].batch = 0
          PROVE  ticket'[ticket[u].parent].batch = 0 \/ ticket[u].batch = 0
      <3>1. CASE u \in Returned(b)
        <4>1. ticket[ticket[u].parent].batch \in {0, b}
          BY <1>4, <2>4, <3>1 DEF RestoreBatch, ParentsAvailable, Returned
        <4> QED BY <2>3, <2>4, <4>1 DEF Returned, InBatch
      <3>2. CASE u \notin Returned(b)
        BY <2>3, <2>4, <3>2
      <3> QED BY <3>1, <3>2
    <2> QED BY <2>3, <2>4 DEF ParentsInPlace, Active
  <1>5. ASSUME RetentionPasses PROVE ParentsInPlace'
    BY <1>5 DEF RetentionPasses, ticketVars, ParentsInPlace, Tickets, Active
  <1> QED BY <1>3, <1>4, <1>5 DEF TrashStep

\* However hierarchies are edited, trashed and restored batch by batch, a ticket
\* outside the trash hangs under a ticket outside the trash, of the next type.
THEOREM ParentsStayInPlace == Spec => []ParentsInPlace
  <1>1. Init => ParentsInPlace
    BY DEF Init, ParentsInPlace, Tickets
  <1>2. TypeOK /\ ParentsInPlace /\ [Next]_vars => ParentsInPlace'
    <2> USE DEF ParentsInPlace, Tickets, Active
    <2>1. ASSUME ParentsInPlace, UNCHANGED vars PROVE ParentsInPlace'
      BY <2>1 DEF vars
    <2>2. ASSUME ParentsInPlace, ProjectStep PROVE ParentsInPlace'
      BY <2>2, ProjectFrame DEF ticketVars
    <2> QED BY <2>1, <2>2, TicketKeepsParents, RelationKeepsParents, TrashKeepsParents
            DEF Next
  <1> QED BY <1>1, <1>2, TypesCorrect, PTL DEF Spec

-----------------------------------------------------------------------------
(* Archived projects *)

\* Every operation on tickets asks for an active project.
LEMMA WorkNeedsActiveProject ==
    ASSUME ~projectActive, TicketStep \/ RelationStep \/ TrashStep
    PROVE  UNCHANGED ticketVars
  <1>1. ASSUME TicketStep PROVE FALSE
    <2>1. ASSUME NEW a \in User, NEW type \in RequestedType, NEW title \in Title,
                 NEW p \in {0} \cup Tickets, NEW w \in {NoUser} \cup Assignable,
                 CreateTicket(a, type, title, p, w)
          PROVE  FALSE
      BY <2>1 DEF CreateTicket
    <2>2. ASSUME NEW a \in User, NEW t \in Tickets, NEW title \in Title,
                 NEW p \in {0} \cup Tickets,
                 NEW w \in {NoUser, ticket[t].assignee} \cup Assignable,
                 UpdateTicket(a, t, ticket[t].version, title, p, w)
          PROVE  FALSE
      BY <2>2 DEF UpdateTicket, TicketRequest
    <2>3. ASSUME NEW a \in User, NEW t \in Tickets, NEW target \in RequestedStatus,
                 NEW confirm \in BOOLEAN,
                 TransitionTicket(a, t, ticket[t].version, target, confirm)
          PROVE  FALSE
      BY <2>3 DEF TransitionTicket, TicketRequest
    <2>4. ASSUME NEW a \in User, NEW t \in Tickets, AttachFile(a, t, ticket[t].version)
          PROVE  FALSE
      BY <2>4 DEF AttachFile, TicketRequest
    <2> QED BY <1>1, <2>1, <2>2, <2>3, <2>4 DEF TicketStep
  <1>2. ASSUME RelationStep PROVE FALSE
    BY <1>2 DEF RelationStep, CreateRelation, DeleteRelation, TicketRequest
  <1>3. ASSUME TrashStep PROVE RetentionPasses
    BY <1>3 DEF TrashStep, MoveToTrash, RestoreBatch, TicketRequest
  <1> QED BY <1>1, <1>2, <1>3 DEF RetentionPasses

\* While the project is inactive no ticket, relation, batch or history row
\* changes, nobody joins and no member's role grows.
THEOREM ArchiveIsReadOnly == Spec => InactiveProjectFrozen
  <1>1. TypeOK /\ [Next]_vars => [KeepsArchive]_vars
    <2> SUFFICES ASSUME TypeOK, Next, ~projectActive, ~projectActive'
                 PROVE  /\ UNCHANGED ticketVars
                        /\ \A u \in User : role'[u] # role[u] =>
                              /\ role[u] # "NONE"
                              /\ role'[u] # "NONE" => Rank[role'[u]] < Rank[role[u]]
      BY DEF KeepsArchive
    <2>1. UNCHANGED ticketVars
      BY WorkNeedsActiveProject, ProjectFrame DEF Next
    <2> SUFFICES ASSUME NEW u \in User, role'[u] # role[u]
                 PROVE  /\ role[u] # "NONE"
                        /\ role'[u] # "NONE" => Rank[role'[u]] < Rank[role[u]]
      BY <2>1
    <2>2. ProjectStep
      BY MembershipFrame DEF Next
    <2>3. ASSUME NEW a \in User, NEW active \in BOOLEAN, UpdateProject(a, active)
          PROVE  FALSE
      BY <2>3 DEF UpdateProject
    <2>4. ASSUME NEW a \in User, NEW v \in User, NEW r \in Role, AddMember(a, v, r)
          PROVE  FALSE
      BY <2>4 DEF AddMember
    <2>5. ASSUME NEW a \in User, NEW v \in User, NEW r \in Role, UpdateMemberRole(a, v, r)
          PROVE  /\ role[u] # "NONE"
                 /\ role'[u] # "NONE" => Rank[role'[u]] < Rank[role[u]]
      <3>1. v = u /\ role'[u] = r /\ role[u] \in Role /\ r # role[u]
        BY <2>5 DEF UpdateMemberRole, TypeOK
      <3>2. ~(Rank[r] > Rank[role[u]])
        BY <2>5, <3>1 DEF UpdateMemberRole, RoleChangeAllowed
      <3> QED BY <3>1, <3>2 DEF Rank, Role
    <2>6. ASSUME NEW a \in User, NEW v \in User, RemoveMember(a, v)
          PROVE  role[u] # "NONE" /\ role'[u] = "NONE"
      BY <2>6 DEF RemoveMember, TypeOK, Role
    <2>7. ASSUME NEW a \in User, NEW v \in User, NEW active \in BOOLEAN,
                 NEW admin \in BOOLEAN, UpdateUser(a, v, active, admin)
          PROVE  FALSE
      BY <2>7 DEF UpdateUser, memberVars
    <2> QED BY <2>2, <2>3, <2>4, <2>5, <2>6, <2>7 DEF ProjectStep
  <1> QED BY <1>1, TypesCorrect, PTL DEF Spec, InactiveProjectFrozen

-----------------------------------------------------------------------------
(* Finished tickets *)

LEMMA TicketKeepsFinished ==
    ASSUME TypeOK, TicketStep
    PROVE  KeepsFinished
  <1> SUFFICES ASSUME NEW f \in Tickets, ticket[f].status \in Terminal
               PROVE  Content(f)' = Content(f)
    BY DEF KeepsFinished
  <1>1. ASSUME NEW t \in Tickets PROVE ticket[t] \in TicketRow
    BY <1>1 DEF TypeOK, Tickets
  <1>2. ASSUME NEW t \in Tickets, NEW row, ticket' = [ticket EXCEPT ![t] = row],
               relations' = relations,
               f = t => /\ row.title = ticket[t].title
                        /\ row.parent = ticket[t].parent
                        /\ row.assignee = ticket[t].assignee
        PROVE  Content(f)' = Content(f)
    BY <1>2 DEF Content, RelationsOf, Tickets
  <1>3. ASSUME NEW a \in User, NEW type \in RequestedType, NEW title \in Title,
               NEW p \in {0} \cup Tickets, NEW w \in {NoUser} \cup Assignable,
               CreateTicket(a, type, title, p, w)
        PROVE  Content(f)' = Content(f)
    <2>1. ticket'[f] = ticket[f]
      BY <1>3 DEF CreateTicket, TypeOK, Tickets
    <2> QED BY <1>3, <2>1 DEF CreateTicket, Content, RelationsOf
  <1>4. ASSUME NEW a \in User, NEW t \in Tickets, NEW title \in Title,
               NEW p \in {0} \cup Tickets,
               NEW w \in {NoUser, ticket[t].assignee} \cup Assignable,
               UpdateTicket(a, t, ticket[t].version, title, p, w)
        PROVE  Content(f)' = Content(f)
    <2>1. f # t
      BY <1>4 DEF UpdateTicket, EditableStatus
    <2> QED BY <1>2, <1>4, <2>1 DEF UpdateTicket
  <1>5. ASSUME NEW a \in User, NEW t \in Tickets, NEW target \in RequestedStatus,
               NEW confirm \in BOOLEAN,
               TransitionTicket(a, t, ticket[t].version, target, confirm)
        PROVE  Content(f)' = Content(f)
    <2> DEFINE row == Moved(ticket[t], target)
    <2>1. /\ row.title = ticket[t].title /\ row.parent = ticket[t].parent
          /\ row.assignee = ticket[t].assignee
      BY <1>1, MovedRow, InputAssumption
    <2>2. ticket' = [ticket EXCEPT ![t] = row] /\ relations' = relations
      BY <1>5 DEF TransitionTicket
    <2> HIDE DEF row
    <2> QED BY <1>2, <2>1, <2>2
  <1>6. ASSUME NEW a \in User, NEW t \in Tickets, AttachFile(a, t, ticket[t].version)
        PROVE  Content(f)' = Content(f)
    <2> DEFINE row == Bump(ticket[t])
    <2>1. /\ row.title = ticket[t].title /\ row.parent = ticket[t].parent
          /\ row.assignee = ticket[t].assignee
      BY <1>1 DEF Bump, TicketRow
    <2>2. ticket' = [ticket EXCEPT ![t] = row] /\ relations' = relations
      BY <1>6 DEF AttachFile
    <2> HIDE DEF row
    <2> QED BY <1>2, <2>1, <2>2
  <1> QED BY <1>3, <1>4, <1>5, <1>6 DEF TicketStep

\* Both ends of a relation are unfinished when it is made or removed.
LEMMA RelationKeepsFinished ==
    ASSUME TypeOK, RelationStep
    PROVE  KeepsFinished
  <1> SUFFICES ASSUME NEW f \in Tickets, ticket[f].status \in Terminal
               PROVE  Content(f)' = Content(f)
    BY DEF KeepsFinished
  <1>1. ASSUME NEW t, NEW o, NEW r, TouchBothEnds(t, o), EndsEditable(t, o),
               relations' = relations \cup {r} \/ relations' = relations \ {r},
               {r.source, r.target} \subseteq {t, o}
        PROVE  Content(f)' = Content(f)
    <2>1. f \notin {t, o}
      BY <1>1 DEF EndsEditable
    <2>2. ticket'[f] = ticket[f]
      BY <1>1, <2>1 DEF TouchBothEnds
    <2>3. RelationsOf(f)' = RelationsOf(f)
      BY <1>1, <2>1 DEF RelationsOf
    <2> QED BY <2>2, <2>3 DEF Content
  <1>2. ASSUME NEW a \in User, NEW t \in Tickets, NEW o \in Tickets,
               NEW kind \in RequestedLink,
               CreateRelation(a, t, ticket[t].version, o, kind)
        PROVE  Content(f)' = Content(f)
    <2> DEFINE r == RelationRequested(t, o, kind)
    <2>1. {r.source, r.target} \subseteq {t, o}
      BY DEF RelationRequested
    <2>2. relations' = relations \cup {r} /\ TouchBothEnds(t, o) /\ EndsEditable(t, o)
      BY <1>2 DEF CreateRelation
    <2> HIDE DEF r
    <2> QED BY <1>1, <2>1, <2>2
  <1>3. ASSUME NEW a \in User, NEW t \in Tickets, NEW r \in relations,
               DeleteRelation(a, t, ticket[t].version, r)
        PROVE  Content(f)' = Content(f)
    <2> DEFINE o == IF r.source = t THEN r.target ELSE r.source
    <2>1. {r.source, r.target} \subseteq {t, o}
      BY <1>3 DEF DeleteRelation, RelationsOf
    <2>2. relations' = relations \ {r} /\ TouchBothEnds(t, o) /\ EndsEditable(t, o)
      BY <1>3 DEF DeleteRelation
    <2> HIDE DEF o
    <2> QED BY <1>1, <2>1, <2>2
  <1> QED BY <1>2, <1>3 DEF RelationStep

LEMMA TrashKeepsFinished ==
    ASSUME TypeOK, TrashStep
    PROVE  KeepsFinished
  <1> SUFFICES ASSUME NEW f \in Tickets PROVE Content(f)' = Content(f)
    BY DEF KeepsFinished
  <1>1. ASSUME NEW S, NEW b \in Nat, relations' = relations,
               ticket' = [u \in Tickets |-> IF u \in S THEN Trashed(ticket[u], b) ELSE ticket[u]]
        PROVE  Content(f)' = Content(f)
    <2>1. ticket[f] \in TicketRow
      BY DEF TypeOK, Tickets
    <2>2. /\ ticket'[f].title = ticket[f].title
          /\ ticket'[f].parent = ticket[f].parent
          /\ ticket'[f].assignee = ticket[f].assignee
      BY <1>1, <2>1, TrashedTyped
    <2> QED BY <1>1, <2>2 DEF Content, RelationsOf
  <1>2. ASSUME NEW a \in User, NEW t \in Tickets, MoveToTrash(a, t, ticket[t].version)
        PROVE  Content(f)' = Content(f)
    <2> DEFINE b == Len(batches) + 1
    <2>1. b \in Nat
      BY DEF TypeOK
    <2>2. /\ relations' = relations
          /\ ticket' = [u \in Tickets |-> IF u \in Hierarchy(t)
                          THEN Trashed(ticket[u], b) ELSE ticket[u]]
      BY <1>2 DEF MoveToTrash
    <2> HIDE DEF b
    <2> QED BY <1>1, <2>1, <2>2
  <1>3. ASSUME NEW a \in User, NEW b \in DOMAIN batches,
               RestoreBatch(a, b, ticket[batches[b].root].version)
        PROVE  Content(f)' = Content(f)
    BY <1>1, <1>3 DEF RestoreBatch
  <1>4. ASSUME RetentionPasses PROVE Content(f)' = Content(f)
    BY <1>4 DEF RetentionPasses, ticketVars, Content, RelationsOf
  <1> QED BY <1>2, <1>3, <1>4 DEF TrashStep

\* A finished ticket keeps its title, parent, assignee and relations through
\* every step, also those that other tickets ask for, until it is reopened.
THEOREM FinishedStaysPut == Spec => FinishedTicketsFrozen
  <1>1. TypeOK /\ [Next]_vars => [KeepsFinished]_vars
    <2>1. ASSUME ProjectStep PROVE KeepsFinished
      BY <2>1, ProjectFrame DEF ticketVars, KeepsFinished, Content, RelationsOf
    <2> QED BY <2>1, TicketKeepsFinished, RelationKeepsFinished, TrashKeepsFinished
            DEF Next
  <1> QED BY <1>1, TypesCorrect, PTL DEF Spec, FinishedTicketsFrozen

-----------------------------------------------------------------------------
(* Timestamps *)

\* StampsMatchStatus of one row, and what it rests on: a start is not later
\* than the version, so that the next version is a later moment.
StampsFit(row) ==
    /\ row.completed # 0 <=> row.status = "DONE"
    /\ row.cancelled # 0 <=> row.status = "CANCELLED"
    /\ row.status \in {"IN_PROGRESS", "DONE"} => row.started # 0
    /\ row.completed # 0 => row.started < row.completed
    /\ row.started <= row.version

SameStamps(row, new) ==
    /\ new.status = row.status /\ new.started = row.started
    /\ new.completed = row.completed /\ new.cancelled = row.cancelled
    /\ new.version = row.version + 1

LEMMA BumpSameStamps ==
    ASSUME NEW row \in TicketRow
    PROVE  SameStamps(row, Bump(row))
  BY DEF Bump, TicketRow, SameStamps

LEMMA EditedSameStamps ==
    ASSUME NEW row \in TicketRow, NEW title \in Title, NEW p \in Nat,
           NEW w \in User \cup {NoUser}
    PROVE  SameStamps(row, Edited(row, title, p, w))
  <1> DEFINE r == [row EXCEPT !.title = title, !.parent = p, !.assignee = w]
  <1>1. /\ r \in TicketRow /\ r.status = row.status /\ r.started = row.started
        /\ r.completed = row.completed /\ r.cancelled = row.cancelled
        /\ r.version = row.version
    BY DEF TicketRow
  <1>2. Edited(row, title, p, w) = Bump(r)
    BY DEF Edited
  <1> HIDE DEF r
  <1> QED BY <1>1, <1>2, BumpSameStamps DEF SameStamps

LEMMA TrashedSameStamps ==
    ASSUME NEW row \in TicketRow, NEW b \in Nat
    PROVE  SameStamps(row, Trashed(row, b))
  <1> DEFINE r == [row EXCEPT !.batch = b]
  <1>1. /\ r \in TicketRow /\ r.status = row.status /\ r.started = row.started
        /\ r.completed = row.completed /\ r.cancelled = row.cancelled
        /\ r.version = row.version
    BY DEF TicketRow
  <1>2. Trashed(row, b) = Bump(r)
    BY DEF Trashed
  <1> HIDE DEF r
  <1> QED BY <1>1, <1>2, BumpSameStamps DEF SameStamps

LEMMA SameStampsFit ==
    ASSUME NEW row \in TicketRow, NEW new, SameStamps(row, new), StampsFit(row)
    PROVE  StampsFit(new)
  BY DEF SameStamps, StampsFit, TicketRow

\* A transition that AllowedTransitions admits leaves fitting timestamps.
LEMMA MovedFits ==
    ASSUME NEW row \in TicketRow, StampsFit(row),
           NEW target \in AllowedTransitions[row.status]
    PROVE  StampsFit(Moved(row, target))
  <1> DEFINE now == row.version + 1
             new == Moved(row, target)
             r0 == Bump(row)
             started == IF target = "IN_PROGRESS" /\ r0.started = 0 THEN now ELSE r0.started
             completed == IF target = "DONE" THEN now
                          ELSE IF row.status = "DONE" THEN 0 ELSE r0.completed
             cancelled == IF target = "CANCELLED" THEN now
                          ELSE IF row.status = "CANCELLED" THEN 0 ELSE r0.cancelled
  <1>1. SameStamps(row, r0) /\ r0 \in TicketRow
    BY BumpSameStamps, BumpTyped
  <1>2. new = [r0 EXCEPT !.status = target, !.started = started,
                         !.completed = completed, !.cancelled = cancelled]
    BY DEF Moved
  <1>3. /\ new.status = target /\ new.started = started /\ new.completed = completed
        /\ new.cancelled = cancelled /\ new.version = now
    <2> HIDE DEF new, r0, started, completed, cancelled
    <2> QED BY <1>1, <1>2 DEF TicketRow, SameStamps
  <1>4. /\ started = IF target = "IN_PROGRESS" /\ row.started = 0 THEN now ELSE row.started
        /\ completed = IF target = "DONE" THEN now
                       ELSE IF row.status = "DONE" THEN 0 ELSE row.completed
        /\ cancelled = IF target = "CANCELLED" THEN now
                       ELSE IF row.status = "CANCELLED" THEN 0 ELSE row.cancelled
    BY <1>1 DEF SameStamps
  <1>5. /\ row.version \in Nat /\ row.started \in Nat /\ row.completed \in Nat
        /\ row.cancelled \in Nat /\ row.status \in Status
    BY DEF TicketRow
  <1>6. target # row.status /\ (target = "DONE" => row.status = "IN_PROGRESS")
    BY <1>5 DEF AllowedTransitions, Status
  <1> HIDE DEF new, r0, started, completed, cancelled
  <1>7. StampsFit(new)
    BY <1>3, <1>4, <1>5, <1>6 DEF StampsFit
  <1> QED BY <1>7 DEF new

AllFit == \A t \in Tickets : StampsFit(ticket[t])

\* What a step does to the row of a ticket that exists.
RowChanges(row, new) ==
    \/ new = row
    \/ SameStamps(row, new)
    \/ \E target \in AllowedTransitions[row.status] \cap Status : new = Moved(row, target)

\* Every step changes existing rows in one of these ways; a row that is new is
\* TODO without timestamps.
LEMMA StepChangesRows ==
    ASSUME TypeOK, [Next]_vars
    PROVE  /\ Tickets \subseteq Tickets'
           /\ \A u \in Tickets : RowChanges(ticket[u], ticket'[u])
           /\ \A u \in Tickets' \ Tickets : StampsFit(ticket'[u])
  <1> DEFINE Goal == /\ Tickets \subseteq Tickets'
                     /\ \A u \in Tickets : RowChanges(ticket[u], ticket'[u])
                     /\ \A u \in Tickets' \ Tickets : StampsFit(ticket'[u])
  <1>1. ASSUME NEW t \in Tickets PROVE ticket[t] \in TicketRow
    BY DEF TypeOK, Tickets
  <1>2. ASSUME NEW t \in Tickets, NEW row, ticket' = [ticket EXCEPT ![t] = row],
               RowChanges(ticket[t], row)
        PROVE  Goal
    BY <1>2 DEF Tickets, RowChanges
  <1>3. ASSUME NEW a \in User, NEW type \in RequestedType, NEW title \in Title,
               NEW p \in {0} \cup Tickets, NEW w \in {NoUser} \cup Assignable,
               CreateTicket(a, type, title, p, w)
        PROVE  Goal
    <2> DEFINE row == NewTicket(type, title, p, w)
    <2>1. StampsFit(row)
      BY DEF NewTicket, StampsFit
    <2>2. ticket' = [u \in 1..nextNumber |-> IF u = nextNumber THEN row ELSE ticket[u]]
      BY <1>3 DEF CreateTicket
    <2> HIDE DEF row
    <2>3. Tickets' = Tickets \cup {nextNumber} /\ nextNumber \notin Tickets
      BY <2>2 DEF Tickets, TypeOK
    <2>4. ticket'[nextNumber] = row /\ \A u \in Tickets : ticket'[u] = ticket[u]
      BY <2>2, <2>3 DEF Tickets, TypeOK
    <2> QED BY <2>1, <2>3, <2>4 DEF RowChanges
  <1>4. ASSUME NEW a \in User, NEW t \in Tickets, NEW title \in Title,
               NEW p \in {0} \cup Tickets,
               NEW w \in {NoUser, ticket[t].assignee} \cup Assignable,
               UpdateTicket(a, t, ticket[t].version, title, p, w)
        PROVE  Goal
    <2>1. p \in Nat
      BY DEF TypeOK, Tickets
    <2>2. w \in User \cup {NoUser}
      BY <1>1, InputAssumption DEF TicketRow
    <2>3. SameStamps(ticket[t], Edited(ticket[t], title, p, w))
      BY <1>1, <2>1, <2>2, EditedSameStamps
    <2>4. ticket' = [ticket EXCEPT ![t] = Edited(ticket[t], title, p, w)]
      BY <1>4 DEF UpdateTicket
    <2> QED BY <1>2, <2>3, <2>4 DEF RowChanges
  <1>5. ASSUME NEW a \in User, NEW t \in Tickets, NEW target \in RequestedStatus,
               NEW confirm \in BOOLEAN,
               TransitionTicket(a, t, ticket[t].version, target, confirm)
        PROVE  Goal
    <2>1. target \in AllowedTransitions[ticket[t].status] \cap Status
      BY <1>5, InputAssumption DEF TransitionTicket
    <2>2. ticket' = [ticket EXCEPT ![t] = Moved(ticket[t], target)]
      BY <1>5 DEF TransitionTicket
    <2>3. RowChanges(ticket[t], Moved(ticket[t], target))
      BY <2>1 DEF RowChanges
    <2> QED BY <1>2, <2>2, <2>3
  <1>6. ASSUME NEW a \in User, NEW t \in Tickets, AttachFile(a, t, ticket[t].version)
        PROVE  Goal
    <2>1. ticket' = [ticket EXCEPT ![t] = Bump(ticket[t])]
      BY <1>6 DEF AttachFile
    <2> QED BY <1>1, <1>2, <2>1, BumpSameStamps DEF RowChanges
  <1>7. ASSUME RelationStep PROVE Goal
    BY <1>1, <1>7, RelationEffect, BumpSameStamps DEF RowChanges
  <1>8. ASSUME NEW S, NEW b \in Nat,
               ticket' = [u \in Tickets |-> IF u \in S THEN Trashed(ticket[u], b) ELSE ticket[u]]
        PROVE  Goal
    <2>1. Tickets' = Tickets
      BY <1>8 DEF Tickets
    <2> QED BY <1>1, <1>8, <2>1, TrashedSameStamps DEF RowChanges
  <1>9. ASSUME NEW a \in User, NEW t \in Tickets, MoveToTrash(a, t, ticket[t].version)
        PROVE  Goal
    <2>1. Len(batches) + 1 \in Nat
      BY DEF TypeOK
    <2>2. ticket' = [u \in Tickets |-> IF u \in Hierarchy(t)
                       THEN Trashed(ticket[u], Len(batches) + 1) ELSE ticket[u]]
      BY <1>9 DEF MoveToTrash
    <2> QED BY <1>8, <2>1, <2>2
  <1>10. ASSUME NEW a \in User, NEW b \in DOMAIN batches,
                RestoreBatch(a, b, ticket[batches[b].root].version)
         PROVE  Goal
    <2>1. ticket' = [u \in Tickets |-> IF u \in Returned(b)
                       THEN Trashed(ticket[u], 0) ELSE ticket[u]]
      BY <1>10 DEF RestoreBatch
    <2> QED BY <1>8, <2>1
  <1>11. ASSUME UNCHANGED ticket PROVE Goal
    BY <1>11 DEF Tickets, RowChanges
  <1>12. RetentionPasses \/ ProjectStep \/ UNCHANGED vars => UNCHANGED ticket
    BY ProjectFrame DEF RetentionPasses, ticketVars, vars
  <1> QED
    <2> HIDE DEF Goal
    <2>1. TicketStep => Goal
      BY <1>3, <1>4, <1>5, <1>6 DEF TicketStep
    <2>2. TrashStep => Goal
      BY <1>9, <1>10, <1>11, <1>12 DEF TrashStep
    <2>3. Goal
      BY <1>7, <1>11, <1>12, <2>1, <2>2 DEF Next
    <2> QED BY <2>3 DEF Goal

LEMMA FitInductive ==
    ASSUME TypeOK, AllFit, [Next]_vars
    PROVE  AllFit'
  <1>1. ASSUME NEW u \in Tickets PROVE StampsFit(ticket'[u])
    <2>1. ticket[u] \in TicketRow /\ StampsFit(ticket[u])
      BY DEF TypeOK, Tickets, AllFit
    <2>2. RowChanges(ticket[u], ticket'[u])
      BY StepChangesRows
    <2> QED BY <2>1, <2>2, SameStampsFit, MovedFits DEF RowChanges
  <1>2. \A u \in Tickets' : StampsFit(ticket'[u])
    BY <1>1, StepChangesRows
  <1> QED BY <1>2 DEF AllFit, StampsFit

\* However often a ticket is finished, cancelled and reopened, and whatever is
\* edited, linked or trashed in between, its three timestamps say what its
\* status says, and the end is after the start.
THEOREM StampsAlwaysMatch == Spec => []StampsMatchStatus
  <1>1. Init => AllFit
    BY DEF Init, AllFit, Tickets
  <1>2. AllFit => StampsMatchStatus
    BY DEF AllFit, StampsFit, StampsMatchStatus
  <1>3. TypeOK /\ AllFit /\ [Next]_vars => AllFit'
    BY FitInductive
  <1> QED BY <1>1, <1>2, <1>3, TypesCorrect, PTL DEF Spec

\* The moment at which work first began is never written again.
THEOREM StartNeverMoves == Spec => StartedOnce
  <1>1. TypeOK /\ [Next]_vars => [KeepsStart]_vars
    <2> SUFFICES ASSUME TypeOK, [Next]_vars, NEW t \in Tickets, ticket[t].started # 0
                 PROVE  ticket'[t].started = ticket[t].started
      BY DEF KeepsStart
    <2>1. ticket[t] \in TicketRow
      BY DEF TypeOK, Tickets
    <2>2. RowChanges(ticket[t], ticket'[t])
      BY StepChangesRows
    <2> QED BY <2>1, <2>2, MovedRow DEF RowChanges, SameStamps
  <1> QED BY <1>1, TypesCorrect, PTL DEF Spec, StartedOnce

-----------------------------------------------------------------------------
(* Relations *)

\* Relations are stored in normal form whichever end asks, and no step takes
\* away a ticket that one names.
THEOREM RelationsStayWellFormed == Spec => []RelationsWellFormed
  <1>1. Init => RelationsWellFormed
    BY DEF Init, RelationsWellFormed
  <1>2. TypeOK /\ RelationsWellFormed /\ [Next]_vars => RelationsWellFormed'
    <2> SUFFICES ASSUME TypeOK, RelationsWellFormed, [Next]_vars
                 PROVE  RelationsWellFormed'
      OBVIOUS
    <2>1. Tickets \subseteq Tickets'
      BY StepChangesRows
    <2>2. ASSUME relations' \subseteq relations PROVE RelationsWellFormed'
      BY <2>1, <2>2 DEF RelationsWellFormed
    <2>3. ASSUME NEW a \in User, NEW t \in Tickets, NEW o \in Tickets,
                 NEW kind \in RequestedLink,
                 CreateRelation(a, t, ticket[t].version, o, kind)
          PROVE  RelationsWellFormed'
      <3> DEFINE r == RelationRequested(t, o, kind)
      <3>1. relations' = relations \cup {r} /\ o # t
        BY <2>3 DEF CreateRelation
      <3>2. t \in Nat /\ o \in Nat
        BY DEF TypeOK, Tickets
      <3>3. /\ r.source \in Tickets /\ r.target \in Tickets /\ r.source # r.target
            /\ r.kind = "RELATED" => r.source < r.target
        BY <3>1, <3>2 DEF RelationRequested
      <3> HIDE DEF r
      <3> QED BY <2>1, <3>1, <3>3 DEF RelationsWellFormed
    <2>4. ASSUME NEW a \in User, NEW t \in Tickets, NEW r \in relations,
                 DeleteRelation(a, t, ticket[t].version, r)
          PROVE  RelationsWellFormed'
      BY <2>2, <2>4 DEF DeleteRelation
    <2>5. RelationStep => RelationsWellFormed'
      BY <2>3, <2>4 DEF RelationStep
    <2>6. TicketStep => relations' = relations
      <3>1. ASSUME NEW a \in User, NEW type \in RequestedType, NEW title \in Title,
                   NEW p \in {0} \cup Tickets, NEW w \in {NoUser} \cup Assignable,
                   CreateTicket(a, type, title, p, w)
            PROVE  relations' = relations
        BY <3>1 DEF CreateTicket
      <3>2. ASSUME NEW a \in User, NEW t \in Tickets, NEW title \in Title,
                   NEW p \in {0} \cup Tickets,
                   NEW w \in {NoUser, ticket[t].assignee} \cup Assignable,
                   UpdateTicket(a, t, ticket[t].version, title, p, w)
            PROVE  relations' = relations
        BY <3>2 DEF UpdateTicket
      <3>3. ASSUME NEW a \in User, NEW t \in Tickets, NEW target \in RequestedStatus,
                   NEW confirm \in BOOLEAN,
                   TransitionTicket(a, t, ticket[t].version, target, confirm)
            PROVE  relations' = relations
        BY <3>3 DEF TransitionTicket
      <3>4. ASSUME NEW a \in User, NEW t \in Tickets, AttachFile(a, t, ticket[t].version)
            PROVE  relations' = relations
        BY <3>4 DEF AttachFile
      <3> QED BY <3>1, <3>2, <3>3, <3>4 DEF TicketStep
    <2>7. TrashStep => relations' = relations
      BY DEF TrashStep, MoveToTrash, RestoreBatch, RetentionPasses, ticketVars
    <2>8. ProjectStep \/ UNCHANGED vars => relations' = relations
      BY ProjectFrame DEF ticketVars, vars
    <2> QED BY <2>2, <2>5, <2>6, <2>7, <2>8 DEF Next
  <1> QED BY <1>1, <1>2, TypesCorrect, PTL DEF Spec

-----------------------------------------------------------------------------
(* The trash *)

\* Outside TrashStep nothing enters, leaves or changes in the trash.
TrashUntouched ==
    /\ batches' = batches
    /\ Tickets \subseteq Tickets'
    /\ \A u \in Tickets :
          /\ ticket'[u].batch = ticket[u].batch
          /\ ~Active(u) => /\ ticket'[u] = ticket[u]
                           /\ RelationsOf(u)' = RelationsOf(u)
    /\ \A u \in Tickets' \ Tickets : ticket'[u].batch = 0

\* A step that writes the row of one active ticket leaves the trash alone.
LEMMA OneActiveRow ==
    ASSUME TypeOK, NEW t \in Tickets, Active(t), NEW row, row.batch = ticket[t].batch,
           ticket' = [ticket EXCEPT ![t] = row],
           batches' = batches, relations' = relations
    PROVE  TrashUntouched
  BY DEF TrashUntouched, Active, Tickets, RelationsOf

LEMMA TicketLeavesTrash ==
    ASSUME TypeOK, TicketStep
    PROVE  TrashUntouched
  <1>1. ASSUME NEW t \in Tickets PROVE ticket[t] \in TicketRow
    BY DEF TypeOK, Tickets
  <1>2. ASSUME NEW a \in User, NEW type \in RequestedType, NEW title \in Title,
               NEW p \in {0} \cup Tickets, NEW w \in {NoUser} \cup Assignable,
               CreateTicket(a, type, title, p, w)
        PROVE  TrashUntouched
    <2> DEFINE row == NewTicket(type, title, p, w)
    <2>1. row.batch = 0
      BY DEF NewTicket
    <2>2. /\ ticket' = [u \in 1..nextNumber |-> IF u = nextNumber THEN row ELSE ticket[u]]
          /\ relations' = relations /\ batches' = batches
      BY <1>2 DEF CreateTicket
    <2> HIDE DEF row
    <2>3. Tickets' = Tickets \cup {nextNumber} /\ nextNumber \notin Tickets
      BY <2>2 DEF Tickets, TypeOK
    <2>4. ticket'[nextNumber] = row /\ \A u \in Tickets : ticket'[u] = ticket[u]
      BY <2>2, <2>3 DEF Tickets, TypeOK
    <2> QED BY <2>1, <2>2, <2>3, <2>4 DEF TrashUntouched, RelationsOf
  <1>3. ASSUME NEW a \in User, NEW t \in Tickets, NEW title \in Title,
               NEW p \in {0} \cup Tickets,
               NEW w \in {NoUser, ticket[t].assignee} \cup Assignable,
               UpdateTicket(a, t, ticket[t].version, title, p, w)
        PROVE  TrashUntouched
    <2>1. p \in Nat
      BY DEF TypeOK, Tickets
    <2>2. w \in User \cup {NoUser}
      BY <1>1, InputAssumption DEF TicketRow
    <2>3. Edited(ticket[t], title, p, w).batch = ticket[t].batch
      BY <1>1, <2>1, <2>2, EditedRow
    <2>4. /\ ticket' = [ticket EXCEPT ![t] = Edited(ticket[t], title, p, w)]
          /\ Active(t) /\ batches' = batches /\ relations' = relations
      BY <1>3 DEF UpdateTicket, TicketRequest
    <2> QED BY <2>3, <2>4, OneActiveRow
  <1>4. ASSUME NEW a \in User, NEW t \in Tickets, NEW target \in RequestedStatus,
               NEW confirm \in BOOLEAN,
               TransitionTicket(a, t, ticket[t].version, target, confirm)
        PROVE  TrashUntouched
    <2>1. Moved(ticket[t], target).batch = ticket[t].batch
      BY <1>1, MovedRow, InputAssumption
    <2>2. /\ ticket' = [ticket EXCEPT ![t] = Moved(ticket[t], target)]
          /\ Active(t) /\ batches' = batches /\ relations' = relations
      BY <1>4 DEF TransitionTicket, TicketRequest
    <2> QED BY <2>1, <2>2, OneActiveRow
  <1>5. ASSUME NEW a \in User, NEW t \in Tickets, AttachFile(a, t, ticket[t].version)
        PROVE  TrashUntouched
    <2>1. Bump(ticket[t]).batch = ticket[t].batch
      BY <1>1 DEF Bump, TicketRow
    <2>2. /\ ticket' = [ticket EXCEPT ![t] = Bump(ticket[t])]
          /\ Active(t) /\ batches' = batches /\ relations' = relations
      BY <1>5 DEF AttachFile, TicketRequest
    <2> QED BY <2>1, <2>2, OneActiveRow
  <1> QED BY <1>2, <1>3, <1>4, <1>5 DEF TicketStep

\* Both ends of a relation are outside the trash when it is made or removed.
LEMMA RelationLeavesTrash ==
    ASSUME TypeOK, RelationStep
    PROVE  TrashUntouched
  <1>1. ASSUME NEW u \in Tickets PROVE Bump(ticket[u]).batch = ticket[u].batch
    BY DEF TypeOK, Tickets, Bump, TicketRow
  <1>2. ASSUME NEW t, NEW o, NEW r, TouchBothEnds(t, o), Active(t), Active(o),
               relations' = relations \cup {r} \/ relations' = relations \ {r},
               {r.source, r.target} \subseteq {t, o}, batches' = batches
        PROVE  TrashUntouched
    <2>1. ticket' = [u \in Tickets |-> IF u \in {t, o} THEN Bump(ticket[u]) ELSE ticket[u]]
      BY <1>2 DEF TouchBothEnds
    <2>2. Tickets' = Tickets
      BY <2>1 DEF Tickets
    <2>3. ASSUME NEW u \in Tickets PROVE ticket'[u].batch = ticket[u].batch
      BY <1>1, <2>1
    <2>4. ASSUME NEW u \in Tickets, ~Active(u)
          PROVE  ticket'[u] = ticket[u] /\ RelationsOf(u)' = RelationsOf(u)
      <3>1. u \notin {t, o}
        BY <1>2, <2>4
      <3> QED BY <1>2, <2>1, <3>1 DEF RelationsOf
    <2> QED BY <1>2, <2>2, <2>3, <2>4 DEF TrashUntouched
  <1>3. ASSUME NEW a \in User, NEW t \in Tickets, NEW o \in Tickets,
               NEW kind \in RequestedLink,
               CreateRelation(a, t, ticket[t].version, o, kind)
        PROVE  TrashUntouched
    <2> DEFINE r == RelationRequested(t, o, kind)
    <2>1. {r.source, r.target} \subseteq {t, o}
      BY DEF RelationRequested
    <2>2. /\ relations' = relations \cup {r} /\ TouchBothEnds(t, o) /\ batches' = batches
          /\ Active(t) /\ Active(o)
      BY <1>3 DEF CreateRelation, TicketRequest, OtherEndVisible
    <2> HIDE DEF r
    <2> QED BY <1>2, <2>1, <2>2
  <1>4. ASSUME NEW a \in User, NEW t \in Tickets, NEW r \in relations,
               DeleteRelation(a, t, ticket[t].version, r)
        PROVE  TrashUntouched
    <2> DEFINE o == IF r.source = t THEN r.target ELSE r.source
    <2>1. {r.source, r.target} \subseteq {t, o}
      BY <1>4 DEF DeleteRelation, RelationsOf
    <2>2. /\ relations' = relations \ {r} /\ TouchBothEnds(t, o) /\ batches' = batches
          /\ Active(t) /\ Active(o)
      BY <1>4 DEF DeleteRelation, TicketRequest, OtherEndVisible
    <2> HIDE DEF o
    <2> QED BY <1>2, <2>1, <2>2
  <1> QED BY <1>3, <1>4 DEF RelationStep

LEMMA OthersLeaveTrash ==
    ASSUME RetentionPasses \/ ProjectStep \/ UNCHANGED vars
    PROVE  TrashUntouched
  <1>1. UNCHANGED ticketVars
    BY ProjectFrame DEF RetentionPasses, vars, ticketVars
  <1> QED BY <1>1 DEF ticketVars, TrashUntouched, Tickets, RelationsOf

\* Moving tickets into a batch or out of it changes nothing else of them.
LEMMA BatchMoves ==
    ASSUME TypeOK, NEW S \in SUBSET Tickets, NEW b \in Nat,
           ticket' = [u \in Tickets |-> IF u \in S THEN Trashed(ticket[u], b) ELSE ticket[u]]
    PROVE  /\ Tickets' = Tickets
           /\ \A u \in Tickets :
                 /\ ticket'[u].title = ticket[u].title
                 /\ ticket'[u].parent = ticket[u].parent
                 /\ ticket'[u].assignee = ticket[u].assignee
                 /\ ticket'[u].status = ticket[u].status
                 /\ ticket'[u].batch = IF u \in S THEN b ELSE ticket[u].batch
  <1>1. Tickets' = Tickets
    BY DEF Tickets
  <1>2. ASSUME NEW u \in Tickets
        PROVE  /\ ticket'[u].title = ticket[u].title
               /\ ticket'[u].parent = ticket[u].parent
               /\ ticket'[u].assignee = ticket[u].assignee
               /\ ticket'[u].status = ticket[u].status
               /\ ticket'[u].batch = IF u \in S THEN b ELSE ticket[u].batch
    <2>1. ticket[u] \in TicketRow
      BY DEF TypeOK, Tickets
    <2> QED BY <2>1, TrashedTyped
  <1> QED BY <1>1, <1>2

-----------------------------------------------------------------------------
\* What BatchesAreUnits says of one ticket.
InUnit(t) ==
    LET b == ticket[t].batch
        p == ticket[t].parent
    IN  b # 0 =>
          /\ b \in DOMAIN batches /\ ~batches[b].restored
          /\ batches[b].root \in InBatch(b)
          /\ t # batches[b].root => p # 0 /\ ticket[p].batch = b
          /\ p # 0 /\ ~Active(p) => ticket[p].batch >= b

LEMMA UnitsEach == BatchesAreUnits <=> \A t \in Tickets : InUnit(t)
  BY DEF BatchesAreUnits, InUnit

\* The parent of a ticket is none or a ticket, and no ticket has number 0.
LEMMA ParentIsTicket ==
    ASSUME TypeOK, ParentsInPlace, NEW t \in Tickets
    PROVE  /\ t # 0
           /\ ticket[t].parent # 0 => ticket[t].parent \in Tickets
  BY DEF ParentsInPlace, Tickets, TypeOK

LEMMA UntouchedKeepsUnits ==
    ASSUME TypeOK, ParentsInPlace, BatchesAreUnits, TrashUntouched
    PROVE  BatchesAreUnits'
  <1>1. ASSUME NEW u \in Tickets, ticket'[u].batch # 0
        PROVE  InUnit(u)'
    <2> DEFINE b == ticket[u].batch
               p == ticket[u].parent
    <2>1. /\ ticket'[u] = ticket[u] /\ b # 0 /\ batches' = batches
          /\ \A v \in Tickets : v \in Tickets' /\ ticket'[v].batch = ticket[v].batch
      BY <1>1 DEF TrashUntouched, Active
    <2>2. InUnit(u)
      BY UnitsEach
    <2>3. p # 0 => p \in Tickets
      BY ParentIsTicket
    <2>4. /\ b \in DOMAIN batches /\ ~batches[b].restored
          /\ batches[b].root \in Tickets /\ ticket[batches[b].root].batch = b
          /\ u # batches[b].root => p # 0 /\ ticket[p].batch = b
          /\ p # 0 /\ ticket[p].batch # 0 => ticket[p].batch >= b
      BY <2>1, <2>2 DEF InUnit, InBatch, Active
    <2>5. batches[b].root \in InBatch(b)'
      BY <2>1, <2>4 DEF InBatch
    <2>6. p # 0 => ticket'[p].batch = ticket[p].batch
      BY <2>1, <2>3
    <2> QED BY <2>1, <2>4, <2>5, <2>6 DEF InUnit, Active
  <1>2. ASSUME NEW u \in Tickets' PROVE InUnit(u)'
    BY <1>1 DEF TrashUntouched, InUnit
  <1> QED BY <1>2, UnitsEach DEF InUnit, BatchesAreUnits

\* A ticket taken along with a root is taken with its parent.
LEMMA HierarchyWithParents ==
    ASSUME TypeOK, ParentsInPlace, NEW t \in Tickets, Active(t),
           NEW u \in Hierarchy(t), u # t
    PROVE  ticket[u].parent # 0 /\ ticket[u].parent \in Hierarchy(t)
  <1> DEFINE p == ticket[u].parent
  <1>1. t # 0 /\ t \in Hierarchy(t)
    BY ParentIsTicket DEF Hierarchy
  <1>2. CASE p = t
    BY <1>1, <1>2
  <1>3. CASE p # t
    <2>1. /\ ticket[t].type = "EPIC" /\ p \in Tickets
          /\ ticket[p].parent = t /\ Active(p)
      BY <1>3 DEF Hierarchy
    <2>2. p # 0
      BY <2>1, ParentIsTicket
    <2> QED BY <2>1, <2>2 DEF Hierarchy
  <1> QED BY <1>2, <1>3

LEMMA MoveKeepsUnits ==
    ASSUME TypeOK, ParentsInPlace, BatchesAreUnits,
           NEW a \in User, NEW t \in Tickets, MoveToTrash(a, t, ticket[t].version)
    PROVE  BatchesAreUnits'
  <1> DEFINE n == Len(batches) + 1
             S == Hierarchy(t)
  <1>1. /\ n \in Nat /\ n # 0 /\ n \notin DOMAIN batches
        /\ DOMAIN batches = 1..(n - 1)
    BY DEF TypeOK
  <1>2. S \in SUBSET Tickets /\ \A u \in S : Active(u)
    BY DEF Hierarchy
  <1>3. Active(t) /\ t \in S
    BY DEF MoveToTrash, TicketRequest, Hierarchy
  <1>4. batches' = Append(batches, [root |-> t, restored |-> FALSE])
    BY DEF MoveToTrash
  <1>5. /\ DOMAIN batches' = 1..n
        /\ batches'[n].root = t /\ ~batches'[n].restored
        /\ \A b \in DOMAIN batches : batches'[b] = batches[b]
    BY <1>4 DEF TypeOK
  <1>6. /\ Tickets' = Tickets
        /\ \A u \in Tickets :
              /\ ticket'[u].parent = ticket[u].parent
              /\ ticket'[u].batch = IF u \in S THEN n ELSE ticket[u].batch
    <2>1. ticket' = [u \in Tickets |-> IF u \in S THEN Trashed(ticket[u], n) ELSE ticket[u]]
      BY DEF MoveToTrash
    <2> HIDE DEF S, n
    <2> QED BY <1>1, <1>2, <2>1, BatchMoves
  <1>7. \A u \in S : u # t => ticket[u].parent # 0 /\ ticket[u].parent \in S
    BY <1>3, HierarchyWithParents
  <1> HIDE DEF S, n
  <1>8. ASSUME NEW u \in S PROVE InUnit(u)'
    <2> DEFINE p == ticket[u].parent
    <2>1. u \in Tickets /\ Active(u)
      BY <1>2
    <2>2. t \in Tickets' /\ ticket'[t].batch = n
      BY <1>2, <1>3, <1>6
    <2>3. p # 0 => p \in Tickets /\ Active(p)
      BY <2>1 DEF ParentsInPlace
    <2>4. p # 0 => ticket'[p].batch \in {0, n}
      BY <1>6, <2>3 DEF Active
    <2>5. u # t => p # 0 /\ ticket'[p].batch = n
      BY <1>2, <1>6, <1>7
    <2>6. /\ ticket'[u].batch = n /\ ticket'[u].parent = p
          /\ n \in DOMAIN batches' /\ batches'[n].root = t /\ ~batches'[n].restored
      BY <1>1, <1>5, <1>6, <2>1
    <2> QED BY <1>1, <2>2, <2>4, <2>5, <2>6 DEF InUnit, InBatch, Active
  <1>9. ASSUME NEW u \in Tickets \ S, ticket[u].batch # 0 PROVE InUnit(u)'
    <2> DEFINE b == ticket[u].batch
               p == ticket[u].parent
               root == batches[b].root
    <2>1. /\ b \in DOMAIN batches /\ ~batches[b].restored
          /\ root \in Tickets /\ ticket[root].batch = b
          /\ u # root => p # 0 /\ ticket[p].batch = b
          /\ p # 0 /\ ticket[p].batch # 0 => ticket[p].batch >= b
      BY <1>9, UnitsEach DEF InUnit, InBatch, Active
    <2>2. p # 0 => p \in Tickets
      BY ParentIsTicket
    <2>3. root \in InBatch(b)'
      BY <1>2, <1>6, <1>9, <2>1 DEF InBatch, Active
    <2>4. u # root => ticket'[p].batch = b
      BY <1>2, <1>6, <1>9, <2>1, <2>2 DEF Active
    <2>5. p # 0 => \/ ticket'[p].batch = ticket[p].batch
                   \/ ticket'[p].batch = n
      BY <1>6, <2>2
    <2>6. b <= n /\ b \in Nat
      BY <1>1, <2>1
    <2>7. p # 0 /\ ticket'[p].batch # 0 => ticket'[p].batch >= b
      BY <1>1, <2>1, <2>5, <2>6
    <2>8. /\ ticket'[u].batch = b /\ ticket'[u].parent = p
          /\ b \in DOMAIN batches' /\ batches'[b] = batches[b]
      BY <1>1, <1>5, <1>6, <2>1
    <2> QED BY <2>1, <2>3, <2>4, <2>7, <2>8 DEF InUnit, Active
  <1>10. ASSUME NEW u \in Tickets' PROVE InUnit(u)'
    BY <1>6, <1>8, <1>9 DEF InUnit
  <1> QED BY <1>10, UnitsEach DEF InUnit, BatchesAreUnits

LEMMA RestoreKeepsUnits ==
    ASSUME TypeOK, ParentsInPlace, BatchesAreUnits,
           NEW a \in User, NEW c \in DOMAIN batches,
           RestoreBatch(a, c, ticket[batches[c].root].version)
    PROVE  BatchesAreUnits'
  <1>1. batches' = [batches EXCEPT ![c].restored = TRUE]
    BY DEF RestoreBatch
  <1>2. /\ DOMAIN batches' = DOMAIN batches
        /\ \A b \in DOMAIN batches \ {c} : batches'[b] = batches[b]
    BY <1>1 DEF TypeOK
  <1>3. /\ Tickets' = Tickets
        /\ \A u \in Tickets :
              /\ ticket'[u].parent = ticket[u].parent
              /\ ticket'[u].batch = IF ticket[u].batch = c THEN 0 ELSE ticket[u].batch
    <2>1. ticket' = [u \in Tickets |-> IF u \in Returned(c)
                       THEN Trashed(ticket[u], 0) ELSE ticket[u]]
      BY DEF RestoreBatch
    <2>2. Returned(c) \in SUBSET Tickets
          /\ \A u \in Tickets : u \in Returned(c) <=> ticket[u].batch = c
      BY DEF Returned, InBatch
    <2> QED BY <2>1, <2>2, BatchMoves
  <1>4. ASSUME NEW u \in Tickets, ticket[u].batch # 0, ticket[u].batch # c PROVE InUnit(u)'
    <2> DEFINE b == ticket[u].batch
               p == ticket[u].parent
               root == batches[b].root
    <2>1. /\ b \in DOMAIN batches /\ ~batches[b].restored
          /\ root \in Tickets /\ ticket[root].batch = b
          /\ u # root => p # 0 /\ ticket[p].batch = b
          /\ p # 0 /\ ticket[p].batch # 0 => ticket[p].batch >= b
      BY <1>4, UnitsEach DEF InUnit, InBatch, Active
    <2>2. p # 0 => p \in Tickets
      BY ParentIsTicket
    <2>3. root \in InBatch(b)'
      BY <1>3, <1>4, <2>1 DEF InBatch
    <2>4. p # 0 => \/ ticket'[p].batch = 0 /\ ticket[p].batch = c
                   \/ ticket'[p].batch = ticket[p].batch
      BY <1>3, <2>2
    <2>5. /\ ticket'[u].batch = b /\ ticket'[u].parent = p
          /\ b \in DOMAIN batches' /\ batches'[b] = batches[b]
      BY <1>2, <1>3, <1>4, <2>1
    <2> QED BY <1>4, <2>1, <2>3, <2>4, <2>5 DEF InUnit, Active
  <1>5. ASSUME NEW u \in Tickets' PROVE InUnit(u)'
    BY <1>3, <1>4 DEF InUnit
  <1> QED BY <1>5, UnitsEach DEF InUnit, BatchesAreUnits

\* Whatever is trashed, in however many overlapping batches, and restored or
\* left to expire in any order: each ticket in the trash belongs to a batch
\* that can still be restored as a whole, from its root down.
THEOREM BatchesStayUnits == Spec => []BatchesAreUnits
  <1>1. Init => BatchesAreUnits
    BY DEF Init, BatchesAreUnits, Tickets
  <1>2. TypeOK /\ ParentsInPlace /\ BatchesAreUnits /\ [Next]_vars => BatchesAreUnits'
    <2> SUFFICES ASSUME TypeOK, ParentsInPlace, BatchesAreUnits, [Next]_vars
                 PROVE  BatchesAreUnits'
      OBVIOUS
    <2>1. CASE TrashStep
      BY <2>1, MoveKeepsUnits, RestoreKeepsUnits, OthersLeaveTrash, UntouchedKeepsUnits
         DEF TrashStep
    <2>2. CASE TicketStep \/ RelationStep \/ ProjectStep \/ UNCHANGED vars
      BY <2>2, TicketLeavesTrash, RelationLeavesTrash, OthersLeaveTrash, UntouchedKeepsUnits
    <2> QED BY <2>1, <2>2 DEF Next
  <1> QED BY <1>1, <1>2, TypesCorrect, ParentsStayInPlace, PTL DEF Spec

\* A ticket in the trash is out of everybody's reach, also through its
\* relations, until its batch comes back, all of it.
THEOREM TrashKeepsItsTickets == Spec => TrashKeepsTickets
  <1>1. TypeOK /\ [Next]_vars => [KeepsTrashed]_vars
    <2> SUFFICES ASSUME TypeOK, [Next]_vars, NEW f \in Tickets, ticket[f].batch # 0
                 PROVE  /\ Content(f)' = Content(f) /\ ticket'[f].status = ticket[f].status
                        /\ \/ ticket'[f].batch = ticket[f].batch
                           \/ \A u \in InBatch(ticket[f].batch) : ticket'[u].batch = 0
      BY DEF KeepsTrashed
    <2> DEFINE Kept == /\ Content(f)' = Content(f) /\ ticket'[f].status = ticket[f].status
                       /\ \/ ticket'[f].batch = ticket[f].batch
                          \/ \A u \in InBatch(ticket[f].batch) : ticket'[u].batch = 0
    <2>1. TrashUntouched => Kept
      BY DEF TrashUntouched, Content, Active
    <2>2. ASSUME NEW a \in User, NEW t \in Tickets, MoveToTrash(a, t, ticket[t].version)
          PROVE  Kept
      <3> DEFINE n == Len(batches) + 1
      <3>1. n \in Nat /\ Hierarchy(t) \in SUBSET Tickets /\ f \notin Hierarchy(t)
        BY DEF TypeOK, Hierarchy, Active
      <3>2. /\ ticket' = [u \in Tickets |-> IF u \in Hierarchy(t)
                            THEN Trashed(ticket[u], n) ELSE ticket[u]]
            /\ relations' = relations
        BY <2>2 DEF MoveToTrash
      <3> QED BY <3>1, <3>2 DEF Content, RelationsOf
    <2>3. ASSUME NEW a \in User, NEW b \in DOMAIN batches,
                 RestoreBatch(a, b, ticket[batches[b].root].version)
          PROVE  Kept
      <3>1. /\ ticket' = [u \in Tickets |-> IF u \in InBatch(b)
                            THEN Trashed(ticket[u], 0) ELSE ticket[u]]
            /\ relations' = relations
        BY <2>3 DEF RestoreBatch, Returned
      <3>2. InBatch(b) \in SUBSET Tickets
        BY DEF InBatch
      <3>3. \A u \in Tickets :
               /\ ticket'[u].title = ticket[u].title
               /\ ticket'[u].parent = ticket[u].parent
               /\ ticket'[u].assignee = ticket[u].assignee
               /\ ticket'[u].status = ticket[u].status
               /\ ticket'[u].batch = IF u \in InBatch(b) THEN 0 ELSE ticket[u].batch
        BY <3>1, <3>2, BatchMoves
      <3>4. Content(f)' = Content(f) /\ ticket'[f].status = ticket[f].status
        BY <3>1, <3>3 DEF Content, RelationsOf
      <3>5. CASE ticket[f].batch = b
        BY <3>2, <3>3, <3>4, <3>5
      <3>6. CASE ticket[f].batch # b
        BY <3>3, <3>4, <3>6 DEF InBatch
      <3> QED BY <3>5, <3>6
    <2> HIDE DEF Kept
    <2>4. ASSUME TrashStep PROVE Kept
      BY <2>1, <2>2, <2>3, <2>4, OthersLeaveTrash DEF TrashStep
    <2>5. ASSUME TicketStep \/ RelationStep \/ ProjectStep \/ UNCHANGED vars PROVE Kept
      BY <2>1, <2>5, TicketLeavesTrash, RelationLeavesTrash, OthersLeaveTrash
    <2>6. Kept
      BY <2>4, <2>5 DEF Next
    <2> QED BY <2>6 DEF Kept
  <1> QED BY <1>1, TypesCorrect, PTL DEF Spec, TrashKeepsTickets
=============================================================================

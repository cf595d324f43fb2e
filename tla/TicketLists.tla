---------------------------- MODULE TicketLists ----------------------------
(***************************************************************************)
(* What users are shown of a project's tickets: the list in pages, the     *)
(* board, the list of all projects and the counts of the dashboard         *)
(* (app/services/tickets.py, dashboard.py and their repositories).         *)
(*                                                                         *)
(* No lock is taken and no transaction is open between the statements of a *)
(* request: each reads what is committed by then.  A request looks up the  *)
(* project, checks the references of its filter, turns rules into dates,   *)
(* and reads the rows; tickets, members and the clock go on meanwhile.     *)
(***************************************************************************)
EXTENDS TicketFilters

CONSTANTS
    Reader, OtherUser,
    Definition,         \* a sequence of filters: [expression, sort_by, sort_direction]
    FirstRows,          \* tables to start from: id -> row
    Clock,              \* instants
    PageSize,
    MaxChanges          \* bound: changes of tickets and members, and of the time

User == {Reader, OtherUser}
Status == {"TODO", "IN_PROGRESS", "ON_HOLD", "DONE", "CANCELLED"}
OpenStatus == {"TODO", "IN_PROGRESS", "ON_HOLD"}     \* dashboard.py OPEN_STATUSES
Access == {"member", "override", "none"}

Weight == [TRIVIAL |-> 1, MINOR |-> 2, MAJOR |-> 3, CRITICAL |-> 4, BLOCKER |-> 5]

SortField == {"created_date", "updated_date", "due_date", "priority", "number"}

Row ==
    [type : {"EPIC", "TASK", "SUBTASK"}, status : Status, priority : DOMAIN Weight,
     parent : Nat \cup {None}, creator : User, assignee : User \cup {None},
     created_date : Int, updated_date : Int, due_date : Int \cup {None},
     words : SUBSET STRING, deleted : BOOLEAN]

\* A parent is of the level above and a ticket in use has one that is in use
\* (ParentsInPlace of WorkSystem); only tasks and epics may be without.
InPlace(table) ==
    \A t \in DOMAIN table :
        LET p == table[t].parent IN
        IF p = None THEN table[t].type # "SUBTASK"
        ELSE /\ p \in DOMAIN table
             /\ <<table[t].type, table[p].type>> \in {<<"TASK", "EPIC">>, <<"SUBTASK", "TASK">>}
             /\ ~ table[t].deleted => ~ table[p].deleted

ASSUME ListsAssumption ==
    /\ Clock \subseteq Int /\ Clock # {}
    /\ PageSize \in Nat \ {0} /\ MaxChanges \in Nat
    /\ FirstDay \in Int /\ LastDay \in Int
    /\ None \notin User \cup Int

ASSUME DefinitionAssumption ==
    \A i \in DOMAIN Definition :
        /\ IsDocument(Definition[i].expression)
        /\ Definition[i].sort_by \in SortField
        /\ Definition[i].sort_direction \in {"asc", "desc"}

ASSUME FirstRowsAssumption ==
    \A table \in FirstRows :
        /\ IsFiniteSet(DOMAIN table) /\ DOMAIN table \subseteq Nat
        /\ table \in [DOMAIN table -> Row]
        /\ InPlace(table)

VARIABLES
    rows, now,
    access,     \* of Reader; "override": a system administrator who is no member
    request,    \* what Reader has asked
    changes

vars == <<rows, now, access, request, changes>>

Idle == [phase |-> "idle"]

Init ==
    /\ rows \in FirstRows
    /\ now \in Clock
    /\ access \in Access
    /\ request = Idle
    /\ changes = 0

InUse == {t \in DOMAIN rows : ~ rows[t].deleted}

-----------------------------------------------------------------------------
(* Others change the tickets, members and roles; time passes. *)

ChangeTicket(t, field, value) ==
    /\ t \in InUse
    /\ rows[t][field] # value
    /\ rows' = [rows EXCEPT ![t][field] = value, ![t].updated_date = now]
    /\ InPlace(rows')
    /\ UNCHANGED <<now, access>>

\* Into the trash and back, alone or with what hangs below.
MoveTickets(S) ==
    /\ S # {}
    /\ rows' = [t \in DOMAIN rows |->
          IF t \in S THEN [rows[t] EXCEPT !.deleted = ~ @, !.updated_date = now] ELSE rows[t]]
    /\ InPlace(rows')
    /\ UNCHANGED <<now, access>>

Surroundings ==
    /\ changes < MaxChanges
    /\ changes' = changes + 1
    /\ UNCHANGED request
    /\ \/ \E t \in DOMAIN rows :
             \/ \E s \in {"TODO", "DONE"} : ChangeTicket(t, "status", s)
             \/ \E u \in User \cup {None} : ChangeTicket(t, "assignee", u)
             \/ \E p \in DOMAIN rows \cup {None} : ChangeTicket(t, "parent", p)
       \/ \E S \in SUBSET DOMAIN rows : MoveTickets(S)
       \/ \E i \in Clock : i > now /\ now' = i /\ UNCHANGED <<rows, access>>
       \/ \E a \in Access \ {access} : access' = a /\ UNCHANGED <<rows, now>>

-----------------------------------------------------------------------------
(* The list and the board of a project *)

\* TicketFilter validates the query of the request; the project is looked up.
Ask(kind, i) ==
    /\ request.phase \in {"idle", "answered"}
    /\ access # "none"
    /\ ValidFilter(Definition[i].expression)
    /\ request' = [phase |-> "admitted", kind |-> kind, query |-> i,
                   override |-> access = "override"]
    /\ UNCHANGED <<rows, now, access, changes>>

HierarchyOptions == {t \in InUse : rows[t].type \in {"EPIC", "TASK"}}

\* Members who may write are candidates too; here that is both users.
UserOptions ==
    User \cup {rows[t].creator : t \in InUse} \cup ({rows[t].assignee : t \in InUse} \ {None})

\* validate_saved_filter_definition
ReferencesExist(e) ==
    \A c \in Conditions(e) :
        /\ c.field \in {"epic", "parent"} =>
              /\ Chosen(c) \subseteq HierarchyOptions
              /\ c.field = "epic" => \A t \in Chosen(c) : rows[t].type = "EPIC"
        /\ c.field \in {"creator", "assignee"} => Chosen(c) \subseteq UserOptions

\* The dates of the request are fixed here.
Check ==
    /\ request.phase = "admitted"
    /\ LET e == Definition[request.query].expression IN
       IF ReferencesExist(e) /\ Resolvable(e, Day(now), Reader)
       THEN request' = [phase |-> "resolved", kind |-> request.kind, query |-> request.query,
                        override |-> request.override, today |-> Day(now)]
       ELSE request' = Idle
    /\ UNCHANGED <<rows, now, access, changes>>

\* project_scope, in the statement that reads the rows
InScope == request.override \/ access = "member"

\* filtered_project_ticket_query
Matching ==
    {t \in InUse : InScope /\ Selected(Definition[request.query].expression,
                                       request.today, Reader, t, rows)}

SortValue(q, t) ==
    CASE q.sort_by = "priority" -> Weight[rows[t].priority]
      [] q.sort_by = "number" -> t
      [] q.sort_by = "due_date" -> IF rows[t].due_date = None THEN 0 ELSE rows[t].due_date
      [] OTHER -> rows[t][q.sort_by]

SortValuesOnly(q, t) == <<SortValue(q, t)>>   \* mutant: no id to decide between equals

\* _ticket_sort_columns, but for the column that puts missing dates last
SortValues(q, t) == <<SortValue(q, t), t>>

Smaller(v, w) ==
    \E k \in DOMAIN v : v[k] < w[k] /\ \A j \in 1 .. k - 1 : v[j] = w[j]

Undated(q, t) == q.sort_by = "due_date" /\ rows[t].due_date = None

Precedes(q, s, t) ==
    IF Undated(q, s) # Undated(q, t) THEN Undated(q, t)
    ELSE IF q.sort_direction = "asc" THEN Smaller(SortValues(q, s), SortValues(q, t))
                                     ELSE Smaller(SortValues(q, t), SortValues(q, s))

\* LIMIT and OFFSET: the tickets with so many before them.
Page(q, S, p) ==
    {t \in S : Cardinality({s \in S : Precedes(q, s, t)})
                    \in (p - 1) * PageSize .. p * PageSize - 1}

PageCount(S) == (Cardinality(S) + PageSize - 1) \div PageSize

\* The answers for all numbers of a page at once.
ReadList ==
    /\ request.phase = "resolved" /\ request.kind = "list"
    /\ request' = [phase |-> "answered", query |-> request.query, found |-> Matching,
                   pages |-> [p \in 1 .. PageCount(Matching) |->
                                Page(Definition[request.query], Matching, p)]]
    /\ UNCHANGED <<rows, now, access, changes>>

-----------------------------------------------------------------------------
(* build_ticket_board *)

\* board_rows: what matches, its parents and their parents, if in use.
Ancestors(S) ==
    LET parents == {rows[t].parent : t \in S} IN
    parents \cup {rows[t].parent : t \in parents \cap InUse}
Indexed(S) == S \cup (Ancestors(S) \cap InUse)

OfType(type, S) == {t \in S : rows[t].type = type}

\* The column that holds a subtask apart from its task: of another status than
\* the task, or the task itself is not shown.
ApartByStatus(task, column, S) == rows[task].status # column   \* mutant

Apart(task, column, S) == rows[task].status # column \/ task \notin S

\* The cards of one group, an Epic or none: tasks, the subtasks in the column
\* of their task ("below"), and the others ("apart").
GroupCards(epic, S) ==
    LET indexed == Indexed(S)
        within == {k \in OfType("TASK", indexed) :
            (IF rows[k].parent \in indexed THEN rows[k].parent ELSE None) = epic}
        children(k, column) ==
            {t \in OfType("SUBTASK", S) : rows[t].parent = k /\ rows[t].status = column}
        inColumn(column) == {k \in within \cap S : rows[k].status = column}
        cards(column, place, T) ==
            {[group |-> epic, column |-> column, place |-> place, ticket |-> t] : t \in T}
    IN  UNION {
          cards(column, "task", inColumn(column))
          \cup cards(column, "below", UNION {children(k, column) : k \in inColumn(column)})
          \cup cards(column, "apart", UNION {children(k, column) :
                        k \in {k \in within : Apart(k, column, S)}})
          : column \in Status}

Groups(S) == OfType("EPIC", Indexed(S)) \cup {None}
Cards(S) == UNION {GroupCards(epic, S) : epic \in Groups(S)}

\* Groups without cards are left out when there are conditions.
ShownGroups(S, e) ==
    {epic \in Groups(S) : e[1].children = {} \/ GroupCards(epic, S) # {}}

ReadBoard ==
    /\ request.phase = "resolved" /\ request.kind = "board"
    /\ LET e == Definition[request.query].expression IN
       request' = [phase |-> "answered", query |-> request.query, found |-> Matching,
                   cards |-> Cards(Matching), groups |-> ShownGroups(Matching, e)]
    /\ UNCHANGED <<rows, now, access, changes>>

Next ==
    \/ Surroundings
    \/ \E kind \in {"list", "board"}, i \in DOMAIN Definition : Ask(kind, i)
    \/ Check
    \/ ReadList
    \/ ReadBoard

Spec == Init /\ [][Next]_vars

-----------------------------------------------------------------------------
(* Lists over all projects, and the dashboard *)

Mine(u, t) ==
    rows[t].assignee = u \/ (rows[t].assignee = None /\ rows[t].creator = u)

\* accessible_ticket_query: only projects of which the user is a member
Accessible == {t \in InUse : access = "member"}

\* filtered_ticket_rows
GlobalRows(scope, status, due, today, weekEnd) ==
    {t \in Accessible :
        /\ scope = "mine" => Mine(Reader, t)
        /\ scope = "created" => rows[t].creator = Reader
        /\ status = "open" => rows[t].status \notin {"DONE", "CANCELLED"}
        /\ due # "all" => rows[t].due_date # None
        /\ due = "overdue" => rows[t].due_date < today
        /\ due = "this_week" => rows[t].due_date \in today .. weekEnd}

\* list_global_tickets
GlobalList(scope, status, due) ==
    LET today == Day(now) IN
    GlobalRows(scope, status, due, today, today + (6 - (today % 7)))

DashboardCountsInWeek(today, weekEnd) ==   \* mutant: the week from its Monday
    LET open == {t \in Accessible : Mine(Reader, t) /\ rows[t].status \in OpenStatus}
        dated == {t \in open : rows[t].due_date # None} IN
    [open_mine |-> Cardinality(open),
     overdue |-> Cardinality({t \in dated : rows[t].due_date < today}),
     due_this_week |-> Cardinality({t \in dated :
         rows[t].due_date \in Monday(today, "this") .. weekEnd})]

\* get_dashboard_counts
DashboardCounts(today, weekEnd) ==
    LET open == {t \in Accessible : Mine(Reader, t) /\ rows[t].status \in OpenStatus}
        dated == {t \in open : rows[t].due_date # None} IN
    [open_mine |-> Cardinality(open),
     overdue |-> Cardinality({t \in dated : rows[t].due_date < today}),
     due_this_week |-> Cardinality({t \in dated : rows[t].due_date \in today .. weekEnd})]

\* get_dashboard
Dashboard ==
    LET today == Day(now) IN DashboardCounts(today, today + (6 - (today % 7)))

-----------------------------------------------------------------------------
(* Properties *)

\* A list and a board find the tickets that the filter means when the rows are
\* read, for a user who is still a member, or was admitted as an administrator:
\* missing assignees and dates under any nesting of NOT, the days in Seoul,
\* weeks, and epics with what hangs below them (docs/ticket_filter_design.md).
AnswersMeanTheFilter ==
    [][ request'.phase = "answered" /\ request.phase = "resolved" =>
          request'.found =
            {t \in InUse : /\ access = "member" \/ request.override
                           /\ Means(Definition[request.query].expression, request.today,
                                    Reader, t, rows)} ]_vars

\* Whatever the order asked for, every ticket found is on one page, no page but
\* the last has room left, and tickets without a due date come last by due date.
PagesHoldEachOnce ==
    [][ request'.phase = "answered" /\ request.phase = "resolved" /\ request.kind = "list" =>
          LET n == Cardinality(request'.found)
              pages == request'.pages IN
          /\ UNION {pages[p] : p \in DOMAIN pages} = request'.found
          /\ \A p \in DOMAIN pages : p * PageSize <= n => Cardinality(pages[p]) = PageSize
          /\ \A p, r \in DOMAIN pages : p # r => pages[p] \cap pages[r] = {}
          /\ Definition[request.query].sort_by = "due_date" =>
                \A p, r \in DOMAIN pages : p < r =>
                   \A s \in pages[p], t \in pages[r] :
                      rows[s].due_date = None => rows[t].due_date = None ]_vars

\* The board has exactly one card for each task and subtask found, in the column
\* of its status and the group of its Epic, none for others, and below a task
\* only if that task is found too (REQUIREMENTS.md 8.4).
BoardShowsEachMatchOnce ==
    [][ request'.phase = "answered" /\ request.phase = "resolved" /\ request.kind = "board" =>
          LET epic(t) ==
                IF rows[t].type = "TASK" THEN rows[t].parent ELSE rows[rows[t].parent].parent
              shown == {t \in request'.found : rows[t].type # "EPIC"}
          IN  /\ {<<c.group, c.column, c.ticket>> : c \in request'.cards}
                    = {<<epic(t), rows[t].status, t>> : t \in shown}
              /\ Cardinality(request'.cards) = Cardinality(shown)
              /\ \A c \in request'.cards : c.place = "below" => rows[c.ticket].parent \in shown
              /\ {epic(t) : t \in shown} \subseteq request'.groups ]_vars

\* The numbers on the dashboard are those of the lists that its cards open.
DashboardAgreesWithLists ==
    /\ Dashboard.open_mine = Cardinality(GlobalList("mine", "open", "all"))
    /\ Dashboard.overdue = Cardinality(GlobalList("mine", "open", "overdue"))
    /\ Dashboard.due_this_week = Cardinality(GlobalList("mine", "open", "this_week"))
=============================================================================

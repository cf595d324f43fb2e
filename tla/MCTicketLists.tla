--------------------------- MODULE MCTicketLists ---------------------------
(***************************************************************************)
(* TicketLists for TLC: an Epic, a Task with a Subtask and a lone Task or  *)
(* Epic, their dates around midnight in Seoul between a Sunday, day 20,    *)
(* and a Monday, and filters with each condition and rule.                 *)
(***************************************************************************)
EXTENDS TicketLists, SequencesExt

CONSTANTS ann, bob

Ticket(type, status, priority, parent, creator, assignee, created, due, words) ==
    [type |-> type, status |-> status, priority |-> priority, parent |-> parent,
     creator |-> creator, assignee |-> assignee, created_date |-> created,
     updated_date |-> created, due_date |-> due, words |-> words, deleted |-> FALSE]

\* The last three hours of a day in Seoul and the first three of the next.
LastOf(day) == StartOf(day + 1) - 1

Work(lone, status) ==
    <<Ticket("EPIC", "TODO", "MAJOR", None, ann, None, StartOf(14), None, {"plan"}),
      Ticket("TASK", status, "MINOR", 1, bob, ann, LastOf(18), 20, {}),
      Ticket("SUBTASK", "TODO", "MINOR", 2, ann, None, LastOf(20), 24, {"plan"}),
      lone>>

Lone == {Ticket("TASK", "ON_HOLD", "BLOCKER", None, ann, None, LastOf(20), None, {}),
         Ticket("TASK", "TODO", "MINOR", 1, bob, bob, StartOf(13), 19, {}),
         Ticket("EPIC", "DONE", "MINOR", None, bob, ann, LastOf(13), 21, {"plan"})}

MCFirstRows == {Work(lone, status) : lone \in Lone, status \in {"TODO", "IN_PROGRESS"}}
MCClock == {LastOf(20), StartOf(21), StartOf(23)}

-----------------------------------------------------------------------------
\* A filter from its parts: the nodes of each follow those of the one before.
Where(field, operator, values) ==
    <<[kind |-> "condition", field |-> field, operator |-> operator, values |-> values,
       rule |-> NoRule, negated |-> FALSE]>>
Ruled(field, operator, rule) == [Where(field, operator, <<>>) EXCEPT ![1].rule = rule]
Not(e) == [e EXCEPT ![1].negated = ~ @]

Moved(e, n) ==
    [i \in DOMAIN e |->
        IF e[i].kind = "condition" THEN e[i]
        ELSE [e[i] EXCEPT !.children = {j + n : j \in @}]]
Group(operator, parts) ==
    FoldLeft(LAMBDA e, part :
                [e EXCEPT ![1].children = @ \cup {Len(e) + 1}] \o Moved(part, Len(e)),
             <<[kind |-> "group", operator |-> operator, children |-> {}, negated |-> FALSE]>>,
             parts)

Fixed(day) == [kind |-> "fixed_date", value |-> day]
Today == [kind |-> "today"]
Offset(direction, days) == [kind |-> "day_offset", direction |-> direction, days |-> days]
WeekDay(week, weekday) == [kind |-> "week_day", week |-> week, weekday |-> weekday]
Period(direction, days) == [kind |-> "relative_period", direction |-> direction, days |-> days]
WorkingWeek(week) == [kind |-> "working_week", week |-> week]
DateRange(start, end) == [kind |-> "date_range", start |-> start, end |-> end]
Me == [kind |-> "current_user"]

Sole ==   \* the only condition
    <<Where("status", "in", <<"TODO", "ON_HOLD">>),
      Where("type", "not_in", <<"TASK">>),
      Where("type", "in", <<"SUBTASK">>),
      Where("search", "not_contains", <<"plan">>),
      Where("assignee", "not_in", <<bob>>),
      Not(Where("assignee", "in", <<ann>>)),
      Not(Where("parent", "not_in", <<2>>)),
      Where("parent", "is_empty", <<>>),
      Not(Where("due_date", "is_not_empty", <<>>)),
      Where("epic", "in", <<1>>),
      Where("epic", "not_in", <<1>>),
      Where("epic", "in", <<2>>),               \* refused: a Task
      Where("due_date", "between", <<18, 20>>),
      Not(Where("due_date", "before", <<20>>)),
      Where("due_date", "after", <<20>>),
      Where("created_date", "before", <<20>>),
      Where("created_date", "after", <<19>>),
      Where("created_date", "on", <<20>>),
      Where("updated_date", "between", <<20, 18>>),   \* refused: reversed
      Ruled("assignee", "in", Me),
      Ruled("creator", "not_in", Me),
      Ruled("due_date", "on", Today),
      Ruled("due_date", "after", WeekDay("this", 4)),
      Ruled("created_date", "before", WeekDay("last", 5)),
      Ruled("updated_date", "on", Offset("past", 1)),
      Ruled("created_date", "between", Period("past", 3)),
      Not(Ruled("due_date", "between", Period("future", 4))),
      Ruled("created_date", "between", WorkingWeek("this")),
      Ruled("due_date", "between", WorkingWeek("last")),
      Ruled("due_date", "between", DateRange(Fixed(20), WeekDay("this", 4))),
      Ruled("created_date", "between", DateRange(WeekDay("last", 6), Today)),
      Ruled("due_date", "between", DateRange(Today, Fixed(20))),    \* refused on Monday
      Where("due_date", "before", <<51>>),                          \* refused: no such day
      Ruled("created_date", "before", Offset("future", 30))>>       \* refused from Monday on

Trees ==
    <<Group("AND", <<>>),
      Not(Group("AND", <<>>)),                                      \* refused
      Group("AND", <<Group("OR", <<>>)>>),                          \* refused
      Not(Group("OR", <<Where("assignee", "in", <<bob>>), Where("due_date", "on", <<20>>)>>)),
      Group("AND", <<Not(Group("AND", <<Where("due_date", "before", <<21>>),
                                        Where("priority", "in", <<"MINOR">>)>>)),
                     Where("type", "not_in", <<"EPIC">>)>>),
      Group("OR", <<Where("type", "in", <<"SUBTASK">>), Not(Ruled("assignee", "in", Me))>>),
      Group("OR", <<Group("AND", <<Group("OR", <<Where("parent", "is_empty", <<>>)>>)>>)>>)>>   \* refused: too deep

Order == <<<<"due_date", "asc">>, <<"priority", "desc">>, <<"updated_date", "asc">>,
           <<"created_date", "desc">>, <<"due_date", "desc">>, <<"number", "asc">>>>

Expressions == Trees \o [i \in DOMAIN Sole |-> Group("AND", <<Sole[i]>>)]

MCDefinition ==
    [i \in DOMAIN Expressions |->
        [expression |-> Expressions[i], sort_by |-> Order[(i % 6) + 1][1],
         sort_direction |-> Order[(i % 6) + 1][2]]]
=============================================================================

--------------------------- MODULE TicketFilters ---------------------------
(***************************************************************************)
(* The conditions by which tickets are listed: which filters are accepted  *)
(* (app/schemas/ticket_filters.py), how rules such as "the last 7 days"    *)
(* become dates (app/services/ticket_filter_resolution.py) and the SQL     *)
(* they turn into (app/repositories/ticket_filter_expressions.py).         *)
(*                                                                         *)
(* A filter is the sequence of its nodes in the order in which its         *)
(* document writes them, the outermost group first.  A node is a condition *)
(* [kind, field, operator, values, rule, negated] or a group               *)
(* [kind, operator, children, negated] with the places of its children.    *)
(* Days are numbered from a Monday.  Stored times count steps of three     *)
(* hours in UTC.  A title is the set of words that a search finds in it.   *)
(***************************************************************************)
EXTENDS Integers, Sequences, FiniteSetsExt

CONSTANTS
    None,               \* NULL
    MaxNodes, MaxDepth, \* MAX_FILTER_NODES, MAX_FILTER_DEPTH
    FirstDay, LastDay   \* the days that a filter may name

Calendar == FirstDay .. LastDay
MaxDays == 3650

NoRule == [kind |-> "none"]
DateField == {"created_date", "updated_date", "due_date"}
ReferenceField == {"epic", "parent", "creator", "assignee"}
ChoiceField == {"type", "status", "priority"} \cup ReferenceField

Week == {"this", "last"}
Direction == {"past", "future"}

\* DateAnchor and DynamicFilterRule
SingleDay ==
    [kind : {"today"}]
    \cup [kind : {"day_offset"}, days : 1 .. MaxDays, direction : Direction]
    \cup [kind : {"week_day"}, week : Week, weekday : 0 .. 6]
DateAnchor == [kind : {"fixed_date"}, value : Calendar] \cup SingleDay
Rule ==
    [kind : {"current_user"}] \cup SingleDay
    \cup [kind : {"relative_period"}, days : 1 .. MaxDays, direction : Direction]
    \cup [kind : {"working_week"}, week : Week]
    \cup [kind : {"date_range"}, start : DateAnchor, end : DateAnchor]

Chosen(c) == {c.values[i] : i \in DOMAIN c.values}

IsCondition(c) ==
    /\ c = [kind |-> "condition", field |-> c.field, operator |-> c.operator,
            values |-> c.values, rule |-> c.rule, negated |-> c.negated]
    /\ None \notin Chosen(c)
    /\ c.rule \in {NoRule} \cup Rule
    /\ c.negated \in BOOLEAN

IsGroup(g) ==
    /\ g = [kind |-> "group", operator |-> g.operator, children |-> g.children,
            negated |-> g.negated]
    /\ g.operator \in {"AND", "OR"} /\ g.negated \in BOOLEAN

\* The nodes of a document: each but the first is in exactly one group, which
\* is written before it.
IsDocument(e) ==
    /\ Len(e) \in Nat \ {0} /\ DOMAIN e = 1 .. Len(e)
    /\ IsGroup(e[1])
    /\ \A i \in DOMAIN e :
          IF e[i].kind = "condition" THEN IsCondition(e[i])
          ELSE IsGroup(e[i]) /\ e[i].children \subseteq i + 1 .. Len(e)
    /\ \A j \in DOMAIN e \ {1} :
          \E i \in DOMAIN e : \A k \in DOMAIN e :
             (e[k].kind = "group" /\ j \in e[k].children) <=> k = i

-----------------------------------------------------------------------------
(* What is accepted *)

InOrder(rule) ==
    rule.start.kind = "fixed_date" /\ rule.end.kind = "fixed_date"
        => rule.start.value <= rule.end.value

ValidRule(c) ==
    /\ c.values = <<>>
    /\ CASE c.rule.kind = "current_user" ->
              c.field \in {"creator", "assignee"} /\ c.operator \in {"in", "not_in"}
         [] c.rule.kind \in {"relative_period", "working_week", "date_range"} ->
              /\ c.field \in DateField /\ c.operator = "between"
              /\ c.rule.kind = "date_range" => InOrder(c.rule)
         [] OTHER -> c.field \in DateField /\ c.operator \in {"on", "before", "after"}

ValidValues(c) ==
    \/ /\ c.operator \in {"is_empty", "is_not_empty"}
       /\ c.field \in {"assignee", "parent", "due_date"} /\ c.values = <<>>
    \/ c.field = "search" /\ c.operator \in {"contains", "not_contains"} /\ Len(c.values) = 1
    \/ /\ c.field \in DateField
       /\ \/ c.operator \in {"on", "before", "after"} /\ Len(c.values) = 1
          \/ c.operator = "between" /\ Len(c.values) = 2 /\ c.values[1] <= c.values[2]
       /\ {c.values[1], c.values[Len(c.values)]} \subseteq Calendar
    \/ c.field \in ChoiceField /\ c.operator \in {"in", "not_in"} /\ c.values # <<>>

ValidCondition(c) == IF c.rule = NoRule THEN ValidValues(c) ELSE ValidRule(c)

Nodes(e) == Len(e)

Levels(e) ==
    LET levels[i \in DOMAIN e] ==
            IF e[i].kind = "condition" THEN 1
            ELSE 1 + Max({0} \cup {levels[j] : j \in e[i].children})
    IN  levels[1]

\* iter_filter_conditions
Conditions(e) == {e[i] : i \in {j \in DOMAIN e : e[j].kind = "condition"}}

GroupsFilled(e) == \A i \in DOMAIN e : e[i].kind = "group" => e[i].children # {}

\* Only the outermost group may be empty, unless it is negated.
ValidFilter(e) ==
    /\ Nodes(e) <= MaxNodes /\ Levels(e) <= MaxDepth
    /\ GroupsFilled(e) \/ (e[1].children = {} /\ ~ e[1].negated)
    /\ \A c \in Conditions(e) : ValidCondition(c)

-----------------------------------------------------------------------------
(* Rules become dates *)

DayLength == 8
SeoulOffset == 3
Day(instant) == (instant + SeoulOffset) \div DayLength
StartOf(day) == day * DayLength - SeoulOffset

Monday(day, week) == day - (day % 7) - (IF week = "last" THEN 7 ELSE 0)

\* resolve_date_anchor
Anchor(a, today) ==
    CASE a.kind = "fixed_date" -> a.value
      [] a.kind = "day_offset" -> IF a.direction = "past" THEN today - a.days ELSE today + a.days
      [] a.kind = "week_day" -> Monday(today, a.week) + a.weekday
      [] a.kind = "today" -> today

\* First and last date of a rule.
Span(rule, today) ==
    CASE rule.kind = "date_range" -> <<Anchor(rule.start, today), Anchor(rule.end, today)>>
      [] rule.kind = "relative_period" ->
            IF rule.direction = "past" THEN <<today - (rule.days - 1), today>>
                                       ELSE <<today, today + (rule.days - 1)>>
      [] rule.kind = "working_week" ->
            <<Monday(today, rule.week), Monday(today, rule.week) + 4>>
      [] OTHER -> <<Anchor(rule, today), Anchor(rule, today)>>

Resolved(c, today, actor) ==
    IF c.rule = NoRule THEN c
    ELSE [c EXCEPT !.rule = NoRule, !.values =
            IF c.rule.kind = "current_user" THEN <<actor>>
            ELSE IF c.operator = "between" THEN Span(c.rule, today)
            ELSE <<Span(c.rule, today)[1]>>]

\* A resolved condition is validated again.
Resolvable(e, today, actor) ==
    \A c \in Conditions(e) : ValidCondition(Resolved(c, today, actor))

-----------------------------------------------------------------------------
(* The SQL, in the logic of three truth values *)

Truth(b) == IF b THEN "true" ELSE "false"
Compared(column, b) == IF column = None THEN "unknown" ELSE Truth(b)

Negation(v) ==
    CASE v = "true" -> "false" [] v = "false" -> "true" [] v = "unknown" -> "unknown"
Conjunction(V) ==
    IF "false" \in V THEN "false" ELSE IF "unknown" \in V THEN "unknown" ELSE "true"
Disjunction(V) == Negation(Conjunction({Negation(v) : v \in V}))

InList(column, S) == IF S = {} THEN "false" ELSE Compared(column, column \in S)

CoalescedNot(v) == v   \* mutant: NULL is left to the negation
Coalesced(v) == IF v = "unknown" THEN "false" ELSE v

\* build_epic_expression; t is the id of row, rows the tickets of the project
EpicExpression(t, rows, epics) ==
    LET row == rows[t]
        selected == {e \in DOMAIN rows :
            rows[e].type = "EPIC" /\ ~ rows[e].deleted /\ e \in epics}
        tasks == {k \in DOMAIN rows :
            rows[k].type = "TASK" /\ ~ rows[k].deleted /\ rows[k].parent \in selected}
    IN  Disjunction({InList(t, selected), InList(row.parent, selected),
                     Conjunction({Truth(row.type = "SUBTASK"), InList(row.parent, tasks)})})

DateExpression(column, c) ==
    LET first == c.values[1]
        last == c.values[Len(c.values)]
        from == IF c.field = "due_date" THEN first ELSE StartOf(first)
        to == IF c.field = "due_date" THEN last + 1 ELSE StartOf(last + 1)
    IN  CASE c.operator = "before" -> Compared(column, column < from)
          [] c.operator = "after" -> Compared(column, column >= to)
          [] OTHER -> Compared(column, from <= column /\ column < to)

ConditionExpression(c, t, rows) ==
    LET row == rows[t]
        positive ==
            IF c.operator \in {"is_empty", "is_not_empty"}
            THEN Truth((row[c.field] = None) <=> (c.operator = "is_empty"))
            ELSE
            CASE c.field = "search" -> Truth(Chosen(c) \cap row.words # {})
              [] c.field = "epic" -> EpicExpression(t, rows, Chosen(c))
              [] c.field \in DateField -> DateExpression(row[c.field], c)
              [] OTHER -> InList(row[c.field], Chosen(c))
        value == Coalesced(positive)
    IN  IF (c.operator \in {"not_in", "not_contains"}) <=> c.negated THEN value ELSE Negation(value)

\* build_filter_expression
Expression(e, today, actor, t, rows) ==
    LET value[i \in DOMAIN e] ==
            IF e[i].kind = "condition"
            THEN ConditionExpression(Resolved(e[i], today, actor), t, rows)
            ELSE LET parts == {value[j] : j \in e[i].children}
                     combined == IF e[i].operator = "AND" \/ parts = {}
                                 THEN Conjunction(parts) ELSE Disjunction(parts)
                 IN  IF e[i].negated THEN Negation(combined) ELSE combined
    IN  value[1]

Selected(e, today, actor, t, rows) == Expression(e, today, actor, t, rows) = "true"

-----------------------------------------------------------------------------
(* What a filter means to its user (docs/ticket_filter_design.md): each      *)
(* condition is true or false, dates are those of the calendar in Seoul.     *)

Above(t, rows) ==
    {a \in DOMAIN rows : \/ a = t \/ a = rows[t].parent
                         \/ \E p \in DOMAIN rows : p = rows[t].parent /\ a = rows[p].parent}

DayOf(row, field) ==
    IF field = "due_date" \/ row[field] = None THEN row[field] ELSE Day(row[field])

InWeek(d, week, today) == today \div 7 - d \div 7 = (IF week = "last" THEN 1 ELSE 0)

IsDay(anchor, d, today) ==
    CASE anchor.kind = "fixed_date" -> d = anchor.value
      [] anchor.kind = "today" -> d = today
      [] anchor.kind = "day_offset" ->
            anchor.days = IF anchor.direction = "past" THEN today - d ELSE d - today
      [] anchor.kind = "week_day" ->
            d % 7 = anchor.weekday /\ InWeek(d, anchor.week, today)

\* The days that a rule, or the fixed dates, cover.
Covers(c, d, today) ==
    CASE c.rule = NoRule -> c.values[1] <= d /\ d <= c.values[Len(c.values)]
      [] c.rule.kind = "relative_period" ->
            (IF c.rule.direction = "past" THEN today - d ELSE d - today)
                \in 0 .. c.rule.days - 1
      [] c.rule.kind = "working_week" ->
            d % 7 \in 0 .. 4 /\ InWeek(d, c.rule.week, today)
      [] c.rule.kind = "date_range" ->
            /\ \E x \in Calendar : IsDay(c.rule.start, x, today) /\ x <= d
            /\ \E y \in Calendar : IsDay(c.rule.end, y, today) /\ d <= y
      [] OTHER -> IsDay(c.rule, d, today)

DateFits(c, d, today) ==
    /\ d # None
    /\ CASE c.operator = "before" -> \E x \in Calendar : Covers(c, x, today) /\ d < x
         [] c.operator = "after" -> \E x \in Calendar : Covers(c, x, today) /\ x < d
         [] OTHER -> Covers(c, d, today)

Holds(c, today, actor, t, rows) ==
    LET row == rows[t]
        wanted == IF c.rule.kind = "current_user" THEN {actor} ELSE Chosen(c)
        positive ==
            CASE c.operator = "is_empty" -> row[c.field] = None
              [] c.operator = "is_not_empty" -> row[c.field] # None
              [] OTHER ->
            CASE c.field = "search" -> Chosen(c) \cap row.words # {}
              [] c.field \in DateField -> DateFits(c, DayOf(row, c.field), today)
              [] c.field = "epic" -> \E a \in Above(t, rows) \cap wanted : rows[a].type = "EPIC"
              [] OTHER -> row[c.field] \in wanted
    IN  positive <=> ((c.operator \in {"not_in", "not_contains"}) <=> c.negated)

Means(e, today, actor, t, rows) ==
    LET means[i \in DOMAIN e] ==
            IF e[i].kind = "condition" THEN Holds(e[i], today, actor, t, rows)
            ELSE e[i].negated <=>
                   ~ (IF e[i].operator = "AND" \/ e[i].children = {}
                      THEN \A j \in e[i].children : means[j]
                      ELSE \E j \in e[i].children : means[j])
    IN  means[1]
=============================================================================

------------------------- MODULE TicketLists_proofs -------------------------
(***************************************************************************)
(* Theorems about TicketFilters and TicketLists for every filter, table of *)
(* tickets, calendar and size of a page: the SQL of a filter selects what  *)
(* the filter means, and lists, pages, board and dashboard show just that. *)
(***************************************************************************)
EXTENDS TicketLists, FiniteSetTheorems, FunctionTheorems, TLAPS

-----------------------------------------------------------------------------
(* Nodes of a filter *)

LEMMA LastOfSome ==
    ASSUME NEW n \in Nat, NEW T \in SUBSET (1 .. n), T # {}
    PROVE  \E k \in T : \A x \in T : x <= k
<1> DEFINE Later(k) == {x \in T : x > k}
           F == {Later(k) : k \in T}
<1>1. IsFiniteSet(T)
    <2>1. IsFiniteSet(1 .. n) BY FS_Interval
    <2> QED BY <2>1, FS_Subset
<1>2. F \subseteq FiniteSubsetsOf(T) /\ F # {}
    <2>1. \A k \in T : IsFiniteSet(Later(k)) BY <1>1, FS_Subset
    <2> QED BY <2>1 DEF FiniteSubsetsOf
<1>3. IsWellFoundedOn(StrictSubsetOrdering(T), FiniteSubsetsOf(T))
    BY <1>1, FS_StrictSubsetOrderingWellFounded
<1>4. PICK L \in F : \A M \in F : ~ (<<M, L>> \in StrictSubsetOrdering(T))
    <2>1. ASSUME NEW R, NEW S, IsWellFoundedOn(R, S), F \subseteq S
          PROVE  \E L \in F : \A M \in F : ~ (<<M, L>> \in R)
        <3> HIDE DEF F
        <3> QED BY <1>2, <2>1, WFMin
    <2> HIDE DEF F
    <2> QED BY <1>2, <1>3, <2>1
<1>5. PICK k \in T : L = Later(k) OBVIOUS
<1>6. ASSUME NEW x \in T, x > k PROVE FALSE
    <2>1. Later(x) \subseteq Later(k) /\ x \in Later(k) /\ x \notin Later(x)
        <3>1. T \subseteq Int OBVIOUS
        <3>2. x \in Int /\ k \in Int /\ x > k /\ ~ (x > x) BY <3>1, <1>6
        <3>3. \A y \in T : y > x => y > k BY <3>1, <3>2
        <3> QED BY <3>2, <3>3
    <2>2. <<Later(x), Later(k)>> \in StrictSubsetOrdering(T)
        BY <2>1 DEF StrictSubsetOrdering
    <2> QED BY <2>2, <1>4, <1>5
<1> QED BY <1>6

\* What holds of a node once it holds of all the nodes after it, holds of all.
LEMMA FromTheLastNode ==
    ASSUME NEW e, IsDocument(e), NEW K,
           \A i \in DOMAIN e : i + 1 .. Len(e) \subseteq K => i \in K
    PROVE  DOMAIN e \subseteq K
<1>1. Len(e) \in Nat /\ DOMAIN e = 1 .. Len(e) BY DEF IsDocument
<1> DEFINE T == DOMAIN e \ K
<1>2. SUFFICES ASSUME T # {} PROVE FALSE OBVIOUS
<1>3. PICK k \in T : \A x \in T : x <= k
    <2>1. T \in SUBSET (1 .. Len(e)) BY <1>1
    <2> HIDE DEF T
    <2> QED BY <1>1, <1>2, <2>1, LastOfSome
<1> QED BY <1>1, <1>3

-----------------------------------------------------------------------------
(* Three truth values *)

TwoValued == {"true", "false"}
Truths == {"true", "false", "unknown"}

LEMMA ConjunctionIsAnd ==
    ASSUME NEW V \in SUBSET Truths
    PROVE  /\ Conjunction(V) \in Truths
           /\ Conjunction(V) = "true" <=> V \subseteq {"true"}
           /\ V \subseteq TwoValued => Conjunction(V) \in TwoValued
BY DEF Conjunction, Truths, TwoValued

LEMMA DisjunctionIsOr ==
    ASSUME NEW V \in SUBSET Truths
    PROVE  /\ Disjunction(V) \in Truths
           /\ Disjunction(V) = "true" <=> "true" \in V
           /\ V \subseteq TwoValued => Disjunction(V) \in TwoValued
<1> DEFINE W == {Negation(v) : v \in V}
<1>1. \A v \in Truths : /\ Negation(v) \in Truths
                        /\ Negation(v) = "true" <=> v = "false"
                        /\ Negation(v) = "false" <=> v = "true"
    <2>1. /\ Negation("true") = "false" /\ Negation("false") = "true"
          /\ Negation("unknown") = "unknown"
        BY Zenon DEF Negation
    <2> QED BY <2>1 DEF Truths
<1>2. /\ W \subseteq Truths
      /\ "false" \in W <=> "true" \in V
      /\ V \subseteq TwoValued => W \subseteq TwoValued
    BY <1>1 DEF Truths, TwoValued
<1>3. Disjunction(V) = Negation(Conjunction(W)) BY DEF Disjunction
<1>4. /\ Conjunction(W) \in Truths
      /\ Conjunction(W) = "false" <=> "false" \in W
      /\ W \subseteq TwoValued => Conjunction(W) \in TwoValued
    <2> HIDE DEF W
    <2> QED BY <1>2 DEF Conjunction, Truths, TwoValued
<1> HIDE DEF W
<1> QED BY <1>1, <1>2, <1>3, <1>4 DEF TwoValued, Truths

LEMMA InListIsMembership ==
    ASSUME NEW column, NEW S, None \notin S
    PROVE  /\ InList(column, S) \in Truths
           /\ InList(column, S) = "true" <=> column \in S
BY DEF InList, Compared, Truth, Truths

LEMMA CoalescedIsTwoValued ==
    ASSUME NEW v \in Truths
    PROVE  Coalesced(v) \in TwoValued /\ (Coalesced(v) = "true" <=> v = "true")
BY DEF Coalesced, Truths, TwoValued

-----------------------------------------------------------------------------
(* Tables of tickets *)

IsTable(table) ==
    /\ IsFiniteSet(DOMAIN table) /\ DOMAIN table \subseteq Nat
    /\ table \in [DOMAIN table -> Row]
    /\ InPlace(table)

\* The three parts of the SQL for an Epic find it, its tasks and their subtasks.
LEMMA EpicIsAbove ==
    ASSUME NEW table, IsTable(table), NEW t \in DOMAIN table, ~ table[t].deleted,
           NEW S, None \notin S
    PROVE  /\ EpicExpression(t, table, S) \in Truths
           /\ EpicExpression(t, table, S) = "true"
                 <=> \E a \in Above(t, table) \cap S : table[a].type = "EPIC"
<1> DEFINE selected == {a \in DOMAIN table :
                table[a].type = "EPIC" /\ ~ table[a].deleted /\ a \in S}
           tasks == {k \in DOMAIN table :
                table[k].type = "TASK" /\ ~ table[k].deleted /\ table[k].parent \in selected}
           below == Conjunction({Truth(table[t].type = "SUBTASK"),
                                 InList(table[t].parent, tasks)})
           V == {InList(t, selected), InList(table[t].parent, selected), below}
<1>1. None \notin DOMAIN table BY ListsAssumption DEF IsTable
<1>2. None \notin selected /\ None \notin tasks BY <1>1
<1>3. /\ InList(t, selected) \in Truths
      /\ InList(t, selected) = "true" <=> t \in selected
      /\ InList(table[t].parent, selected) \in Truths
      /\ InList(table[t].parent, selected) = "true" <=> table[t].parent \in selected
      /\ InList(table[t].parent, tasks) \in Truths
      /\ InList(table[t].parent, tasks) = "true" <=> table[t].parent \in tasks
    <2> HIDE DEF selected, tasks
    <2> QED BY <1>2, InListIsMembership
<1>4. /\ below \in Truths
      /\ below = "true" <=> table[t].type = "SUBTASK" /\ table[t].parent \in tasks
    <2>1. /\ Truth(table[t].type = "SUBTASK") \in Truths
          /\ Truth(table[t].type = "SUBTASK") = "true" <=> table[t].type = "SUBTASK"
        BY DEF Truth, Truths
    <2> HIDE DEF selected, tasks
    <2> QED BY <2>1, <1>3, ConjunctionIsAnd
<1>5. /\ EpicExpression(t, table, S) \in Truths
      /\ EpicExpression(t, table, S) = "true" <=>
            \/ t \in selected \/ table[t].parent \in selected
            \/ table[t].type = "SUBTASK" /\ table[t].parent \in tasks
    <2>1. V \in SUBSET Truths BY <1>3, <1>4
    <2>2. EpicExpression(t, table, S) = Disjunction(V) BY DEF EpicExpression
    <2>3. "true" \in V <=>
            \/ t \in selected \/ table[t].parent \in selected
            \/ table[t].type = "SUBTASK" /\ table[t].parent \in tasks
        <3> HIDE DEF selected, tasks, below
        <3> QED BY <1>3, <1>4
    <2> HIDE DEF V, selected, tasks
    <2> QED BY <2>1, <2>2, <2>3, DisjunctionIsOr
<1>6. \A k \in DOMAIN table : table[k].parent # None =>
        /\ table[k].parent \in DOMAIN table
        /\ <<table[k].type, table[table[k].parent].type>>
                \in {<<"TASK", "EPIC">>, <<"SUBTASK", "TASK">>}
        /\ ~ table[k].deleted => ~ table[table[k].parent].deleted
    BY DEF IsTable, InPlace
<1>7. ASSUME NEW a \in Above(t, table) \cap S, table[a].type = "EPIC"
      PROVE  \/ t \in selected \/ table[t].parent \in selected
             \/ table[t].type = "SUBTASK" /\ table[t].parent \in tasks
    <2>1. CASE a = t BY <2>1, <1>7
    <2>2. CASE a = table[t].parent BY <2>2, <1>1, <1>6, <1>7 DEF Above
    <2>3. CASE \E p \in DOMAIN table : p = table[t].parent /\ a = table[p].parent
        <3> DEFINE p == table[t].parent
        <3>1. p \in DOMAIN table /\ a = table[p].parent /\ a \in DOMAIN table
            BY <2>3 DEF Above
        <3>2. p # None /\ a # None BY <3>1, <1>1
        <3>3. table[p].type = "TASK" /\ table[t].type = "SUBTASK"
            BY <3>1, <3>2, <1>6, <1>7
        <3>4. ~ table[p].deleted /\ ~ table[a].deleted BY <3>1, <3>2, <1>6
        <3> QED BY <3>1, <3>3, <3>4, <1>7
    <2> QED BY <2>1, <2>2, <2>3, <1>7 DEF Above
<1>8. ASSUME \/ t \in selected \/ table[t].parent \in selected
             \/ table[t].type = "SUBTASK" /\ table[t].parent \in tasks
      PROVE  \E a \in Above(t, table) \cap S : table[a].type = "EPIC"
    <2>1. CASE t \in selected BY <2>1 DEF Above
    <2>2. CASE table[t].parent \in selected BY <2>2 DEF Above
    <2>3. CASE table[t].parent \in tasks
        <3> DEFINE p == table[t].parent
        <3>1. p \in DOMAIN table /\ table[p].parent \in selected BY <2>3
        <3>2. table[p].parent \in Above(t, table) BY <3>1 DEF Above
        <3> QED BY <3>1, <3>2
    <2> QED BY <2>1, <2>2, <2>3, <1>8
<1> HIDE DEF selected, tasks
<1> QED BY <1>5, <1>7, <1>8

-----------------------------------------------------------------------------
(* Dates *)

LEMMA WeeksHaveSevenDays ==
    ASSUME NEW x \in Int
    PROVE  /\ x \div 7 \in Int /\ x % 7 \in 0 .. 6
           /\ x = 7 * (x \div 7) + (x % 7)
OBVIOUS

LEMMA WeekDayIsOffset ==
    ASSUME NEW d \in Int, NEW today \in Int, NEW w \in 0 .. 6, NEW week \in Week
    PROVE  /\ Monday(today, week) \in Int
           /\ (d % 7 = w /\ InWeek(d, week, today)) <=> d = Monday(today, week) + w
<1>1. /\ d \div 7 \in Int /\ d % 7 \in 0 .. 6 /\ d = 7 * (d \div 7) + (d % 7)
      /\ today \div 7 \in Int /\ today % 7 \in 0 .. 6
      /\ today = 7 * (today \div 7) + (today % 7)
    BY WeeksHaveSevenDays
<1> DEFINE k == IF week = "last" THEN 1 ELSE 0
<1>2. k \in {0, 1} /\ Monday(today, week) = 7 * (today \div 7) - 7 * k
    BY <1>1 DEF Monday, Week
<1>3. ASSUME NEW p \in Int, NEW q \in Int, NEW m \in 0 .. 6, NEW j \in {0, 1}
      PROVE  (m = w /\ q - p = j) <=> 7 * p + m = 7 * q - 7 * j + w
    OBVIOUS
<1>4. InWeek(d, week, today) <=> today \div 7 - d \div 7 = k
    BY DEF InWeek
<1> HIDE DEF k
<1>5. (d % 7 = w /\ today \div 7 - d \div 7 = k)
        <=> 7 * (d \div 7) + (d % 7) = 7 * (today \div 7) - 7 * k + w
    BY <1>1, <1>2, <1>3
<1> QED BY <1>1, <1>2, <1>4, <1>5

LEMMA AnchorIsDay ==
    ASSUME NEW a \in DateAnchor, NEW d \in Int, NEW today \in Int
    PROVE  /\ Anchor(a, today) \in Int
           /\ IsDay(a, d, today) <=> d = Anchor(a, today)
<1>1. CASE a \in [kind : {"fixed_date"}, value : Calendar]
    <2>1. a.kind = "fixed_date" /\ a.value \in Int
        BY <1>1, ListsAssumption DEF Calendar
    <2>2. Anchor(a, today) = a.value /\ (IsDay(a, d, today) <=> d = a.value)
        BY <2>1, Zenon DEF Anchor, IsDay
    <2> QED BY <2>1, <2>2
<1>2. CASE a \in [kind : {"today"}]
    <2>1. a.kind = "today" BY <1>2
    <2>2. Anchor(a, today) = today /\ (IsDay(a, d, today) <=> d = today)
        BY <2>1, Zenon DEF Anchor, IsDay
    <2> QED BY <2>2
<1>3. CASE a \in [kind : {"day_offset"}, days : 1 .. MaxDays, direction : Direction]
    <2>1. a.kind = "day_offset" /\ a.days \in Int
        BY <1>3
    <2>2. Anchor(a, today) = IF a.direction = "past" THEN today - a.days ELSE today + a.days
        BY <2>1, Zenon DEF Anchor
    <2>3. IsDay(a, d, today) <=>
            a.days = IF a.direction = "past" THEN today - d ELSE d - today
        BY <2>1, Zenon DEF IsDay
    <2> QED BY <2>1, <2>2, <2>3
<1>4. CASE a \in [kind : {"week_day"}, week : Week, weekday : 0 .. 6]
    <2>1. a.kind = "week_day" /\ a.week \in Week /\ a.weekday \in 0 .. 6 BY <1>4
    <2>2. Anchor(a, today) = Monday(today, a.week) + a.weekday
        BY <2>1, Zenon DEF Anchor
    <2>3. IsDay(a, d, today) <=> d % 7 = a.weekday /\ InWeek(d, a.week, today)
        BY <2>1, Zenon DEF IsDay
    <2> DEFINE w == a.weekday
               week == a.week
    <2>4. w \in 0 .. 6 /\ week \in Week BY <2>1
    <2>5. IsDay(a, d, today) <=> d % 7 = w /\ InWeek(d, week, today) BY <2>3, Zenon
    <2>6. Anchor(a, today) = Monday(today, week) + w BY <2>2, Zenon
    <2> HIDE DEF w, week
    <2>7. Monday(today, week) \in Int BY <2>4, WeekDayIsOffset
    <2>8. (d % 7 = w /\ InWeek(d, week, today)) <=> d = Monday(today, week) + w
        BY <2>4, WeekDayIsOffset
    <2> QED BY <2>4, <2>5, <2>6, <2>7, <2>8
<1> QED BY <1>1, <1>2, <1>3, <1>4 DEF DateAnchor, SingleDay

LEMMA DayBounds ==
    ASSUME NEW instant \in Int, NEW day \in Int
    PROVE  /\ Day(instant) \in Int /\ StartOf(day) \in Int
           /\ instant >= StartOf(day) <=> Day(instant) >= day
BY DEF Day, StartOf, DayLength, SeoulOffset

\* The values that a condition has once resolved.
ResolvedValues(c, today, actor) ==
    IF c.rule = NoRule THEN c.values
    ELSE IF c.rule.kind = "current_user" THEN <<actor>>
    ELSE IF c.operator = "between" THEN Span(c.rule, today)
    ELSE <<Span(c.rule, today)[1]>>

LEMMA ResolvedParts ==
    ASSUME NEW c, IsCondition(c), NEW today, NEW actor
    PROVE  LET r == Resolved(c, today, actor) IN
           /\ r.field = c.field /\ r.operator = c.operator /\ r.negated = c.negated
           /\ r.rule = NoRule /\ r.values = ResolvedValues(c, today, actor)
<1>1. CASE c.rule = NoRule BY <1>1 DEF Resolved, ResolvedValues
<1>2. CASE c.rule # NoRule
    <2>1. Resolved(c, today, actor) =
            [c EXCEPT !.rule = NoRule, !.values = ResolvedValues(c, today, actor)]
        BY <1>2 DEF Resolved, ResolvedValues
    <2>2. c = [kind |-> "condition", field |-> c.field, operator |-> c.operator,
               values |-> c.values, rule |-> c.rule, negated |-> c.negated]
        BY DEF IsCondition
    <2> QED BY <2>1, <2>2
<1> QED BY <1>1, <1>2

\* Dates that passed the validation lie in the calendar, and in order.
LEMMA DatesAccepted ==
    ASSUME NEW c, c.rule = NoRule, ValidCondition(c), c.field \in DateField,
           c.operator \notin {"is_empty", "is_not_empty"}
    PROVE  /\ c.values[1] \in Calendar /\ c.values[Len(c.values)] \in Calendar
           /\ \/ c.operator \in {"on", "before", "after"} /\ Len(c.values) = 1
              \/ c.operator = "between" /\ Len(c.values) = 2
BY DEF ValidCondition, ValidValues, DateField, ChoiceField, ReferenceField

LEMMA SpanIsPair ==
    ASSUME NEW rule \in Rule, rule.kind # "current_user", NEW today
    PROVE  /\ Span(rule, today) = <<Span(rule, today)[1], Span(rule, today)[2]>>
           /\ Len(Span(rule, today)) = 2
<1>1. CASE rule.kind = "date_range" BY <1>1, Zenon DEF Span
<1>2. CASE rule.kind = "relative_period" BY <1>2, Zenon DEF Span
<1>3. CASE rule.kind = "working_week" BY <1>3, Zenon DEF Span
<1>4. CASE rule.kind \notin {"date_range", "relative_period", "working_week"}
    BY <1>4, Zenon DEF Span
<1> QED BY <1>1, <1>2, <1>3, <1>4

\* A rule covers the days of its span.
LEMMA RuleCoversSpan ==
    ASSUME NEW rule \in Rule, rule.kind # "current_user", NEW c, c.rule = rule,
           NEW today \in Int, NEW d \in Int,
           rule.kind = "date_range" =>
              Span(rule, today)[1] \in Calendar /\ Span(rule, today)[2] \in Calendar
    PROVE  /\ Span(rule, today)[1] \in Int /\ Span(rule, today)[2] \in Int
           /\ rule.kind \notin {"relative_period", "working_week", "date_range"}
                 => Span(rule, today)[1] = Span(rule, today)[2]
           /\ Covers(c, d, today)
                 <=> Span(rule, today)[1] <= d /\ d <= Span(rule, today)[2]
<1>0. rule # NoRule BY DEF Rule, SingleDay, NoRule
<1>1. CASE rule \in SingleDay
    <2>1. rule.kind \in {"today", "day_offset", "week_day"} BY <1>1 DEF SingleDay
    <2>2. Span(rule, today) = <<Anchor(rule, today), Anchor(rule, today)>>
        BY <2>1, Zenon DEF Span
    <2>3. Covers(c, d, today) <=> IsDay(rule, d, today)
        BY <2>1, <1>0, Zenon DEF Covers
    <2>4. Anchor(rule, today) \in Int /\ (IsDay(rule, d, today) <=> d = Anchor(rule, today))
        BY <1>1, AnchorIsDay DEF DateAnchor
    <2> QED BY <2>1, <2>2, <2>3, <2>4
<1>2. CASE rule \in [kind : {"relative_period"}, days : 1 .. MaxDays, direction : Direction]
    <2>1. rule.kind = "relative_period" /\ rule.days \in Int
        <3>1. rule.kind = "relative_period" /\ rule.days \in 1 .. MaxDays BY <1>2
        <3>2. 1 .. MaxDays \subseteq Int BY DEF MaxDays
        <3> QED BY <3>1, <3>2
    <2>2. Span(rule, today) =
            IF rule.direction = "past" THEN <<today - (rule.days - 1), today>>
                                       ELSE <<today, today + (rule.days - 1)>>
        BY <2>1, Zenon DEF Span
    <2>3. Covers(c, d, today) <=>
            (IF rule.direction = "past" THEN today - d ELSE d - today) \in 0 .. rule.days - 1
        BY <2>1, <1>0, Zenon DEF Covers
    <2> QED BY <2>1, <2>2, <2>3
<1>3. CASE rule \in [kind : {"working_week"}, week : Week]
    <2>1. rule.kind = "working_week" /\ rule.week \in Week BY <1>3
    <2>2. Span(rule, today) = <<Monday(today, rule.week), Monday(today, rule.week) + 4>>
        BY <2>1, Zenon DEF Span
    <2>3. Covers(c, d, today) <=> d % 7 \in 0 .. 4 /\ InWeek(d, rule.week, today)
        BY <2>1, <1>0, Zenon DEF Covers
    <2> DEFINE week == rule.week
               w == d % 7
    <2>4. w \in 0 .. 6 BY WeeksHaveSevenDays
    <2> HIDE DEF week, w
    <2>5. week \in Week BY <2>1 DEF week
    <2>6. Monday(today, week) \in Int BY <2>4, <2>5, WeekDayIsOffset
    <2>7. \A x \in 0 .. 6 : (w = x /\ InWeek(d, week, today)) <=> d = Monday(today, week) + x
        BY <2>5, WeekDayIsOffset DEF w
    <2>8. (w \in 0 .. 4 /\ InWeek(d, week, today))
            <=> Monday(today, week) <= d /\ d <= Monday(today, week) + 4
        <3>1. ASSUME w \in 0 .. 4, InWeek(d, week, today)
              PROVE  Monday(today, week) <= d /\ d <= Monday(today, week) + 4
            <4>1. d = Monday(today, week) + w BY <2>4, <2>7, <3>1
            <4> QED BY <4>1, <3>1, <2>6
        <3>2. ASSUME Monday(today, week) <= d, d <= Monday(today, week) + 4
              PROVE  w \in 0 .. 4 /\ InWeek(d, week, today)
            <4> DEFINE x == d - Monday(today, week)
            <4>1. x \in 0 .. 4 /\ d = Monday(today, week) + x BY <3>2, <2>6
            <4> HIDE DEF x
            <4>2. w = x /\ InWeek(d, week, today) BY <4>1, <2>7
            <4> QED BY <4>1, <4>2
        <3> QED BY <3>1, <3>2
    <2>9. Span(rule, today) = <<Monday(today, week), Monday(today, week) + 4>>
        BY <2>2 DEF week
    <2>10. Covers(c, d, today) <=> w \in 0 .. 4 /\ InWeek(d, week, today)
        BY <2>3 DEF week, w
    <2> QED BY <2>1, <2>6, <2>8, <2>9, <2>10
<1>4. CASE rule \in [kind : {"date_range"}, start : DateAnchor, end : DateAnchor]
    <2>1. rule.kind = "date_range" /\ rule.start \in DateAnchor /\ rule.end \in DateAnchor
        BY <1>4
    <2>2. Span(rule, today) = <<Anchor(rule.start, today), Anchor(rule.end, today)>>
        BY <2>1, Zenon DEF Span
    <2>3. Covers(c, d, today) <=>
            /\ \E x \in Calendar : IsDay(rule.start, x, today) /\ x <= d
            /\ \E y \in Calendar : IsDay(rule.end, y, today) /\ d <= y
        BY <2>1, <1>0, Zenon DEF Covers
    <2> DEFINE first == Anchor(rule.start, today)
               last == Anchor(rule.end, today)
    <2>4. first \in Calendar /\ last \in Calendar BY <2>1, <2>2
    <2>5. Calendar \subseteq Int BY ListsAssumption DEF Calendar
    <2>6. \A x \in Calendar : /\ IsDay(rule.start, x, today) <=> x = first
                              /\ IsDay(rule.end, x, today) <=> x = last
        BY <2>1, <2>5, AnchorIsDay
    <2> HIDE DEF first, last
    <2>7. Covers(c, d, today) <=> first <= d /\ d <= last
        <3>1. (\E x \in Calendar : IsDay(rule.start, x, today) /\ x <= d) <=> first <= d
            BY <2>4, <2>6
        <3>2. (\E y \in Calendar : IsDay(rule.end, y, today) /\ d <= y) <=> d <= last
            BY <2>4, <2>6
        <3> QED BY <2>3, <3>1, <3>2
    <2>8. Span(rule, today) = <<first, last>> BY <2>2 DEF first, last
    <2> QED BY <2>1, <2>4, <2>5, <2>7, <2>8
<1> QED BY <1>1, <1>2, <1>3, <1>4 DEF Rule

LEMMA ConditionCoversValues ==
    ASSUME NEW c, IsCondition(c), ValidCondition(c), c.field \in DateField,
           c.operator \notin {"is_empty", "is_not_empty"},
           NEW today \in Int, NEW actor, NEW values,
           values = Resolved(c, today, actor).values,
           ValidCondition(Resolved(c, today, actor))
    PROVE  /\ values[1] \in Calendar /\ values[Len(values)] \in Calendar
           /\ c.operator \in {"before", "after"} => values[1] = values[Len(values)]
           /\ \A d \in Int : Covers(c, d, today) <=> values[1] <= d /\ d <= values[Len(values)]
<1> DEFINE r == Resolved(c, today, actor)
<1>1. /\ r.field = c.field /\ r.operator = c.operator /\ r.rule = NoRule
      /\ values = ResolvedValues(c, today, actor)
    BY ResolvedParts
<1>2. /\ values[1] \in Calendar /\ values[Len(values)] \in Calendar
      /\ \/ c.operator \in {"on", "before", "after"} /\ Len(values) = 1
         \/ c.operator = "between" /\ Len(values) = 2
    <2>1. r.rule = NoRule /\ ValidCondition(r) /\ r.field \in DateField
          /\ r.operator \notin {"is_empty", "is_not_empty"} /\ r.values = values
        BY <1>1
    <2> HIDE DEF r
    <2>2. /\ r.values[1] \in Calendar /\ r.values[Len(r.values)] \in Calendar
          /\ \/ r.operator \in {"on", "before", "after"} /\ Len(r.values) = 1
             \/ r.operator = "between" /\ Len(r.values) = 2
        BY <2>1, DatesAccepted
    <2> QED BY <1>1, <2>1, <2>2
<1>3. CASE c.rule = NoRule
    <2>1. values = c.values BY <1>1, <1>3 DEF ResolvedValues
    <2>2. \A d \in Int : Covers(c, d, today) <=> c.values[1] <= d /\ d <= c.values[Len(c.values)]
        <3>1. c.rule.kind = "none" BY <1>3 DEF NoRule
        <3> QED BY <1>3, <3>1, Zenon DEF Covers
    <2> QED BY <1>2, <2>1, <2>2
<1>4. CASE c.rule # NoRule
    <2> DEFINE rule == c.rule
    <2>1. rule \in Rule BY <1>4 DEF IsCondition
    <2>2. ValidRule(c) BY <1>4 DEF ValidCondition
    <2>3. rule.kind # "current_user"
        BY <2>2, Zenon DEF ValidRule, DateField
    <2>4. c.operator = "between" \/ rule.kind \notin {"relative_period", "working_week", "date_range"}
        BY <2>2, <2>3, Zenon DEF ValidRule
    <2>5. values = IF c.operator = "between" THEN Span(rule, today) ELSE <<Span(rule, today)[1]>>
        BY <1>1, <1>4, <2>3 DEF ResolvedValues
    <2> HIDE DEF rule
    <2>6. /\ Span(rule, today) = <<Span(rule, today)[1], Span(rule, today)[2]>>
          /\ Len(Span(rule, today)) = 2
        BY <2>1, <2>3, SpanIsPair
    <2>7. CASE c.operator = "between"
        <3>1. values[1] = Span(rule, today)[1] /\ values[Len(values)] = Span(rule, today)[2]
            BY <2>5, <2>6, <2>7
        <3>2. \A d \in Int : Covers(c, d, today)
                    <=> Span(rule, today)[1] <= d /\ d <= Span(rule, today)[2]
            BY <1>2, <2>1, <2>3, <3>1, RuleCoversSpan DEF rule
        <3> QED BY <1>2, <2>7, <3>1, <3>2
    <2>8. CASE c.operator # "between"
        <3>1. values[1] = Span(rule, today)[1] /\ values[Len(values)] = Span(rule, today)[1]
            BY <2>5, <2>8
        <3>2. /\ Span(rule, today)[1] = Span(rule, today)[2]
              /\ \A d \in Int : Covers(c, d, today)
                    <=> Span(rule, today)[1] <= d /\ d <= Span(rule, today)[2]
            <4>1. rule.kind \notin {"relative_period", "working_week", "date_range"}
                BY <2>4, <2>8
            <4> QED BY <2>1, <2>3, <4>1, RuleCoversSpan DEF rule
        <3> QED BY <1>2, <3>1, <3>2
    <2> QED BY <2>7, <2>8
<1> QED BY <1>3, <1>4

\* A comparison of stored times finds the days that the condition covers, or
\* those before or after them.
LEMMA DateExpressionFits ==
    ASSUME NEW c, IsCondition(c), ValidCondition(c), c.field \in DateField,
           c.operator \notin {"is_empty", "is_not_empty"},
           NEW today \in Int, NEW actor,
           ValidCondition(Resolved(c, today, actor)), NEW row \in Row
    PROVE  /\ DateExpression(row[c.field], Resolved(c, today, actor)) \in Truths
           /\ DateExpression(row[c.field], Resolved(c, today, actor)) = "true"
                 <=> DateFits(c, DayOf(row, c.field), today)
<1> DEFINE r == Resolved(c, today, actor)
           first == r.values[1]
           last == r.values[Len(r.values)]
           column == row[c.field]
           d == DayOf(row, c.field)
           from == IF r.field = "due_date" THEN first ELSE StartOf(first)
           to == IF r.field = "due_date" THEN last + 1 ELSE StartOf(last + 1)
<1>0. SUFFICES /\ DateExpression(column, r) \in Truths
               /\ DateExpression(column, r) = "true" <=> DateFits(c, d, today)
    OBVIOUS
<1>1. r.field = c.field /\ r.operator = c.operator BY ResolvedParts
<1>2. /\ first \in Calendar /\ last \in Calendar
      /\ c.operator \in {"before", "after"} => first = last
      /\ \A x \in Int : Covers(c, x, today) <=> first <= x /\ x <= last
    BY ConditionCoversValues
<1>3. Calendar \subseteq Int BY ListsAssumption DEF Calendar
<1>4. c.operator = "before" => DateExpression(column, r) = Compared(column, column < from)
    BY <1>1, Zenon DEF DateExpression
<1>5. c.operator = "after" => DateExpression(column, r) = Compared(column, column >= to)
    BY <1>1, Zenon DEF DateExpression
<1>6. c.operator \notin {"before", "after"} =>
        DateExpression(column, r) = Compared(column, from <= column /\ column < to)
    BY <1>1, Zenon DEF DateExpression
<1>7. /\ column \in Int \cup {None}
      /\ d = IF c.field = "due_date" \/ column = None THEN column ELSE Day(column)
    BY DEF DateField, Row, DayOf
<1>8. /\ from = IF c.field = "due_date" THEN first ELSE StartOf(first)
      /\ to = IF c.field = "due_date" THEN last + 1 ELSE StartOf(last + 1)
    BY <1>1
<1> HIDE DEF first, last, column, d, from, to, r
<1>9. first \in Int /\ last \in Int /\ last + 1 \in Int BY <1>2, <1>3
<1>10. from \in Int /\ to \in Int BY <1>8, <1>9, DayBounds
<1>11. CASE column = None
    <2>1. DateExpression(column, r) = "unknown"
        BY <1>4, <1>5, <1>6, <1>11 DEF Compared
    <2>2. ~ DateFits(c, d, today) BY <1>7, <1>11, Zenon DEF DateFits
    <2> QED BY <2>1, <2>2 DEF Truths
<1>12. CASE column # None
    <2>1. column \in Int /\ d \in Int /\ d # None
        BY <1>7, <1>12, DayBounds, ListsAssumption
    <2>2. (column < from <=> d < first) /\ (column >= to <=> last < d)
        <3>1. CASE c.field = "due_date"
            BY <3>1, <1>7, <1>8, <1>9, <2>1
        <3>2. CASE c.field # "due_date"
            <4>1. d = Day(column) /\ from = StartOf(first) /\ to = StartOf(last + 1)
                BY <3>2, <1>7, <1>8, <1>12
            <4>2. /\ column >= from <=> d >= first
                  /\ column >= to <=> d >= last + 1
                BY <4>1, <1>9, <2>1, DayBounds
            <4> QED BY <1>9, <1>10, <2>1, <4>2
        <3> QED BY <3>1, <3>2
    <2>3. (from <= column /\ column < to) <=> (first <= d /\ d <= last)
        BY <1>9, <1>10, <2>1, <2>2
    <2>4. CASE c.operator = "before"
        <3>1. DateExpression(column, r) = Truth(d < first)
            BY <1>4, <1>12, <2>2, <2>4 DEF Compared, Truth
        <3>2. DateFits(c, d, today) <=> \E x \in Calendar : Covers(c, x, today) /\ d < x
            BY <2>1, <2>4, Zenon DEF DateFits
        <3>3. \A x \in Calendar : Covers(c, x, today) <=> x = first
            BY <1>2, <1>3, <1>9, <2>4
        <3> QED BY <1>2, <3>1, <3>2, <3>3 DEF Truth, Truths
    <2>5. CASE c.operator = "after"
        <3>1. DateExpression(column, r) = Truth(last < d)
            BY <1>5, <1>12, <2>2, <2>5 DEF Compared, Truth
        <3>2. DateFits(c, d, today) <=> \E x \in Calendar : Covers(c, x, today) /\ x < d
            BY <2>1, <2>5, Zenon DEF DateFits
        <3>3. \A x \in Calendar : Covers(c, x, today) <=> x = last
            BY <1>2, <1>3, <1>9, <2>5
        <3> QED BY <1>2, <3>1, <3>2, <3>3 DEF Truth, Truths
    <2>6. CASE c.operator \notin {"before", "after"}
        <3>1. DateExpression(column, r) = Truth(first <= d /\ d <= last)
            BY <1>6, <1>12, <2>3, <2>6 DEF Compared, Truth
        <3>2. DateFits(c, d, today) <=> Covers(c, d, today)
            BY <2>1, <2>6, Zenon DEF DateFits
        <3> QED BY <1>2, <2>1, <3>1, <3>2 DEF Truth, Truths
    <2> QED BY <2>4, <2>5, <2>6
<1> QED BY <1>11, <1>12

-----------------------------------------------------------------------------
(* Conditions and filters *)

LEMMA NegationIsNot ==
    ASSUME NEW v \in TwoValued
    PROVE  Negation(v) \in TwoValued /\ (Negation(v) = "true" <=> v # "true")
<1>1. Negation("true") = "false" /\ Negation("false") = "true" BY Zenon DEF Negation
<1> QED BY <1>1 DEF TwoValued

Negative(c) == c.operator \in {"not_in", "not_contains"}

\* A condition in SQL is true of a ticket in use exactly if it holds of it.
LEMMA ConditionHolds ==
    ASSUME NEW table, IsTable(table), NEW t \in DOMAIN table, ~ table[t].deleted,
           NEW c, IsCondition(c), ValidCondition(c),
           NEW today \in Int, NEW actor, actor # None,
           ValidCondition(Resolved(c, today, actor))
    PROVE  /\ ConditionExpression(Resolved(c, today, actor), t, table) \in TwoValued
           /\ ConditionExpression(Resolved(c, today, actor), t, table) = "true"
                 <=> Holds(c, today, actor, t, table)
<1> DEFINE r == Resolved(c, today, actor)
           row == table[t]
           wanted == IF c.rule.kind = "current_user" THEN {actor} ELSE Chosen(c)
<1>1. /\ r.field = c.field /\ r.operator = c.operator /\ r.negated = c.negated
      /\ r.values = ResolvedValues(c, today, actor)
    BY ResolvedParts
<1>2. row \in Row BY DEF IsTable
<1>3. c.field \notin DateField => Chosen(r) = wanted /\ None \notin wanted
    <2> SUFFICES ASSUME c.field \notin DateField PROVE Chosen(r) = wanted /\ None \notin wanted
        OBVIOUS
    <2>1. CASE c.rule = NoRule
        <3>1. c.rule.kind # "current_user" BY <2>1 DEF NoRule
        <3>2. r.values = c.values BY <1>1, <2>1 DEF ResolvedValues
        <3> QED BY <3>1, <3>2 DEF Chosen, IsCondition
    <2>2. CASE c.rule # NoRule
        <3>1. c.rule.kind = "current_user"
            BY <2>2, Zenon DEF ValidCondition, ValidRule
        <3>2. r.values = <<actor>> BY <1>1, <2>2, <3>1 DEF ResolvedValues
        <3>3. Chosen(r) = {actor} BY <3>2 DEF Chosen
        <3> QED BY <3>1, <3>3
    <2> QED BY <2>1, <2>2
<1>4. c.field \in {"search", "epic"} =>
        /\ c.rule.kind # "current_user"
        /\ c.operator \notin {"is_empty", "is_not_empty"}
        /\ c.field \notin DateField
    <2>1. c.field \in {"search", "epic"} => c.rule = NoRule
        BY Zenon DEF ValidCondition, ValidRule, DateField
    <2>2. c.field \in {"search", "epic"} => ValidValues(c)
        BY <2>1 DEF ValidCondition
    <2>3. c.field \in {"search", "epic"} => c.operator \notin {"is_empty", "is_not_empty"}
        BY <2>2 DEF ValidValues, DateField
    <2> QED BY <2>1, <2>3 DEF NoRule, DateField
<1>5. PICK p, q : /\ ConditionExpression(r, t, table) =
                        IF Negative(c) <=> c.negated THEN Coalesced(p)
                                                     ELSE Negation(Coalesced(p))
                  /\ Holds(c, today, actor, t, table) <=> (q <=> (Negative(c) <=> c.negated))
                  /\ p \in Truths /\ q \in BOOLEAN /\ (p = "true" <=> q)
    <2>1. CASE c.operator \in {"is_empty", "is_not_empty"}
        <3> DEFINE q == (row[c.field] = None) <=> (c.operator = "is_empty")
        <3>1. ConditionExpression(r, t, table) =
                IF Negative(c) <=> c.negated THEN Coalesced(Truth(q))
                                             ELSE Negation(Coalesced(Truth(q)))
            BY <1>1, <2>1 DEF ConditionExpression, Negative
        <3>2. Holds(c, today, actor, t, table) <=> (q <=> (Negative(c) <=> c.negated))
            <4>1. CASE c.operator = "is_empty" BY <4>1, Zenon DEF Holds, Negative
            <4>2. CASE c.operator = "is_not_empty" BY <4>2, Zenon DEF Holds, Negative
            <4> QED BY <2>1, <4>1, <4>2
        <3>3. Truth(q) \in Truths /\ q \in BOOLEAN /\ (Truth(q) = "true" <=> q)
            BY DEF Truth, Truths
        <3> HIDE DEF q
        <3> QED BY <3>1, <3>2, <3>3
    <2>2. CASE c.field = "search"
        <3> DEFINE q == Chosen(c) \cap row.words # {}
        <3>1. Chosen(r) = Chosen(c) BY <1>3, <1>4, <2>2
        <3>2. ConditionExpression(r, t, table) =
                IF Negative(c) <=> c.negated THEN Coalesced(Truth(q))
                                             ELSE Negation(Coalesced(Truth(q)))
            <4>1. /\ r.operator \notin {"is_empty", "is_not_empty"} /\ r.field = "search"
                  /\ r.field # "epic" /\ r.field \notin DateField
                BY <1>1, <1>4, <2>2
            <4> HIDE DEF r
            <4> QED BY <1>1, <3>1, <4>1, Zenon DEF ConditionExpression, Negative
        <3>3. Holds(c, today, actor, t, table) <=> (q <=> (Negative(c) <=> c.negated))
            <4>1. /\ c.operator # "is_empty" /\ c.operator # "is_not_empty"
                  /\ c.field # "epic" /\ c.field \notin DateField
                BY <1>4, <2>2
            <4> QED BY <2>2, <4>1, Zenon DEF Holds, Negative
        <3>4. Truth(q) \in Truths /\ q \in BOOLEAN /\ (Truth(q) = "true" <=> q)
            BY DEF Truth, Truths
        <3> HIDE DEF q
        <3> QED BY <3>2, <3>3, <3>4
    <2>3. CASE c.field = "epic"
        <3> DEFINE p == EpicExpression(t, table, wanted)
                   q == \E a \in Above(t, table) \cap wanted : table[a].type = "EPIC"
        <3>1. Chosen(r) = wanted /\ None \notin wanted BY <1>3, <1>4, <2>3
        <3>2. ConditionExpression(r, t, table) =
                IF Negative(c) <=> c.negated THEN Coalesced(p) ELSE Negation(Coalesced(p))
            <4>1. /\ r.operator \notin {"is_empty", "is_not_empty"} /\ r.field = "epic"
                  /\ r.field # "search" /\ r.field \notin DateField
                BY <1>1, <1>4, <2>3
            <4> HIDE DEF r
            <4> QED BY <1>1, <3>1, <4>1, Zenon DEF ConditionExpression, Negative
        <3>3. Holds(c, today, actor, t, table) <=> (q <=> (Negative(c) <=> c.negated))
            <4>1. /\ c.operator # "is_empty" /\ c.operator # "is_not_empty"
                  /\ c.field # "search" /\ c.field \notin DateField
                BY <1>4, <2>3
            <4> QED BY <2>3, <4>1, Zenon DEF Holds, Negative
        <3>4. p \in Truths /\ q \in BOOLEAN /\ (p = "true" <=> q)
            <4> HIDE DEF wanted
            <4> QED BY <3>1, EpicIsAbove
        <3> HIDE DEF p, q
        <3> QED BY <3>2, <3>3, <3>4
    <2>4. CASE c.field \in DateField /\ c.operator \notin {"is_empty", "is_not_empty"}
        <3> DEFINE p == DateExpression(row[c.field], r)
                   q == DateFits(c, DayOf(row, c.field), today)
        <3>1. c.field # "search" /\ c.field # "epic" BY <2>4, <1>4
        <3>2. ConditionExpression(r, t, table) =
                IF Negative(c) <=> c.negated THEN Coalesced(p) ELSE Negation(Coalesced(p))
            <4> HIDE DEF r
            <4> QED BY <1>1, <2>4, <3>1, Zenon DEF ConditionExpression, Negative
        <3>3. Holds(c, today, actor, t, table) <=> (q <=> (Negative(c) <=> c.negated))
            BY <2>4, <3>1, Zenon DEF Holds, Negative
        <3>4. p \in Truths /\ (p = "true" <=> q)
            BY <1>2, <2>4, DateExpressionFits
        <3>5. q \in BOOLEAN BY DEF DateFits
        <3> HIDE DEF p, q
        <3> QED BY <3>2, <3>3, <3>4, <3>5
    <2>5. CASE /\ c.field \notin DateField \cup {"search", "epic"}
               /\ c.operator \notin {"is_empty", "is_not_empty"}
        <3> DEFINE p == InList(row[c.field], wanted)
                   q == row[c.field] \in wanted
        <3>1. Chosen(r) = wanted /\ None \notin wanted BY <1>3, <2>5
        <3>2. ConditionExpression(r, t, table) =
                IF Negative(c) <=> c.negated THEN Coalesced(p) ELSE Negation(Coalesced(p))
            <4> HIDE DEF r
            <4> QED BY <1>1, <2>5, <3>1, Zenon DEF ConditionExpression, Negative
        <3>3. Holds(c, today, actor, t, table) <=> (q <=> (Negative(c) <=> c.negated))
            BY <2>5, Zenon DEF Holds, Negative
        <3>4. p \in Truths /\ q \in BOOLEAN /\ (p = "true" <=> q)
            <4> HIDE DEF wanted
            <4> QED BY <3>1, InListIsMembership
        <3> HIDE DEF p, q
        <3> QED BY <3>2, <3>3, <3>4
    <2> QED BY <2>1, <2>2, <2>3, <2>4, <2>5
<1>6. Coalesced(p) \in TwoValued /\ (Coalesced(p) = "true" <=> p = "true")
    BY <1>5, CoalescedIsTwoValued
<1>7. /\ Negation(Coalesced(p)) \in TwoValued
      /\ Negation(Coalesced(p)) = "true" <=> p # "true"
    BY <1>6, NegationIsNot
<1> HIDE DEF r
<1>8. CASE Negative(c) <=> c.negated BY <1>5, <1>6, <1>8 DEF r
<1>9. CASE ~ (Negative(c) <=> c.negated) BY <1>5, <1>7, <1>9 DEF r
<1> QED BY <1>8, <1>9

\* One node of a filter, in SQL and in meaning, from the values of the others.
NodeValue(value, e, i, today, actor, t, table) ==
    IF e[i].kind = "condition"
    THEN ConditionExpression(Resolved(e[i], today, actor), t, table)
    ELSE LET parts == {value[j] : j \in e[i].children}
             combined == IF e[i].operator = "AND" \/ parts = {}
                         THEN Conjunction(parts) ELSE Disjunction(parts)
         IN  IF e[i].negated THEN Negation(combined) ELSE combined

NodeMeans(means, e, i, today, actor, t, table) ==
    IF e[i].kind = "condition" THEN Holds(e[i], today, actor, t, table)
    ELSE e[i].negated <=>
           ~ (IF e[i].operator = "AND" \/ e[i].children = {}
              THEN \A j \in e[i].children : means[j]
              ELSE \E j \in e[i].children : means[j])

LEMMA NodesAgree ==
    ASSUME NEW table, IsTable(table), NEW t \in DOMAIN table, ~ table[t].deleted,
           NEW today \in Int, NEW actor, actor # None,
           NEW e, IsDocument(e), NEW i \in DOMAIN e,
           e[i].kind = "condition" =>
              ValidCondition(e[i]) /\ ValidCondition(Resolved(e[i], today, actor)),
           NEW value, NEW means,
           \A j \in i + 1 .. Len(e) : value[j] \in TwoValued /\ (means[j] <=> value[j] = "true")
    PROVE  /\ NodeValue(value, e, i, today, actor, t, table) \in TwoValued
           /\ NodeMeans(means, e, i, today, actor, t, table)
                 <=> NodeValue(value, e, i, today, actor, t, table) = "true"
<1>1. CASE e[i].kind = "condition"
    <2>1. IsCondition(e[i]) BY <1>1 DEF IsDocument
    <2>2. /\ NodeValue(value, e, i, today, actor, t, table)
                = ConditionExpression(Resolved(e[i], today, actor), t, table)
          /\ NodeMeans(means, e, i, today, actor, t, table)
                <=> Holds(e[i], today, actor, t, table)
        BY <1>1, Zenon DEF NodeValue, NodeMeans
    <2> QED BY <1>1, <2>1, <2>2, ConditionHolds
<1>2. CASE e[i].kind # "condition"
    <2>1. /\ e[i].children \subseteq i + 1 .. Len(e) /\ e[i].negated \in BOOLEAN
          /\ e[i].operator \in {"AND", "OR"}
        BY <1>2 DEF IsDocument, IsGroup
    <2> DEFINE C == e[i].children
               parts == {value[j] : j \in C}
               combined == IF e[i].operator = "AND" \/ parts = {}
                           THEN Conjunction(parts) ELSE Disjunction(parts)
               meant == IF e[i].operator = "AND" \/ C = {}
                        THEN \A j \in C : means[j] ELSE \E j \in C : means[j]
    <2>2. /\ parts \subseteq TwoValued /\ parts \subseteq Truths
          /\ parts \subseteq {"true"} <=> \A j \in C : means[j]
          /\ "true" \in parts <=> \E j \in C : means[j]
          /\ parts = {} <=> C = {}
        BY <2>1 DEF TwoValued, Truths
    <2>3. combined \in TwoValued /\ (combined = "true" <=> meant)
        <3>1. /\ Conjunction(parts) \in TwoValued
              /\ Conjunction(parts) = "true" <=> \A j \in C : means[j]
            <4> HIDE DEF parts, C
            <4> QED BY <2>2, ConjunctionIsAnd
        <3>2. /\ Disjunction(parts) \in TwoValued
              /\ Disjunction(parts) = "true" <=> \E j \in C : means[j]
            <4> HIDE DEF parts, C
            <4> QED BY <2>2, DisjunctionIsOr
        <3> HIDE DEF parts, C
        <3> QED BY <2>2, <3>1, <3>2
    <2>4. NodeValue(value, e, i, today, actor, t, table) =
            IF e[i].negated THEN Negation(combined) ELSE combined
        BY <1>2 DEF NodeValue
    <2>5. NodeMeans(means, e, i, today, actor, t, table) <=> (e[i].negated <=> ~ meant)
        BY <1>2 DEF NodeMeans
    <2> HIDE DEF combined, meant
    <2>6. Negation(combined) \in TwoValued /\ (Negation(combined) = "true" <=> ~ meant)
        BY <2>3, NegationIsNot
    <2> QED BY <2>1, <2>3, <2>4, <2>5, <2>6
<1> QED BY <1>1, <1>2

\* There is a function that gives each node its value.
LEMMA ValuesExist ==
    ASSUME NEW e, IsDocument(e), NEW today, NEW actor, NEW t, NEW table
    PROVE  \E value : value = [i \in DOMAIN e |->
                                  NodeValue(value, e, i, today, actor, t, table)]
<1> DEFINE Solves(v, i) ==
                \A k \in i .. Len(e) : v[k] = NodeValue(v, e, k, today, actor, t, table)
           K == {i \in DOMAIN e : \E v : Solves(v, i)}
<1>1. Len(e) \in Nat \ {0} /\ DOMAIN e = 1 .. Len(e) BY DEF IsDocument
<1>2. ASSUME NEW v, NEW w, NEW k \in DOMAIN e, \A j \in k + 1 .. Len(e) : v[j] = w[j]
      PROVE  NodeValue(v, e, k, today, actor, t, table)
                = NodeValue(w, e, k, today, actor, t, table)
    <2>1. CASE e[k].kind = "condition" BY <2>1 DEF NodeValue
    <2>2. CASE e[k].kind # "condition"
        <3>1. e[k].children \subseteq k + 1 .. Len(e) BY <2>2 DEF IsDocument
        <3>2. {v[j] : j \in e[k].children} = {w[j] : j \in e[k].children} BY <1>2, <3>1
        <3> QED BY <2>2, <3>2 DEF NodeValue
    <2> QED BY <2>1, <2>2
<1>3. ASSUME NEW i \in DOMAIN e, i + 1 .. Len(e) \subseteq K PROVE i \in K
    <2>1. PICK v : Solves(v, i + 1)
        <3>1. CASE i = Len(e) BY <1>1, <3>1
        <3>2. CASE i # Len(e)
            <4>1. i + 1 \in i + 1 .. Len(e) BY <1>1, <3>2
            <4>2. i + 1 \in K BY <1>3, <4>1
            <4> QED BY <4>2
        <3> QED BY <3>1, <3>2
    <2> DEFINE w == [k \in i .. Len(e) |->
                        IF k = i THEN NodeValue(v, e, i, today, actor, t, table) ELSE v[k]]
    <2>2. ASSUME NEW k \in i .. Len(e)
          PROVE  w[k] = NodeValue(w, e, k, today, actor, t, table)
        <3>1. \A j \in k + 1 .. Len(e) : w[j] = v[j] BY <1>1
        <3>2. k \in DOMAIN e BY <1>1
        <3> HIDE DEF w
        <3>3. NodeValue(w, e, k, today, actor, t, table)
                = NodeValue(v, e, k, today, actor, t, table)
            BY <1>2, <3>1, <3>2
        <3> USE DEF w
        <3>4. CASE k = i BY <3>3, <3>4
        <3>5. CASE k # i
            <4>1. k \in i + 1 .. Len(e) BY <1>1, <3>5
            <4>2. w[k] = v[k] BY <3>5
            <4> HIDE DEF w
            <4> QED BY <2>1, <3>3, <4>1, <4>2
        <3> QED BY <3>4, <3>5
    <2> HIDE DEF w
    <2> QED BY <2>2
<1>4. PICK v : Solves(v, 1)
    <2>1. DOMAIN e \subseteq K
        <3> HIDE DEF K
        <3> QED BY <1>3, FromTheLastNode
    <2>2. 1 \in K BY <1>1, <2>1
    <2> QED BY <2>2
<1> DEFINE f == [k \in DOMAIN e |-> v[k]]
<1>5. ASSUME NEW k \in DOMAIN e PROVE v[k] = NodeValue(f, e, k, today, actor, t, table)
    <2>1. \A j \in k + 1 .. Len(e) : v[j] = f[j] BY <1>1
    <2> HIDE DEF f
    <2>2. NodeValue(v, e, k, today, actor, t, table) = NodeValue(f, e, k, today, actor, t, table)
        BY <1>2, <2>1
    <2> QED BY <1>1, <1>4, <2>2
<1>6. f = [k \in DOMAIN e |-> NodeValue(f, e, k, today, actor, t, table)]
    BY <1>5
<1> HIDE DEF f
<1> QED BY <1>6

\* What is asked of a filter, and found when its dates are fixed, makes the SQL
\* select a ticket in use exactly if the filter means it.
THEOREM SelectedIsMeant ==
    ASSUME NEW table, IsTable(table), NEW t \in DOMAIN table, ~ table[t].deleted,
           NEW today \in Int, NEW actor, actor # None,
           NEW e, IsDocument(e), ValidFilter(e), Resolvable(e, today, actor)
    PROVE  Selected(e, today, actor, t, table) <=> Means(e, today, actor, t, table)
<1> DEFINE V(v, i) == NodeValue(v, e, i, today, actor, t, table)
           M(m, i) == NodeMeans(m, e, i, today, actor, t, table)
           value == CHOOSE v : v = [i \in DOMAIN e |-> V(v, i)]
           means == CHOOSE m : m = [i \in DOMAIN e |-> M(m, i)]
<1>1. /\ Selected(e, today, actor, t, table) <=> value[1] = "true"
      /\ Means(e, today, actor, t, table) <=> means[1]
    BY DEF Selected, Expression, Means, NodeValue, NodeMeans
<1>2. Len(e) \in Nat \ {0} /\ DOMAIN e = 1 .. Len(e) BY DEF IsDocument
<1>3. \A i \in DOMAIN e : e[i].kind = "condition" =>
        ValidCondition(e[i]) /\ ValidCondition(Resolved(e[i], today, actor))
    BY DEF ValidFilter, Resolvable, Conditions
<1>4. value = [i \in DOMAIN e |-> V(value, i)] BY ValuesExist
<1>5. ASSUME NEW v, v = [i \in DOMAIN e |-> V(v, i)], NEW m,
             \A i \in DOMAIN e : (\A j \in i + 1 .. Len(e) :
                    v[j] \in TwoValued /\ (m[j] <=> v[j] = "true")) => (m[i] <=> M(m, i))
      PROVE  \A i \in DOMAIN e : v[i] \in TwoValued /\ (m[i] <=> v[i] = "true")
    <2> DEFINE K == {i \in DOMAIN e : v[i] \in TwoValued /\ (m[i] <=> v[i] = "true")}
    <2>1. ASSUME NEW i \in DOMAIN e, i + 1 .. Len(e) \subseteq K PROVE i \in K
        <3>1. \A j \in i + 1 .. Len(e) : v[j] \in TwoValued /\ (m[j] <=> v[j] = "true")
            BY <2>1
        <3>2. V(v, i) \in TwoValued /\ (M(m, i) <=> V(v, i) = "true")
            BY <1>3, <3>1, NodesAgree
        <3> QED BY <1>5, <3>1, <3>2
    <2>2. DOMAIN e \subseteq K
        <3> HIDE DEF K
        <3> QED BY <2>1, FromTheLastNode
    <2> QED BY <2>2
<1> HIDE DEF value
<1> DEFINE meant == [i \in DOMAIN e |-> value[i] = "true"]
<1>6. \A j \in DOMAIN e : meant[j] <=> value[j] = "true" OBVIOUS
<1>7. meant = [i \in DOMAIN e |-> M(meant, i)]
    <2>1. \A i \in DOMAIN e : value[i] \in TwoValued
        <3> DEFINE K == {i \in DOMAIN e : value[i] \in TwoValued}
        <3>1. ASSUME NEW i \in DOMAIN e, i + 1 .. Len(e) \subseteq K PROVE i \in K
            <4>1. \A j \in i + 1 .. Len(e) : j \in DOMAIN e /\ value[j] \in TwoValued
                BY <3>1
            <4> HIDE DEF meant
            <4>2. \A j \in i + 1 .. Len(e) :
                    value[j] \in TwoValued /\ (meant[j] <=> value[j] = "true")
                BY Zenon, <1>6, <4>1
            <4>3. V(value, i) \in TwoValued BY <1>3, <4>2, NodesAgree
            <4> QED BY <1>4, <4>3
        <3>2. DOMAIN e \subseteq K
            <4> HIDE DEF K
            <4> QED BY <3>1, FromTheLastNode
        <3> QED BY <3>2
    <2>2. ASSUME NEW i \in DOMAIN e PROVE (value[i] = "true") = M(meant, i)
        <3>1. \A j \in i + 1 .. Len(e) : j \in DOMAIN e /\ value[j] \in TwoValued
            BY <1>2, <2>1
        <3> HIDE DEF meant
        <3>2. \A j \in i + 1 .. Len(e) :
                value[j] \in TwoValued /\ (meant[j] <=> value[j] = "true")
            BY Zenon, <1>6, <3>1
        <3>3. M(meant, i) <=> V(value, i) = "true" BY <1>3, <3>2, NodesAgree
        <3>4. M(meant, i) \in BOOLEAN BY DEF NodeMeans, Holds
        <3> QED BY <1>4, <3>3, <3>4
    <2> QED BY <2>2
<1>8. means = [i \in DOMAIN e |-> M(means, i)]
    <2> HIDE DEF meant
    <2> QED BY <1>7
<1> HIDE DEF means
<1>9. \A i \in DOMAIN e : means[i] <=> M(means, i) BY <1>8
<1>10. means[1] <=> value[1] = "true"
    <2>1. \A i \in DOMAIN e : value[i] \in TwoValued /\ (means[i] <=> value[i] = "true")
        BY <1>4, <1>5, <1>9
    <2> QED BY <1>2, <2>1
<1> QED BY <1>1, <1>10

-----------------------------------------------------------------------------
(* What is known of the tables and of a request at every moment *)

Accepted(r) ==
    /\ r.query \in DOMAIN Definition
    /\ r.kind \in {"list", "board"}
    /\ ValidFilter(Definition[r.query].expression)

Inv ==
    /\ IsTable(rows)
    /\ now \in Int
    /\ request.phase \in {"idle", "admitted", "resolved", "answered"}
    /\ request.phase \in {"admitted", "resolved"} => Accepted(request)
    /\ request.phase = "resolved" =>
          /\ request.today \in Int
          /\ Resolvable(Definition[request.query].expression, request.today, Reader)

LEMMA InitInv == Init => Inv
BY ListsAssumption, FirstRowsAssumption DEF Init, Inv, IsTable, Idle

LEMMA DayIsInt == ASSUME NEW i \in Int PROVE Day(i) \in Int
BY DEF Day, SeoulOffset, DayLength

\* A change of one field leaves a ticket a ticket.
LEMMA ChangedTicketIsRow ==
    ASSUME NEW r \in Row, NEW at \in Int, NEW field, NEW value,
           \/ field = "status" /\ value \in {"TODO", "DONE"}
           \/ field = "assignee" /\ value \in User \cup {None}
           \/ field = "parent" /\ value \in Nat \cup {None}
    PROVE  [[r EXCEPT ![field] = value] EXCEPT !.updated_date = at] \in Row
<1>1. CASE field = "status" BY <1>1 DEF Row, Status
<1>2. CASE field = "assignee" BY <1>2 DEF Row
<1>3. CASE field = "parent" BY <1>3 DEF Row
<1> QED BY <1>1, <1>2, <1>3

LEMMA RowsStayATable ==
    ASSUME Inv, Surroundings PROVE IsTable(rows') /\ now' \in Int
<1> USE DEF Inv
<1>1. ASSUME NEW t \in DOMAIN rows, NEW field, NEW value, ChangeTicket(t, field, value),
             \/ field = "status" /\ value \in {"TODO", "DONE"}
             \/ field = "assignee" /\ value \in User \cup {None}
             \/ field = "parent" /\ value \in DOMAIN rows \cup {None}
      PROVE  IsTable(rows') /\ now' = now
    <2> DEFINE r == [[rows[t] EXCEPT ![field] = value] EXCEPT !.updated_date = now]
    <2>1. r \in Row BY <1>1, ChangedTicketIsRow DEF IsTable
    <2>2. rows' = [rows EXCEPT ![t] = r] BY <1>1 DEF ChangeTicket, IsTable
    <2> HIDE DEF r
    <2> QED BY <1>1, <2>1, <2>2 DEF IsTable, ChangeTicket
<1>2. ASSUME NEW S \in SUBSET DOMAIN rows, MoveTickets(S) PROVE IsTable(rows') /\ now' = now
    <2>1. \A r \in Row : [r EXCEPT !.deleted = ~ @, !.updated_date = now] \in Row
        BY DEF Row
    <2> QED BY <1>2, <2>1 DEF IsTable, MoveTickets
<1>3. CASE \E i \in Clock : i > now /\ now' = i /\ UNCHANGED <<rows, access>>
    BY <1>3, ListsAssumption
<1>4. CASE \E a \in Access \ {access} : access' = a /\ UNCHANGED <<rows, now>>
    BY <1>4
<1> QED BY <1>1, <1>2, <1>3, <1>4 DEF Surroundings

LEMMA NextInv == Inv /\ [Next]_vars => Inv'
<1> SUFFICES ASSUME Inv, [Next]_vars PROVE Inv' OBVIOUS
<1>1. CASE Surroundings
    <2>1. request' = request BY <1>1 DEF Surroundings
    <2> QED BY <1>1, <2>1, RowsStayATable DEF Inv, Accepted
<1>2. ASSUME NEW kind \in {"list", "board"}, NEW i \in DOMAIN Definition, Ask(kind, i)
      PROVE  Inv'
    BY <1>2 DEF Ask, Inv, Accepted
<1>3. CASE Check
    BY <1>3, DayIsInt DEF Check, Inv, Accepted, Idle
<1>4. CASE ReadList BY <1>4 DEF ReadList, Inv, Accepted
<1>5. CASE ReadBoard BY <1>5 DEF ReadBoard, Inv, Accepted
<1>6. CASE UNCHANGED vars BY <1>6 DEF vars, Inv, Accepted
<1> QED BY <1>1, <1>2, <1>3, <1>4, <1>5, <1>6 DEF Next

\* At every moment the tickets are in place below their parents, and a request
\* that was admitted has a filter that can be turned into SQL: until its rows are
\* read, whatever changes meanwhile (service get_project_ticket_list, get_ticket_board).
THEOREM RequestsAreValid == Spec => []Inv
<1> QED BY InitInv, NextInv, PTL DEF Spec

-----------------------------------------------------------------------------
(* The answers *)

\* Only the last statement of a request answers it, and leaves all else alone.
LEMMA Answering ==
    ASSUME Inv, [Next]_vars, request'.phase = "answered", request.phase = "resolved"
    PROVE  /\ ReadList \/ ReadBoard
           /\ request'.found = Matching
<1>1. ~ Surroundings /\ request' # request
    <2>1. request' # request OBVIOUS
    <2> QED BY <2>1 DEF Surroundings
<1>2. ~ Check BY DEF Check
<1>3. \A kind, i : ~ Ask(kind, i) BY DEF Ask
<1>4. ReadList \/ ReadBoard BY <1>1, <1>2, <1>3 DEF Next, vars
<1> QED BY <1>4 DEF ReadList, ReadBoard

LEMMA MatchingIsMeant ==
    ASSUME Inv, request.phase = "resolved"
    PROVE  Matching = {t \in InUse :
                /\ access = "member" \/ request.override
                /\ Means(Definition[request.query].expression, request.today, Reader, t, rows)}
<1> DEFINE e == Definition[request.query].expression
<1>1. /\ IsDocument(e) /\ ValidFilter(e) /\ Resolvable(e, request.today, Reader)
      /\ request.today \in Int /\ IsTable(rows)
    BY DefinitionAssumption DEF Inv, Accepted
<1>2. Reader # None BY ListsAssumption DEF User
<1>3. ASSUME NEW t \in InUse
      PROVE  Selected(e, request.today, Reader, t, rows) <=> Means(e, request.today, Reader, t, rows)
    <2>1. t \in DOMAIN rows /\ ~ rows[t].deleted BY DEF InUse
    <2> HIDE DEF e
    <2> QED BY <1>1, <1>2, <2>1, SelectedIsMeant
<1> QED BY <1>3 DEF Matching, InScope

\* What a list and a board find is what the filter means.
THEOREM ListsMeanTheFilter == Spec => AnswersMeanTheFilter
<1>1. Inv /\ [Next]_vars =>
        (request'.phase = "answered" /\ request.phase = "resolved" =>
          request'.found =
            {t \in InUse : /\ access = "member" \/ request.override
                           /\ Means(Definition[request.query].expression, request.today,
                                    Reader, t, rows)})
    BY Answering, MatchingIsMeant
<1> QED BY <1>1, RequestsAreValid, PTL DEF Spec, AnswersMeanTheFilter

-----------------------------------------------------------------------------
(* The dashboard *)

LEMMA CountsAreOfTheLists == ASSUME Inv PROVE DashboardAgreesWithLists
<1> DEFINE today == Day(now)
           weekEnd == today + (6 - (today % 7))
           open == {t \in Accessible : Mine(Reader, t) /\ rows[t].status \in OpenStatus}
           dated == {t \in open : rows[t].due_date # None}
<1>1. /\ Dashboard.open_mine = Cardinality(open)
      /\ Dashboard.overdue = Cardinality({t \in dated : rows[t].due_date < today})
      /\ Dashboard.due_this_week = Cardinality({t \in dated : rows[t].due_date \in today .. weekEnd})
    BY DEF Dashboard, DashboardCounts
<1>2. \A t \in Accessible : rows[t].status \in OpenStatus <=> rows[t].status \notin {"DONE", "CANCELLED"}
    <2>1. \A t \in Accessible : rows[t] \in Row BY DEF Inv, IsTable, Accessible, InUse
    <2> QED BY <2>1 DEF Row, Status, OpenStatus
<1>3. ASSUME NEW due \in {"all", "overdue", "this_week"}
      PROVE  GlobalList("mine", "open", due) =
                {t \in open : /\ due # "all" => rows[t].due_date # None
                              /\ due = "overdue" => rows[t].due_date < today
                              /\ due = "this_week" => rows[t].due_date \in today .. weekEnd}
    <2> HIDE DEF today, weekEnd
    <2>1. GlobalList("mine", "open", due) = GlobalRows("mine", "open", due, today, weekEnd)
        BY DEF GlobalList, today, weekEnd
    <2> QED BY <1>2, <2>1 DEF GlobalRows
<1> HIDE DEF today, weekEnd
<1>4. GlobalList("mine", "open", "all") = open BY <1>3
<1>5. GlobalList("mine", "open", "overdue") = {t \in dated : rows[t].due_date < today}
    BY <1>3
<1>6. GlobalList("mine", "open", "this_week") =
        {t \in dated : rows[t].due_date \in today .. weekEnd}
    BY <1>3
<1> QED BY <1>1, <1>4, <1>5, <1>6 DEF DashboardAgreesWithLists

\* The numbers of the dashboard are those of the lists behind them, for any
\* tickets, user and day.
THEOREM DashboardCountsTheLists == Spec => []DashboardAgreesWithLists
<1> QED BY CountsAreOfTheLists, RequestsAreValid, PTL

-----------------------------------------------------------------------------
(* Pages *)

\* In a strict total order of a finite set, the numbers of elements before each
\* are 0, 1, ... up to the last.
LEMMA RanksCountUp ==
    ASSUME NEW S, IsFiniteSet(S), NEW before \in [S -> SUBSET S],
           \A t \in S : t \notin before[t],
           \A s, t \in S : s \in before[t] => before[s] \subseteq before[t],
           \A s, t \in S : s = t \/ s \in before[t] \/ t \in before[s],
           NEW rank, rank = [t \in S |-> Cardinality(before[t])]
    PROVE  /\ rank \in Bijection(S, 0 .. Cardinality(S) - 1)
           /\ \A s, t \in S : s \in before[t] <=> rank[s] < rank[t]
<1>1. \A t \in S : rank[t] \in Nat /\ IsFiniteSet(before[t])
    BY FS_Subset, FS_CardinalityType
<1>2. \A s, t \in S : s \in before[t] => rank[s] < rank[t]
    <2> SUFFICES ASSUME NEW s \in S, NEW t \in S, s \in before[t] PROVE rank[s] < rank[t]
        OBVIOUS
    <2>1. before[s] \subseteq before[t] /\ before[s] # before[t] OBVIOUS
    <2>2. /\ Cardinality(before[s]) <= Cardinality(before[t])
          /\ Cardinality(before[s]) # Cardinality(before[t])
        BY <1>1, <2>1, FS_Subset
    <2> QED BY <1>1, <2>2
<1>3. \A s, t \in S : s \in before[t] <=> rank[s] < rank[t]
    BY <1>1, <1>2
<1>4. Cardinality(S) \in Nat BY FS_CardinalityType
<1>5. \A t \in S : rank[t] < Cardinality(S)
    <2> SUFFICES ASSUME NEW t \in S PROVE rank[t] < Cardinality(S) OBVIOUS
    <2>1. before[t] \subseteq S /\ before[t] # S OBVIOUS
    <2>2. Cardinality(before[t]) <= Cardinality(S) /\ Cardinality(before[t]) # Cardinality(S)
        BY <2>1, FS_Subset
    <2> QED BY <1>1, <1>4, <2>2
<1> DEFINE N == 0 .. Cardinality(S) - 1
<1>6. rank \in [S -> N] BY <1>1, <1>4, <1>5
<1>7. \A s, t \in S : rank[s] = rank[t] => s = t BY <1>1, <1>2
<1>8. rank \in Injection(S, N)
    <2> HIDE DEF N
    <2> QED BY <1>6, <1>7, Fun_IsInj
<1>9. IsFiniteSet(N) /\ Cardinality(N) = Cardinality(S)
    <2>1. Cardinality(S) - 1 \in Int BY <1>4
    <2> QED BY <1>4, <2>1, FS_Interval
<1>10. rank \in Surjection(S, N)
    <2> HIDE DEF N
    <2> QED BY <1>8, <1>9, FS_Injection
<1>11. rank \in Bijection(S, N)
    <2> HIDE DEF N
    <2> QED BY <1>8, <1>10, Fun_IsBij
<1> QED BY <1>3, <1>11

LEMMA Quotient ==
    ASSUME NEW a \in Nat, NEW b \in Nat \ {0}
    PROVE  a \div b \in Nat /\ (a \div b) * b <= a /\ a < (a \div b) * b + b
OBVIOUS

LEMMA ProductGrows ==
    ASSUME NEW a \in Int, NEW b \in Int, NEW k \in Nat \ {0}
    PROVE  /\ a < b => a * k < b * k /\ a * k <= (b - 1) * k
           /\ a * k < b * k => a < b
OBVIOUS

Places(p, k) == (p - 1) * k .. p * k - 1

\* The places of the pages cover the numbers below n.
LEMMA PlacesOfPages ==
    ASSUME NEW n \in Nat, NEW k \in Nat \ {0},
           NEW last, last = (n + k - 1) \div k
    PROVE  /\ last \in Nat
           /\ \A r \in 0 .. n - 1 : \E p \in 1 .. last : r \in Places(p, k)
           /\ \A p \in 1 .. last : p * k <= n =>
                 /\ Places(p, k) \subseteq 0 .. n - 1
                 /\ IsFiniteSet(Places(p, k)) /\ Cardinality(Places(p, k)) = k
<1>1. last \in Nat /\ n + k - 1 < last * k + k
    BY Quotient
<1>2. n <= last * k
    <2>1. last * k \in Nat BY <1>1
    <2> QED BY <1>1, <2>1
<1>3. ASSUME NEW r \in 0 .. n - 1
      PROVE  \E p \in 1 .. last : r \in Places(p, k)
    <2> DEFINE d == r \div k
    <2>1. d \in Nat /\ d * k <= r /\ r < d * k + k BY Quotient
    <2> HIDE DEF d
    <2>2. d * k \in Int /\ (d + 1) * k = d * k + k /\ last * k \in Int BY <1>1, <2>1
    <2>3. d * k < last * k BY <1>2, <2>1, <2>2
    <2>4. d < last BY <1>1, <2>1, <2>3, ProductGrows
    <2>5. \E p \in 1 .. last : p = d + 1 BY <1>1, <2>1, <2>4
    <2>6. PICK p \in 1 .. last : p = d + 1 BY <2>5
    <2>7. (p - 1) * k <= r /\ r < p * k /\ (p - 1) * k \in Int /\ p * k \in Int
        <3>1. p - 1 = d BY <2>1, <2>6
        <3> QED BY <2>1, <2>2, <2>6, <3>1
    <2> QED BY <2>6, <2>7 DEF Places
<1>4. ASSUME NEW p \in 1 .. last
      PROVE  (p - 1) * k \in Nat /\ p * k \in Nat /\ p * k = (p - 1) * k + k
    BY <1>1
<1>5. ASSUME NEW p \in 1 .. last, p * k <= n
      PROVE  /\ Places(p, k) \subseteq 0 .. n - 1
             /\ IsFiniteSet(Places(p, k)) /\ Cardinality(Places(p, k)) = k
    <2> DEFINE a == (p - 1) * k
               b == p * k - 1
    <2>1. a \in Nat /\ b \in Int /\ b = a + k - 1 /\ b <= n - 1 BY <1>4, <1>5
    <2>2. Places(p, k) = a .. b BY DEF Places
    <2> HIDE DEF a, b
    <2>3. IsFiniteSet(a .. b) /\ Cardinality(a .. b) = k
        <3>1. a \in Int /\ b \in Int /\ ~ (a > b) /\ b - a + 1 = k BY <2>1
        <3> QED BY <3>1, FS_Interval
    <2> QED BY <2>1, <2>2, <2>3
<1> QED BY <1>1, <1>3, <1>5

LEMMA PlacesInOrder ==
    ASSUME NEW k \in Nat \ {0}, NEW p \in Int, NEW q \in Int, p < q,
           NEW x \in Places(p, k), NEW y \in Places(q, k)
    PROVE  x < y
<1> DEFINE a == p * k
           b == (q - 1) * k
<1>1. a \in Int /\ b \in Int /\ a <= b BY ProductGrows
<1>2. x \in Int /\ x <= a - 1 BY DEF Places
<1>3. y \in Int /\ b <= y BY DEF Places
<1> HIDE DEF a, b
<1> QED BY <1>1, <1>2, <1>3

\* The pages hold the elements whose ranks are among their places.
FilledByRank(pages, P, place, rank, S) ==
    \A p \in P : pages[p] = {t \in S : rank[t] \in place[p]}

LEMMA PagesOfRanks ==
    ASSUME NEW S, IsFiniteSet(S), NEW n, NEW rank \in Bijection(S, 0 .. n - 1),
           NEW P, NEW place, NEW pages, FilledByRank(pages, P, place, rank, S),
           \A r \in 0 .. n - 1 : \E p \in P : r \in place[p]
    PROVE  /\ UNION {pages[p] : p \in P} = S
           /\ \A p \in P : place[p] \subseteq 0 .. n - 1 =>
                 Cardinality(pages[p]) = Cardinality(place[p])
<1> USE DEF FilledByRank
<1>1. /\ rank \in [S -> 0 .. n - 1]
      /\ \A s, t \in S : rank[s] = rank[t] => s = t
      /\ \A r \in 0 .. n - 1 : \E t \in S : rank[t] = r
    <2> DEFINE N == 0 .. n - 1
    <2>1. rank \in Bijection(S, N) OBVIOUS
    <2> HIDE DEF N
    <2>2. rank \in Injection(S, N) /\ rank \in Surjection(S, N)
        BY <2>1, Fun_BijectionProperties
    <2>3. /\ rank \in [S -> N]
          /\ \A s, t \in S : rank[s] = rank[t] => s = t
          /\ \A r \in N : \E t \in S : rank[t] = r
        BY <2>2, Fun_InjectionProperties, Fun_SurjectionProperties
    <2> QED BY <2>3 DEF N
<1>2. ASSUME NEW p \in P, place[p] \subseteq 0 .. n - 1
      PROVE  Cardinality(pages[p]) = Cardinality(place[p])
    <2> DEFINE f == [t \in pages[p] |-> rank[t]]
    <2>1. f \in [pages[p] -> place[p]] /\ \A s, t \in pages[p] : f[s] = f[t] => s = t
        BY <1>1
    <2>2. \A r \in place[p] : \E t \in pages[p] : f[t] = r
        BY <1>1, <1>2
    <2>3. f \in Bijection(pages[p], place[p])
        <3> HIDE DEF f
        <3> QED BY <2>1, <2>2, Fun_IsBij
    <2>4. IsFiniteSet(pages[p])
        <3>1. pages[p] \subseteq S OBVIOUS
        <3> QED BY <3>1, FS_Subset
    <2> QED BY <2>3, <2>4, FS_Bijection, Fun_ExistsBij
<1>3. UNION {pages[p] : p \in P} = S BY <1>1
<1> QED BY <1>2, <1>3

LEMMA SmallerPairs ==
    ASSUME NEW a \in Int, NEW b \in Int, NEW c \in Int, NEW d \in Int
    PROVE  Smaller(<<a, b>>, <<c, d>>) <=> a < c \/ (a = c /\ b < d)
<1> DEFINE v == <<a, b>>
           w == <<c, d>>
<1>1. DOMAIN v = {1, 2} /\ v[1] = a /\ v[2] = b /\ w[1] = c /\ w[2] = d OBVIOUS
<1> HIDE DEF v, w
<1>2. Smaller(v, w) <=> \E k \in {1, 2} : v[k] < w[k] /\ \A j \in 1 .. k - 1 : v[j] = w[j]
    BY <1>1 DEF Smaller
<1>3. 1 .. 1 - 1 = {} /\ 1 .. 2 - 1 = {1} OBVIOUS
<1>4. Smaller(v, w) <=> a < c \/ (a = c /\ b < d) BY <1>1, <1>2, <1>3
<1> QED BY <1>4 DEF v, w
\* Two tickets are never equal in the order of a list.
LEMMA OrderOfTickets ==
    ASSUME Inv, NEW q, q.sort_by \in SortField, q.sort_direction \in {"asc", "desc"},
           NEW S \in SUBSET DOMAIN rows
    PROVE  /\ \A t \in S : ~ Precedes(q, t, t)
           /\ \A s, t, x \in S : Precedes(q, x, s) /\ Precedes(q, s, t) => Precedes(q, x, t)
           /\ \A s, t \in S : s = t \/ Precedes(q, s, t) \/ Precedes(q, t, s)
           /\ \A s, t \in S : Precedes(q, s, t) /\ Undated(q, s) => Undated(q, t)
<1> DEFINE v(t) == SortValue(q, t)
           u(t) == Undated(q, t)
           less(s, t) == v(s) < v(t) \/ (v(s) = v(t) /\ s < t)
<1>1. \A t \in S : t \in Int /\ v(t) \in Int
    <2> SUFFICES ASSUME NEW t \in S PROVE t \in Int /\ v(t) \in Int OBVIOUS
    <2>1. rows[t] \in Row /\ t \in Nat BY DEF Inv, IsTable
    <2>2. CASE q.sort_by = "priority"
        <3>1. v(t) = Weight[rows[t].priority] BY Zenon, <2>2 DEF SortValue
        <3> QED BY <2>1, <3>1 DEF Row, Weight
    <2>3. CASE q.sort_by = "number"
        <3>1. v(t) = t BY <2>3 DEF SortValue
        <3> QED BY <2>1, <3>1
    <2>4. CASE q.sort_by = "due_date"
        <3>1. v(t) = IF rows[t].due_date = None THEN 0 ELSE rows[t].due_date
            BY <2>4 DEF SortValue
        <3> QED BY <2>1, <3>1 DEF Row
    <2>5. CASE q.sort_by = "created_date"
        <3>1. v(t) = rows[t].created_date BY <2>5 DEF SortValue
        <3> QED BY <2>1, <3>1 DEF Row
    <2>6. CASE q.sort_by = "updated_date"
        <3>1. v(t) = rows[t].updated_date BY <2>6 DEF SortValue
        <3> QED BY <2>1, <3>1 DEF Row
    <2> QED BY <2>2, <2>3, <2>4, <2>5, <2>6 DEF SortField
<1>2. \A s, t \in S : Smaller(SortValues(q, s), SortValues(q, t)) <=> less(s, t)
    BY <1>1, SmallerPairs DEF SortValues
<1>3. \A s, t \in S :
        Precedes(q, s, t) <=>
            IF u(s) # u(t) THEN u(t)
            ELSE IF q.sort_direction = "asc" THEN less(s, t) ELSE less(t, s)
    BY <1>2 DEF Precedes
<1>4. \A t \in S : u(t) \in BOOLEAN BY DEF Undated
<1> HIDE DEF v, u
<1>5. /\ \A t \in S : ~ less(t, t)
      /\ \A s, t, x \in S : less(x, s) /\ less(s, t) => less(x, t)
      /\ \A s, t \in S : s = t \/ less(s, t) \/ less(t, s)
    BY <1>1
<1> HIDE DEF less
<1> QED BY <1>3, <1>4, <1>5 DEF u

LEMMA ListIsInPages ==
    ASSUME Inv, request.phase = "resolved", ReadList
    PROVE  LET n == Cardinality(request'.found)
               pages == request'.pages IN
           /\ UNION {pages[p] : p \in DOMAIN pages} = request'.found
           /\ \A p \in DOMAIN pages : p * PageSize <= n => Cardinality(pages[p]) = PageSize
           /\ \A p, r \in DOMAIN pages : p # r => pages[p] \cap pages[r] = {}
           /\ Definition[request.query].sort_by = "due_date" =>
                 \A p, r \in DOMAIN pages : p < r =>
                    \A s \in pages[p], t \in pages[r] :
                       rows[s].due_date = None => rows[t].due_date = None
<1> DEFINE q == Definition[request.query]
           S == Matching
           n == Cardinality(S)
           P == 1 .. PageCount(S)
           before == [t \in S |-> {s \in S : Precedes(q, s, t)}]
           rank == [t \in S |-> Cardinality(before[t])]
           place == [p \in P |-> Places(p, PageSize)]
           pages == request'.pages
<1>1. request'.found = S /\ DOMAIN pages = P /\ \A p \in P : pages[p] = Page(q, S, p)
    BY DEF ReadList
<1>2. S \in SUBSET DOMAIN rows /\ IsFiniteSet(S)
    <2>1. S \in SUBSET DOMAIN rows BY DEF Matching, InUse
    <2> QED BY <2>1, FS_Subset DEF Inv, IsTable
<1>3. q.sort_by \in SortField /\ q.sort_direction \in {"asc", "desc"}
    BY DefinitionAssumption DEF Inv, Accepted
<1>4. n \in Nat /\ PageSize \in Nat \ {0} BY <1>2, FS_CardinalityType, ListsAssumption
<1> HIDE DEF q, S
<1>5. /\ \A t \in S : ~ Precedes(q, t, t)
      /\ \A s, t, x \in S : Precedes(q, x, s) /\ Precedes(q, s, t) => Precedes(q, x, t)
      /\ \A s, t \in S : s = t \/ Precedes(q, s, t) \/ Precedes(q, t, s)
      /\ \A s, t \in S : Precedes(q, s, t) /\ Undated(q, s) => Undated(q, t)
    BY <1>2, <1>3, OrderOfTickets
<1>6. /\ rank \in Bijection(S, 0 .. n - 1)
      /\ \A s, t \in S : s \in before[t] <=> rank[s] < rank[t]
    <2>1. /\ before \in [S -> SUBSET S]
          /\ \A t \in S : t \notin before[t]
          /\ \A s, t \in S : s \in before[t] => before[s] \subseteq before[t]
          /\ \A s, t \in S : s = t \/ s \in before[t] \/ t \in before[s]
        BY <1>5
    <2> HIDE DEF before
    <2>2. rank = [t \in S |-> Cardinality(before[t])] OBVIOUS
    <2> HIDE DEF rank
    <2> QED BY <1>2, <2>1, <2>2, RanksCountUp
<1>7. \A s, t \in S : rank[s] < rank[t] <=> Precedes(q, s, t)
    <2>1. \A s, t \in S : s \in before[t] <=> Precedes(q, s, t) OBVIOUS
    <2> HIDE DEF before, rank
    <2> QED BY <1>6, <2>1
<1>8. \A p \in P : pages[p] = {t \in S : rank[t] \in place[p]}
    <2>1. \A t \in S : rank[t] = Cardinality({s \in S : Precedes(q, s, t)}) OBVIOUS
    <2> HIDE DEF rank
    <2> QED BY <1>1, <2>1 DEF Page, Places
<1>9. /\ \A r \in 0 .. n - 1 : \E p \in P : r \in place[p]
      /\ \A p \in P : p * PageSize <= n =>
            place[p] \subseteq 0 .. n - 1 /\ Cardinality(place[p]) = PageSize
      /\ \A p, r \in P : p < r => \A x \in place[p], y \in place[r] : x < y
      /\ P \subseteq Int
    <2> DEFINE last == PageCount(S)
    <2>1. last = (n + PageSize - 1) \div PageSize BY DEF PageCount
    <2> HIDE DEF n, last
    <2>2. /\ last \in Nat
          /\ \A r \in 0 .. n - 1 : \E p \in 1 .. last : r \in Places(p, PageSize)
          /\ \A p \in 1 .. last : p * PageSize <= n =>
                /\ Places(p, PageSize) \subseteq 0 .. n - 1
                /\ IsFiniteSet(Places(p, PageSize)) /\ Cardinality(Places(p, PageSize)) = PageSize
        BY <1>4, <2>1, PlacesOfPages
    <2>3. ASSUME NEW p \in 1 .. last, NEW r \in 1 .. last, p < r,
                 NEW x \in Places(p, PageSize), NEW y \in Places(r, PageSize)
          PROVE  x < y
        BY <1>4, <2>2, <2>3, PlacesInOrder
    <2>4. P = 1 .. last /\ \A p \in P : place[p] = Places(p, PageSize) BY DEF last
    <2> HIDE DEF P, place
    <2> QED BY <2>2, <2>3, <2>4
<1> HIDE DEF rank, before, place, pages, P, n
<1>10. /\ UNION {pages[p] : p \in P} = S
       /\ \A p \in P : place[p] \subseteq 0 .. n - 1 =>
             Cardinality(pages[p]) = Cardinality(place[p])
    <2>1. IsFiniteSet(S) /\ rank \in Bijection(S, 0 .. n - 1) BY <1>2, <1>6
    <2>2. \A r \in 0 .. n - 1 : \E p \in P : r \in place[p] BY <1>9
    <2>3. FilledByRank(pages, P, place, rank, S) BY <1>8 DEF FilledByRank
    <2> QED BY <2>1, <2>2, <2>3, PagesOfRanks
<1>11. ASSUME NEW p \in P, NEW r \in P, p < r, NEW s \in pages[p], NEW t \in pages[r]
       PROVE  s \in S /\ t \in S /\ Precedes(q, s, t) /\ s # t
    <2>1. s \in S /\ t \in S /\ rank[s] < rank[t] BY <1>8, <1>9, <1>11
    <2> QED BY <1>5, <1>7, <2>1
<1>12. \A p, r \in P : p # r => pages[p] \cap pages[r] = {}
    <2> SUFFICES ASSUME NEW p \in P, NEW r \in P, p # r, NEW t \in pages[p] \cap pages[r]
                 PROVE  FALSE
        OBVIOUS
    <2>1. p < r \/ r < p BY <1>9
    <2> QED BY <1>11, <2>1
<1>13. ASSUME q.sort_by = "due_date", NEW p \in P, NEW r \in P, p < r,
              NEW s \in pages[p], NEW t \in pages[r], rows[s].due_date = None
       PROVE  rows[t].due_date = None
    BY <1>5, <1>11, <1>13 DEF Undated
<1>14. \A p \in P : p * PageSize <= n => Cardinality(pages[p]) = PageSize
    BY <1>9, <1>10
<1> QED BY <1>1, <1>10, <1>12, <1>13, <1>14 DEF pages, n, q

\* The pages of a list hold all it found, each ticket once and in order, for any
\* size of a page and any tickets.
THEOREM PagesShowTheList == Spec => PagesHoldEachOnce
<1>1. Inv /\ [Next]_vars =>
        (request'.phase = "answered" /\ request.phase = "resolved" /\ request.kind = "list" =>
          LET n == Cardinality(request'.found)
              pages == request'.pages IN
          /\ UNION {pages[p] : p \in DOMAIN pages} = request'.found
          /\ \A p \in DOMAIN pages : p * PageSize <= n => Cardinality(pages[p]) = PageSize
          /\ \A p, r \in DOMAIN pages : p # r => pages[p] \cap pages[r] = {}
          /\ Definition[request.query].sort_by = "due_date" =>
                \A p, r \in DOMAIN pages : p < r =>
                   \A s \in pages[p], t \in pages[r] :
                      rows[s].due_date = None => rows[t].due_date = None)
    <2> SUFFICES ASSUME Inv, [Next]_vars, request'.phase = "answered",
                        request.phase = "resolved", request.kind = "list"
                 PROVE  ReadList
        BY ListIsInPages
    <2> QED BY Answering DEF ReadBoard
<1> QED BY <1>1, RequestsAreValid, PTL DEF Spec, PagesHoldEachOnce

-----------------------------------------------------------------------------
(* The board *)

\* The Epic of a task or subtask, the place of its card, and the card itself.
EpicOf(t) == IF rows[t].type = "TASK" THEN rows[t].parent ELSE rows[rows[t].parent].parent

PlaceOf(t, S) ==
    IF rows[t].type = "TASK" THEN "task"
    ELSE IF Apart(rows[t].parent, rows[t].status, S) THEN "apart" ELSE "below"

CardOf(t, S) ==
    [group |-> EpicOf(t), column |-> rows[t].status, place |-> PlaceOf(t, S), ticket |-> t]

\* What is in place above the tickets shown on a board.
LEMMA IndexHoldsParents ==
    ASSUME Inv, NEW S \in SUBSET InUse
    PROVE  /\ \A t \in Indexed(S) : /\ t \in DOMAIN rows /\ rows[t].type \in {"EPIC", "TASK", "SUBTASK"}
                                    /\ rows[t].status \in Status
           /\ S \subseteq Indexed(S)
           /\ \A t \in OfType("SUBTASK", S) : rows[t].parent \in OfType("TASK", Indexed(S))
           /\ \A k \in OfType("TASK", Indexed(S)) :
                 \/ rows[k].parent = None /\ None \notin Indexed(S)
                 \/ rows[k].parent \in OfType("EPIC", Indexed(S))
<1>1. /\ \A t \in DOMAIN rows : rows[t] \in Row
      /\ None \notin DOMAIN rows
      /\ \A t \in DOMAIN rows :
            \/ rows[t].parent = None /\ rows[t].type # "SUBTASK"
            \/ /\ rows[t].parent \in DOMAIN rows
               /\ \/ rows[t].type = "TASK" /\ rows[rows[t].parent].type = "EPIC"
                  \/ rows[t].type = "SUBTASK" /\ rows[rows[t].parent].type = "TASK"
               /\ ~ rows[t].deleted => ~ rows[rows[t].parent].deleted
    <2>1. None \notin DOMAIN rows BY ListsAssumption DEF Inv, IsTable
    <2> QED BY <2>1 DEF Inv, IsTable, InPlace
<1>2. \A t \in DOMAIN rows : /\ rows[t].type \in {"EPIC", "TASK", "SUBTASK"}
                             /\ rows[t].status \in Status
    BY <1>1 DEF Row
<1>3. Indexed(S) \subseteq InUse /\ S \subseteq Indexed(S) BY DEF Indexed
<1>4. \A t \in S : rows[t].parent \in InUse => rows[t].parent \in Indexed(S)
    BY DEF Indexed, Ancestors
<1>5. \A t \in InUse : rows[t].parent = None \/ rows[t].parent \in InUse
    BY <1>1 DEF InUse
<1>6. ASSUME NEW t \in OfType("SUBTASK", S)
      PROVE  rows[t].parent \in OfType("TASK", Indexed(S))
    <2>1. t \in S /\ rows[t].type = "SUBTASK" /\ t \in DOMAIN rows BY DEF OfType, InUse
    <2>2. rows[t].parent # None /\ rows[rows[t].parent].type = "TASK" BY <1>1, <2>1
    <2> QED BY <1>4, <1>5, <2>1, <2>2 DEF OfType
<1>7. ASSUME NEW k \in OfType("TASK", Indexed(S)), rows[k].parent # None
      PROVE  rows[k].parent \in OfType("EPIC", Indexed(S))
    <2>1. k \in Indexed(S) /\ k \in InUse /\ rows[k].type = "TASK" /\ k \in DOMAIN rows
        BY <1>3 DEF OfType, InUse
    <2>2. rows[k].parent \in InUse /\ rows[rows[k].parent].type = "EPIC"
        BY <1>1, <1>5, <1>7, <2>1
    <2>3. CASE k \in S BY <1>4, <2>2, <2>3 DEF OfType
    <2>4. CASE k \in Ancestors(S) /\ k \notin S
        <3> DEFINE parents == {rows[t].parent : t \in S}
        <3>1. k \in parents
            <4>1. SUFFICES ASSUME NEW p \in parents \cap InUse, k = rows[p].parent PROVE FALSE
                BY <2>4 DEF Ancestors
            <4>2. PICK t \in S : p = rows[t].parent OBVIOUS
            <4>3. t \in DOMAIN rows /\ p \in DOMAIN rows /\ p # None BY <1>1 DEF InUse
            <4> QED BY <1>1, <2>1, <4>1, <4>2, <4>3
        <3>2. rows[k].parent \in Ancestors(S) BY <2>1, <3>1 DEF Ancestors
        <3> QED BY <2>2, <3>2 DEF Indexed, OfType
    <2> QED BY <2>1, <2>3, <2>4 DEF Indexed
<1>8. None \notin Indexed(S) BY <1>1, <1>3 DEF InUse
<1> QED BY <1>2, <1>3, <1>6, <1>7, <1>8 DEF InUse

LEMMA CardsOfAGroup ==
    ASSUME Inv, NEW S \in SUBSET InUse, NEW epic, NEW c
    PROVE  c \in GroupCards(epic, S) <=>
             \E t \in S : rows[t].type # "EPIC" /\ EpicOf(t) = epic /\ c = CardOf(t, S)
<1> DEFINE indexed == Indexed(S)
           within == {k \in OfType("TASK", indexed) :
               (IF rows[k].parent \in indexed THEN rows[k].parent ELSE None) = epic}
           children(k, column) ==
               {t \in OfType("SUBTASK", S) : rows[t].parent = k /\ rows[t].status = column}
           inColumn(column) == {k \in within \cap S : rows[k].status = column}
           card(column, place, t) ==
               [group |-> epic, column |-> column, place |-> place, ticket |-> t]
           tasks(column) == {card(column, "task", t) : t \in inColumn(column)}
           below(column) == {card(column, "below", t) :
                t \in UNION {children(k, column) : k \in inColumn(column)}}
           apart(column) == {card(column, "apart", t) :
                t \in UNION {children(k, column) : k \in {k \in within : Apart(k, column, S)}}}
<1>1. GroupCards(epic, S) =
        UNION {tasks(column) \cup below(column) \cup apart(column) : column \in Status}
    BY DEF GroupCards
<1>2. /\ \A t \in indexed : /\ t \in DOMAIN rows /\ rows[t].type \in {"EPIC", "TASK", "SUBTASK"}
                            /\ rows[t].status \in Status
      /\ S \subseteq indexed
      /\ \A t \in OfType("SUBTASK", S) : rows[t].parent \in OfType("TASK", indexed)
      /\ \A k \in OfType("TASK", indexed) :
            \/ rows[k].parent = None /\ None \notin indexed
            \/ rows[k].parent \in OfType("EPIC", indexed)
    BY IndexHoldsParents
<1>3. within = {k \in OfType("TASK", indexed) : rows[k].parent = epic}
    BY <1>2 DEF OfType
<1> HIDE DEF indexed, within
<1>4. ASSUME NEW column \in Status, c \in tasks(column)
      PROVE  \E t \in S : rows[t].type # "EPIC" /\ EpicOf(t) = epic /\ c = CardOf(t, S)
    <2>1. PICK t \in inColumn(column) : c = card(column, "task", t) BY <1>4
    <2>2. t \in S /\ rows[t].type = "TASK" /\ rows[t].parent = epic /\ rows[t].status = column
        BY <1>3 DEF OfType
    <2>3. EpicOf(t) = epic /\ PlaceOf(t, S) = "task" BY <2>2 DEF EpicOf, PlaceOf
    <2>4. c = CardOf(t, S) BY <2>1, <2>2, <2>3 DEF CardOf
    <2> QED BY <2>2, <2>3, <2>4
<1>5. ASSUME NEW column \in Status, NEW k \in within, NEW t \in children(k, column)
      PROVE  /\ t \in S /\ rows[t].type = "SUBTASK" /\ rows[t].parent = k
             /\ rows[t].status = column /\ EpicOf(t) = epic
             /\ PlaceOf(t, S) = IF Apart(k, column, S) THEN "apart" ELSE "below"
    BY <1>3 DEF OfType, EpicOf, PlaceOf
<1>6. ASSUME NEW column \in Status, c \in below(column)
      PROVE  \E t \in S : rows[t].type # "EPIC" /\ EpicOf(t) = epic /\ c = CardOf(t, S)
    <2>1. PICK k \in inColumn(column) :
            \E t \in children(k, column) : c = card(column, "below", t)
        BY <1>6
    <2>2. PICK t \in children(k, column) : c = card(column, "below", t) BY <2>1
    <2>3. k \in within /\ ~ Apart(k, column, S) BY DEF Apart
    <2>4. c = CardOf(t, S) BY <1>5, <2>2, <2>3 DEF CardOf
    <2> QED BY <1>5, <2>3, <2>4
<1>7. ASSUME NEW column \in Status, c \in apart(column)
      PROVE  \E t \in S : rows[t].type # "EPIC" /\ EpicOf(t) = epic /\ c = CardOf(t, S)
    <2>1. PICK k \in within : /\ Apart(k, column, S)
                             /\ \E t \in children(k, column) : c = card(column, "apart", t)
        BY <1>7
    <2>2. PICK t \in children(k, column) : c = card(column, "apart", t) BY <2>1
    <2>3. c = CardOf(t, S) BY <1>5, <2>1, <2>2 DEF CardOf
    <2> QED BY <1>5, <2>2, <2>3
<1>8. ASSUME NEW t \in S, rows[t].type # "EPIC", EpicOf(t) = epic, c = CardOf(t, S)
      PROVE  \E column \in Status : c \in tasks(column) \cup below(column) \cup apart(column)
    <2> DEFINE column == rows[t].status
    <2>1. column \in Status /\ rows[t].type \in {"TASK", "SUBTASK"} /\ t \in indexed
        BY <1>2, <1>8
    <2>2. CASE rows[t].type = "TASK"
        <3>1. rows[t].parent = epic /\ PlaceOf(t, S) = "task"
            BY <1>8, <2>2 DEF EpicOf, PlaceOf
        <3>2. t \in inColumn(column) BY <1>3, <2>1, <2>2, <3>1 DEF OfType
        <3>3. c = card(column, "task", t) BY <1>8, <3>1 DEF CardOf
        <3>4. c \in tasks(column) BY <3>2, <3>3
        <3> QED BY <2>1, <3>4
    <2>3. CASE rows[t].type = "SUBTASK"
        <3> DEFINE k == rows[t].parent
        <3>1. t \in OfType("SUBTASK", S) BY <2>3 DEF OfType
        <3>2. rows[k].parent = epic BY <1>8, <2>3 DEF EpicOf
        <3>3. k \in within BY <1>2, <1>3, <3>1, <3>2
        <3>4. t \in children(k, column) BY <3>1
        <3>5. CASE Apart(k, column, S)
            <4>1. c = card(column, "apart", t) BY <1>8, <2>3, <3>5 DEF CardOf, PlaceOf
            <4>2. c \in apart(column) BY <3>3, <3>4, <3>5, <4>1
            <4> QED BY <2>1, <4>2
        <3>6. CASE ~ Apart(k, column, S)
            <4>1. c = card(column, "below", t) BY <1>8, <2>3, <3>6 DEF CardOf, PlaceOf
            <4>2. k \in inColumn(column) BY <3>3, <3>6 DEF Apart
            <4>3. c \in below(column) BY <3>4, <4>1, <4>2
            <4> QED BY <2>1, <4>3
        <3> QED BY <3>5, <3>6
    <2> QED BY <2>1, <2>2, <2>3
<1> HIDE DEF tasks, below, apart
<1> QED BY <1>1, <1>4, <1>6, <1>7, <1>8

LEMMA GroupOfATicket ==
    ASSUME Inv, NEW S \in SUBSET InUse, NEW t \in S, rows[t].type # "EPIC"
    PROVE  EpicOf(t) \in Groups(S)
<1>1. /\ t \in Indexed(S) /\ rows[t].type \in {"TASK", "SUBTASK"}
      /\ rows[t].type = "SUBTASK" => rows[t].parent \in OfType("TASK", Indexed(S))
      /\ \A k \in OfType("TASK", Indexed(S)) :
            rows[k].parent \in OfType("EPIC", Indexed(S)) \cup {None}
    BY IndexHoldsParents DEF OfType
<1>2. \E k \in OfType("TASK", Indexed(S)) : EpicOf(t) = rows[k].parent
    BY <1>1 DEF EpicOf, OfType
<1> QED BY <1>1, <1>2 DEF Groups

LEMMA BoardIsComplete ==
    ASSUME Inv, request.phase = "resolved", ReadBoard
    PROVE  LET shown == {t \in request'.found : rows[t].type # "EPIC"} IN
           /\ {<<c.group, c.column, c.ticket>> : c \in request'.cards}
                    = {<<EpicOf(t), rows[t].status, t>> : t \in shown}
           /\ Cardinality(request'.cards) = Cardinality(shown)
           /\ \A c \in request'.cards : c.place = "below" => rows[c.ticket].parent \in shown
           /\ {EpicOf(t) : t \in shown} \subseteq request'.groups
<1> DEFINE e == Definition[request.query].expression
           S == Matching
           cards == Cards(S)
           shown == {t \in S : rows[t].type # "EPIC"}
<1>1. request'.found = S /\ request'.cards = cards /\ request'.groups = ShownGroups(S, e)
    BY DEF ReadBoard
<1>2. S \in SUBSET InUse /\ IsFiniteSet(S)
    <2>1. S \in SUBSET InUse /\ S \in SUBSET DOMAIN rows BY DEF Matching, InUse
    <2> QED BY <2>1, FS_Subset DEF Inv, IsTable
<1> HIDE DEF S, e
<1>3. \A epic, c : c \in GroupCards(epic, S) <=>
        \E t \in shown : EpicOf(t) = epic /\ c = CardOf(t, S)
    BY <1>2, CardsOfAGroup
<1>4. \A t \in shown : EpicOf(t) \in Groups(S) BY <1>2, GroupOfATicket
<1>5. cards = {CardOf(t, S) : t \in shown}
    <2> HIDE DEF shown
    <2> QED BY <1>3, <1>4 DEF Cards
<1>6. \A t : /\ CardOf(t, S).group = EpicOf(t) /\ CardOf(t, S).column = rows[t].status
             /\ CardOf(t, S).ticket = t /\ CardOf(t, S).place = PlaceOf(t, S)
    BY DEF CardOf
<1>7. Cardinality(cards) = Cardinality(shown)
    <2> DEFINE f == [t \in shown |-> CardOf(t, S)]
    <2>1. f \in [shown -> cards] /\ \A t \in shown : f[t] = CardOf(t, S) BY <1>5
    <2>2. /\ \A s, t \in shown : f[s] = f[t] => s = t
          /\ \A c \in cards : \E t \in shown : f[t] = c
        BY <1>5, <1>6, <2>1
    <2>3. IsFiniteSet(shown) BY <1>2, FS_Subset
    <2> HIDE DEF f, shown, cards
    <2>4. f \in Bijection(shown, cards) BY <2>1, <2>2, Fun_IsBij
    <2> QED BY <2>3, <2>4, FS_Bijection, Fun_ExistsBij
<1>8. ASSUME NEW t \in shown, PlaceOf(t, S) = "below" PROVE rows[t].parent \in shown
    <2>1. t \in S /\ rows[t].type = "SUBTASK" /\ rows[t].parent \in S
        <3>1. rows[t].type \in {"TASK", "SUBTASK"} BY <1>2, IndexHoldsParents
        <3> QED BY <1>8, <3>1 DEF PlaceOf, Apart
    <2>2. rows[rows[t].parent].type = "TASK"
        BY <1>2, <2>1, IndexHoldsParents DEF OfType
    <2> QED BY <2>1, <2>2
<1>9. {EpicOf(t) : t \in shown} \subseteq ShownGroups(S, e)
    <2> HIDE DEF shown
    <2>1. ASSUME NEW t \in shown PROVE EpicOf(t) \in ShownGroups(S, e)
        <3>1. CardOf(t, S) \in GroupCards(EpicOf(t), S) BY <1>3
        <3> QED BY <1>4, <3>1 DEF ShownGroups
    <2> QED BY <2>1
<1>10. {<<c.group, c.column, c.ticket>> : c \in cards}
            = {<<EpicOf(t), rows[t].status, t>> : t \in shown}
    <2> HIDE DEF shown, cards
    <2> QED BY <1>5, <1>6
<1>11. \A c \in cards : c.place = "below" => rows[c.ticket].parent \in shown
    <2> HIDE DEF shown, cards
    <2> QED BY <1>5, <1>6, <1>8
<1> HIDE DEF cards
<1> QED BY <1>1, <1>7, <1>9, <1>10, <1>11

\* The board has one card for each task and subtask found, where it belongs, for
\* any tickets and filter.
THEOREM BoardShowsWhatMatches == Spec => BoardShowsEachMatchOnce
<1>1. Inv /\ [Next]_vars =>
        (request'.phase = "answered" /\ request.phase = "resolved" /\ request.kind = "board" =>
          LET epic(t) ==
                IF rows[t].type = "TASK" THEN rows[t].parent ELSE rows[rows[t].parent].parent
              shown == {t \in request'.found : rows[t].type # "EPIC"}
          IN  /\ {<<c.group, c.column, c.ticket>> : c \in request'.cards}
                    = {<<epic(t), rows[t].status, t>> : t \in shown}
              /\ Cardinality(request'.cards) = Cardinality(shown)
              /\ \A c \in request'.cards : c.place = "below" => rows[c.ticket].parent \in shown
              /\ {epic(t) : t \in shown} \subseteq request'.groups)
    <2> SUFFICES ASSUME Inv, [Next]_vars, request'.phase = "answered",
                        request.phase = "resolved", request.kind = "board"
                 PROVE  ReadBoard
        BY BoardIsComplete DEF EpicOf
    <2> QED BY Answering DEF ReadList
<1> QED BY <1>1, RequestsAreValid, PTL DEF Spec, BoardShowsEachMatchOnce
=============================================================================

-------------------------- MODULE WebPages_proofs --------------------------
(***************************************************************************)
(* Proofs about WebPages, for any users, contents, filters and bounds.     *)
(*                                                                         *)
(* FormsFollow: of the versions that a page of the ticket holds, each that *)
(* is the present one came with what the page shows.  PanelsFollow: a row  *)
(* that a panel shows is the present one or has an older revision.         *)
(***************************************************************************)
EXTENDS WebPages, TLAPS

TicketPage ==
    [page : {"edit", "detail", "board", "refused"}, seen : Content, status : Status,
     expected : Nat, image : Nat, refused : {"no", "error", "conflict"},
     mixed : BOOLEAN, upload : {"none", "sent", "accepted", "rejected"}, answer : Nat]

IsRows(rows) == rows \in [DOMAIN rows -> FilterRow]

IsPanel(p) ==
    /\ p.page = "panel"
    /\ p = [page |-> "panel", rows |-> p.rows, applied |-> p.applied]
    /\ IsRows(p.rows) /\ p.applied \in Definition

IsPage(p) == p = NoPage \/ p \in TicketPage \/ IsPanel(p)

\* Every variable has its type: pages are those of the code, and the panel's
\* rows are filters.
TypeOK ==
    /\ ticket \in [version : Nat, content : Content, status : Status]
    /\ IsRows(filters) /\ DOMAIN filters \subseteq Nat
    /\ tab = [u \in User |-> tab[u]]
    /\ \A u \in User : IsPage(tab[u])

\* The version of row t is among those that page p holds.
HoldsVersion(p, t) ==
    \/ p.expected = t.version
    \/ p.image = t.version
    \/ p.upload = "accepted" /\ p.answer = t.version

Follows(p, t) ==
    /\ p.expected <= t.version /\ p.image <= t.version
    /\ p.upload = "accepted" => p.answer <= t.version
    /\ p.page = "refused" => p.refused # "no"
    /\ p.page \in {"detail", "board"} => p.refused = "no" /\ ~ p.mixed
    /\ ~ p.mixed /\ p.refused # "conflict" /\ HoldsVersion(p, t)
          => p.seen = t.content /\ p.status = t.status

FormsFollow == \A u \in User : tab[u] \in TicketPage => Follows(tab[u], ticket)

RowsFollow(p, rows) ==
    \A id \in DOMAIN p.rows \cap DOMAIN rows :
        /\ p.rows[id].rev <= rows[id].rev
        /\ p.rows[id].rev = rows[id].rev => p.rows[id] = rows[id]

PanelsFollow == \A u \in User : IsPanel(tab[u]) => RowsFollow(tab[u], filters)

Inv == TypeOK /\ FormsFollow /\ PanelsFollow /\ FilterNamesDistinct

-----------------------------------------------------------------------------
(* Pages *)

\* The kind of a page tells its shape.
LEMMA KindsOfPages ==
    ASSUME NEW p, IsPage(p)
    PROVE  /\ p.page = "panel" => IsPanel(p)
           /\ p.page \in {"edit", "detail", "board", "refused"} => p \in TicketPage
           /\ p \in TicketPage => p.page \in {"edit", "detail", "board", "refused"}
           /\ ~ (p \in TicketPage /\ IsPanel(p))
BY DEF IsPage, NoPage, TicketPage, IsPanel

LEMMA NoPageIsNeither == NoPage \notin TicketPage /\ ~ IsPanel(NoPage)
BY DEF NoPage, TicketPage, IsPanel

\* What Show leaves of the other users' pages.
LEMMA ShowsOne ==
    ASSUME TypeOK, NEW u \in User, NEW p, Show(u, p)
    PROVE  /\ tab'[u] = p
           /\ \A w \in User \ {u} : tab'[w] = tab[w]
           /\ tab' = [w \in User |-> tab'[w]]
BY DEF TypeOK, Show

\* A page drawn from the row follows it.
LEMMA FreshFollows ==
    ASSUME TypeOK, NEW kind \in {"edit", "detail", "board"}
    PROVE  Fresh(kind) \in TicketPage /\ Follows(Fresh(kind), ticket)
BY DEF TypeOK, Fresh, TicketPage, Follows, HoldsVersion

\* A row that stays, or gets a version no page holds, is followed as before.
LEMMA StillFollows ==
    ASSUME NEW p \in TicketPage, NEW s, NEW t, s.version \in Nat, Follows(p, s),
           t = s \/ t.version = s.version + 1
    PROVE  Follows(p, t)
<1>1. CASE t = s
    BY <1>1
<1>2. CASE t.version = s.version + 1
    BY <1>2 DEF Follows, HoldsVersion, TicketPage
<1> QED BY <1>1, <1>2

\* What every action on the ticket has to show.
LEMMA TicketStep ==
    ASSUME Inv, NEW u \in User, NEW p, Show(u, p),
           p = NoPage \/ (p \in TicketPage /\ Follows(p, ticket')),
           ticket' \in [version : Nat, content : Content, status : Status],
           ticket' = ticket \/ ticket'.version = ticket.version + 1,
           UNCHANGED filters
    PROVE  Inv'
<1> USE DEF Inv
<1>1. /\ tab'[u] = p
      /\ \A w \in User \ {u} : tab'[w] = tab[w]
      /\ tab' = [w \in User |-> tab'[w]]
    BY ShowsOne
<1>2. IsPage(p)
    BY DEF IsPage
<1>3. TypeOK'
    BY <1>1, <1>2 DEF TypeOK
<1>4. FormsFollow'
    <2> SUFFICES ASSUME NEW w \in User, tab'[w] \in TicketPage
                 PROVE  Follows(tab'[w], ticket')
        BY DEF FormsFollow
    <2>1. CASE w = u
        BY <2>1, <1>1, NoPageIsNeither
    <2>2. CASE w # u
        <3>1. tab'[w] = tab[w] /\ tab[w] \in TicketPage /\ Follows(tab[w], ticket)
            BY <2>2, <1>1 DEF FormsFollow
        <3>2. ticket.version \in Nat
            BY DEF TypeOK
        <3> QED BY <3>1, <3>2, StillFollows
    <2> QED BY <2>1, <2>2
<1>5. PanelsFollow'
    <2> SUFFICES ASSUME NEW w \in User, IsPanel(tab'[w])
                 PROVE  RowsFollow(tab'[w], filters)
        BY DEF PanelsFollow
    <2>1. w # u
        BY <1>1, <1>2, NoPageIsNeither, KindsOfPages
    <2> QED BY <2>1, <1>1 DEF PanelsFollow
<1>6. FilterNamesDistinct'
    BY DEF FilterNamesDistinct
<1> QED BY <1>3, <1>4, <1>5, <1>6

\* What every action on the filters has to show.
LEMMA PanelStep ==
    ASSUME Inv, NEW u \in User, NEW p, Show(u, p),
           p = NoPage \/ (IsPanel(p) /\ RowsFollow(p, filters')),
           IsRows(filters'), DOMAIN filters' \subseteq Nat,
           \A w \in User : IsPanel(tab[w]) => RowsFollow(tab[w], filters'),
           FilterNamesDistinct',
           UNCHANGED ticket
    PROVE  Inv'
<1> USE DEF Inv
<1>1. /\ tab'[u] = p
      /\ \A w \in User \ {u} : tab'[w] = tab[w]
      /\ tab' = [w \in User |-> tab'[w]]
    BY ShowsOne
<1>2. IsPage(p)
    BY DEF IsPage
<1>3. TypeOK'
    BY <1>1, <1>2 DEF TypeOK
<1>4. FormsFollow'
    <2> SUFFICES ASSUME NEW w \in User, tab'[w] \in TicketPage
                 PROVE  Follows(tab'[w], ticket)
        BY DEF FormsFollow
    <2>1. w # u
        BY <1>1, <1>2, NoPageIsNeither, KindsOfPages
    <2> QED BY <2>1, <1>1 DEF FormsFollow
<1>5. PanelsFollow'
    BY <1>1, NoPageIsNeither DEF PanelsFollow
<1> QED BY <1>3, <1>4, <1>5

\* The row with the next version, and with another content or status.
LEMMA TouchedRow ==
    ASSUME ticket \in [version : Nat, content : Content, status : Status]
    PROVE  /\ Touched = [version |-> ticket.version + 1, content |-> ticket.content,
                         status |-> ticket.status]
           /\ ticket.version + 1 \in Nat
           /\ \A c : [Touched EXCEPT !.content = c] =
                      [version |-> ticket.version + 1, content |-> c, status |-> ticket.status]
           /\ \A s : [Touched EXCEPT !.status = s] =
                      [version |-> ticket.version + 1, content |-> ticket.content, status |-> s]
<1>1. Touched = [version |-> ticket.version + 1, content |-> ticket.content,
                 status |-> ticket.status]
    BY DEF Touched
<1>2. ticket.version + 1 \in Nat
    OBVIOUS
<1> QED BY <1>1, <1>2

-----------------------------------------------------------------------------
(* The actions *)

LEMMA FormsKeepInv == ASSUME Inv, FormsNext, UNCHANGED filters PROVE Inv'
<1> USE DEF Inv
<1> PICK u \in User :
        \/ OpenEdit(u)
        \/ \E kind \in PageKind : OpenTicket(u, kind)
        \/ SubmitInvalid(u) \/ SubmitForbidden(u)
        \/ SubmitLocked(u) \/ SubmitStale(u) \/ SubmitUnresolved(u)
        \/ \E c \in Content : Submit(u, c)
        \/ Redraw(u)
        \/ SendImage(u) \/ TakeImage(u) \/ AnswerImage(u)
        \/ \E target \in Status : Switch(u, target)
        \/ ChangeRelation(u)
    BY DEF FormsNext
<1>t. ticket \in [version : Nat, content : Content, status : Status]
    BY DEF TypeOK
<1>p. IsPage(tab[u])
    BY DEF TypeOK
<1>f. tab[u] \in TicketPage => Follows(tab[u], ticket)
    BY DEF FormsFollow
<1>r. ASSUME NEW why \in {"error", "conflict"}, Submittable(tab[u]), Refuse(u, why)
      PROVE  Inv'
    <2> DEFINE q == [tab[u] EXCEPT !.page = "refused", !.refused = why]
    <2>1. tab[u] \in TicketPage
        BY <1>r, <1>p, KindsOfPages DEF Submittable
    <2>2. q \in TicketPage /\ Follows(q, ticket)
        BY <2>1, <1>f, <1>r DEF TicketPage, Follows, HoldsVersion, Submittable
    <2>3. Show(u, q) /\ ticket' = ticket
        BY <1>r DEF Refuse
    <2> HIDE DEF q
    <2> QED BY <2>2, <2>3, <1>t, TicketStep
<1>1. CASE OpenEdit(u)
    <2>1. Show(u, Fresh("edit")) /\ ticket' = ticket
        BY <1>1 DEF OpenEdit
    <2> QED BY <2>1, <1>t, FreshFollows, TicketStep
<1>2. ASSUME NEW kind \in PageKind, OpenTicket(u, kind) PROVE Inv'
    <2>1. kind \in {"edit", "detail", "board"} /\ Show(u, Fresh(kind)) /\ ticket' = ticket
        BY <1>2 DEF OpenTicket
    <2> QED BY <2>1, <1>t, FreshFollows, TicketStep
<1>3. CASE SubmitInvalid(u) \/ SubmitLocked(u) \/ SubmitStale(u) \/ SubmitUnresolved(u)
    BY <1>3, <1>r DEF SubmitInvalid, SubmitLocked, SubmitStale, SubmitUnresolved
<1>4. ASSUME NEW c \in Content, Submit(u, c) PROVE Inv'
    <2>1. Show(u, NoPage)
        BY <1>4 DEF Submit
    <2>2. ticket' = ticket \/ ticket' = [Touched EXCEPT !.content = c]
        BY <1>4 DEF Submit
    <2>3. /\ ticket' \in [version : Nat, content : Content, status : Status]
          /\ ticket' = ticket \/ ticket'.version = ticket.version + 1
        BY <2>2, <1>t, TouchedRow
    <2> QED BY <2>1, <2>3, TicketStep
<1>5. CASE Redraw(u)
    <2>1. tab[u] \in TicketPage
        BY <1>5, <1>p, KindsOfPages DEF Redraw
    <2> DEFINE p == tab[u]
               q == Redrawn(tab[u])
    <2>2. q \in TicketPage
        BY <2>1, <1>t DEF Redrawn, TicketPage
    <2>5. /\ q.page = "edit" /\ q.image = ticket.version /\ q.expected = p.expected
          /\ q.seen = p.seen /\ q.status = p.status /\ q.refused = p.refused
          /\ q.upload = p.upload /\ q.answer = p.answer
          /\ q.mixed = (p.mixed \/ (p.refused # "conflict" /\ p.expected # ticket.version))
        BY <2>1 DEF Redrawn, TicketPage
    <2>6. Follows(p, ticket) /\ p.expected \in Nat /\ p.answer \in Nat /\ ticket.version \in Nat
        BY <2>1, <1>f, <1>t DEF TicketPage
    <2>7. p.refused \in {"no", "error", "conflict"} /\ p.page = "refused"
        BY <2>1, <1>5 DEF TicketPage, Redraw
    <2>3. Follows(q, ticket)
        <3> HIDE DEF p, q
        <3>1. /\ q.expected <= ticket.version /\ q.image <= ticket.version
              /\ q.upload = "accepted" => q.answer <= ticket.version
            BY <2>5, <2>6 DEF Follows
        <3>2. q.page # "refused" /\ q.page \notin {"detail", "board"}
            BY <2>5
        <3>3. ASSUME ~ q.mixed, q.refused # "conflict"
              PROVE  q.seen = ticket.content /\ q.status = ticket.status
            <4>1. p.refused # "conflict"
                BY <3>3, <2>5
            <4>2. ~ p.mixed /\ p.expected = ticket.version
                BY <3>3, <4>1, <2>5
            <4>3. p.seen = ticket.content /\ p.status = ticket.status
                BY <4>1, <4>2, <2>6 DEF Follows, HoldsVersion
            <4> QED BY <4>3, <2>5
        <3> QED BY <3>1, <3>2, <3>3 DEF Follows
    <2>4. ticket' = ticket /\ (Show(u, Redrawn(tab[u])) \/ Show(u, NoPage))
        BY <1>5 DEF Redraw
    <2> QED BY <2>2, <2>3, <2>4, <1>t, TicketStep
<1>6. CASE SendImage(u)
    <2> DEFINE q == [tab[u] EXCEPT !.upload = "sent"]
    <2>1. tab[u] \in TicketPage
        BY <1>6, <1>p, KindsOfPages DEF SendImage
    <2>2. q \in TicketPage /\ Follows(q, ticket)
        BY <2>1, <1>f DEF TicketPage, Follows, HoldsVersion
    <2>3. Show(u, q) /\ ticket' = ticket
        BY <1>6 DEF SendImage
    <2> HIDE DEF q
    <2> QED BY <2>2, <2>3, <1>t, TicketStep
<1>7. CASE TakeImage(u)
    <2>1. tab[u] \in TicketPage
        BY <1>7, <1>p, KindsOfPages DEF TakeImage
    <2>2. CASE ImageAccepted(u) /\ ticket' = Touched
                /\ Show(u, [tab[u] EXCEPT !.upload = "accepted", !.answer = ticket.version + 1])
        <3> DEFINE q == [tab[u] EXCEPT !.upload = "accepted", !.answer = ticket.version + 1]
        <3>1. q \in TicketPage
            BY <2>1, <1>t, TouchedRow DEF TicketPage
        <3>2. /\ ticket' \in [version : Nat, content : Content, status : Status]
              /\ ticket'.version = ticket.version + 1
              /\ ticket'.content = ticket.content /\ ticket'.status = ticket.status
            BY <2>2, <1>t, TouchedRow
        <3>3. tab[u].image = ticket.version
            BY <2>2 DEF ImageAccepted
        <3>4. Follows(q, ticket')
            BY <2>1, <1>f, <1>t, <3>2, <3>3 DEF TicketPage, Follows, HoldsVersion
        <3>5. Show(u, q)
            BY <2>2
        <3> HIDE DEF q
        <3> QED BY <3>1, <3>2, <3>4, <3>5, TicketStep
    <2>3. CASE Show(u, [tab[u] EXCEPT !.upload = "rejected"]) /\ ticket' = ticket
        <3> DEFINE q == [tab[u] EXCEPT !.upload = "rejected"]
        <3>1. q \in TicketPage /\ Follows(q, ticket)
            BY <2>1, <1>f DEF TicketPage, Follows, HoldsVersion
        <3>2. Show(u, q)
            BY <2>3
        <3> HIDE DEF q
        <3> QED BY <3>1, <3>2, <2>3, <1>t, TicketStep
    <2> QED BY <1>7, <2>2, <2>3 DEF TakeImage
<1>8. CASE AnswerImage(u)
    <2>1. tab[u] \in TicketPage /\ ticket' = ticket
        BY <1>8, <1>p, KindsOfPages DEF AnswerImage
    <2> DEFINE q == [tab[u] EXCEPT !.upload = "none", !.answer = 0,
                                   !.expected = tab[u].answer, !.image = tab[u].answer]
               r == [tab[u] EXCEPT !.upload = "none", !.answer = 0]
    <2>2. CASE tab[u].upload = "accepted" /\ Show(u, q)
        <3>1. q \in TicketPage /\ Follows(q, ticket)
            BY <2>1, <2>2, <1>f DEF TicketPage, Follows, HoldsVersion
        <3> HIDE DEF q
        <3> QED BY <2>1, <2>2, <3>1, <1>t, TicketStep
    <2>3. CASE Show(u, r)
        <3>1. r \in TicketPage /\ Follows(r, ticket)
            BY <2>1, <1>f DEF TicketPage, Follows, HoldsVersion
        <3> HIDE DEF r
        <3> QED BY <2>1, <2>3, <3>1, <1>t, TicketStep
    <2> QED BY <1>8, <2>2, <2>3 DEF AnswerImage
<1>9. ASSUME NEW target \in Status, Switch(u, target) PROVE Inv'
    <2>1. /\ ticket' \in [version : Nat, content : Content, status : Status]
          /\ ticket'.version = ticket.version + 1
        BY <1>9, <1>t, TouchedRow DEF Switch
    <2>2. Show(u, NoPage)
        BY <1>9 DEF Switch
    <2> QED BY <2>1, <2>2, TicketStep
<1>10. CASE ChangeRelation(u)
    <2>1. /\ ticket' \in [version : Nat, content : Content, status : Status]
          /\ ticket'.version = ticket.version + 1
        BY <1>10, <1>t, TouchedRow DEF ChangeRelation
    <2>2. Show(u, NoPage)
        BY <1>10 DEF ChangeRelation
    <2> QED BY <2>1, <2>2, TicketStep
<1>11. CASE SubmitForbidden(u)
    <2>1. Show(u, NoPage) /\ ticket' = ticket
        BY <1>11 DEF SubmitForbidden
    <2> QED BY <2>1, <1>t, TicketStep
<1> QED BY <1>1, <1>2, <1>3, <1>4, <1>5, <1>6, <1>7, <1>8, <1>9, <1>10, <1>11

\* The filters and the panels, after a change of one row.
LEMMA ChangeKeepsInv ==
    ASSUME Inv, NEW u \in User, NEW id, NEW name \in FilterName, NEW def \in Definition,
           NEW now \in Time, ChangeFilter(u, id, name, def, now), UNCHANGED ticket
    PROVE  Inv'
<1> USE DEF Inv
<1>1. id \in DOMAIN filters /\ Show(u, NoPage)
    BY DEF ChangeFilter, CurrentRow
<1>2. CASE UNCHANGED filters
    <2>1. FilterNamesDistinct'
        BY <1>2 DEF FilterNamesDistinct
    <2>2. \A w \in User : IsPanel(tab[w]) => RowsFollow(tab[w], filters')
        BY <1>2 DEF PanelsFollow
    <2>3. IsRows(filters') /\ DOMAIN filters' \subseteq Nat
        BY <1>2 DEF TypeOK
    <2> QED BY <1>1, <2>1, <2>2, <2>3, PanelStep
<1>3. CASE /\ Revision(filters[id].rev, now) <= MaxTime
           /\ filters' = [filters EXCEPT ![id] =
                 [scope |-> filters[id].scope, name |-> name, def |-> def,
                  rev |-> Revision(filters[id].rev, now)]]
    <2> DEFINE row == [scope |-> filters[id].scope, name |-> name, def |-> def,
                       rev |-> Revision(filters[id].rev, now)]
    <2>1. filters[id] \in FilterRow /\ IsRows(filters)
        BY <1>1 DEF TypeOK, IsRows
    <2>2. row \in FilterRow /\ filters[id].rev < row.rev
        <3>1. filters[id].rev \in Nat \ {0} /\ now \in Nat \ {0} /\ MaxTime \in Nat
            BY <2>1, WebAssumption DEF FilterRow, Time
        <3>2. /\ Revision(filters[id].rev, now) \in Nat \ {0}
              /\ filters[id].rev < Revision(filters[id].rev, now)
            BY <3>1 DEF Revision
        <3>3. Revision(filters[id].rev, now) \in Time
            BY <3>1, <3>2, <1>3 DEF Time
        <3> QED BY <3>2, <3>3, <2>1 DEF FilterRow
    <2>4. /\ DOMAIN filters' = DOMAIN filters /\ filters'[id] = row
          /\ \A i \in DOMAIN filters \ {id} : filters'[i] = filters[i]
          /\ IsRows(filters')
        <3>1. filters' = [filters EXCEPT ![id] = row]
            BY <1>3
        <3> HIDE DEF row
        <3> QED BY <3>1, <2>1, <2>2, <1>1 DEF IsRows
    <2>5. ASSUME NEW w \in User, IsPanel(tab[w]) PROVE RowsFollow(tab[w], filters')
        <3> SUFFICES ASSUME NEW i \in DOMAIN tab[w].rows \cap DOMAIN filters
                     PROVE  /\ tab[w].rows[i].rev <= filters'[i].rev
                            /\ tab[w].rows[i].rev = filters'[i].rev
                                  => tab[w].rows[i] = filters'[i]
            BY <2>4 DEF RowsFollow
        <3>1. /\ tab[w].rows[i].rev <= filters[i].rev
              /\ tab[w].rows[i].rev = filters[i].rev => tab[w].rows[i] = filters[i]
            BY <2>5 DEF PanelsFollow, RowsFollow
        <3>2. tab[w].rows[i].rev \in Nat
            BY <2>5 DEF IsPanel, IsRows, FilterRow, Time
        <3>3. filters[id].rev \in Nat /\ row.rev \in Nat
            BY <2>1, <2>2 DEF FilterRow, Time
        <3>4. CASE i = id
            <4>1. tab[w].rows[i].rev < row.rev
                BY <3>1, <3>2, <3>3, <3>4, <2>2
            <4> HIDE DEF row
            <4> QED BY <4>1, <3>2, <3>3, <3>4, <2>4
        <3>5. CASE i # id
            BY <3>1, <3>5, <2>4
        <3> QED BY <3>4, <3>5
    <2>6. FilterNamesDistinct'
        <3>1. NameFree(u, filters[id].scope, name, id)
            BY DEF ChangeFilter
        <3>2. row.scope = filters[id].scope /\ row.name = name
            OBVIOUS
        <3> HIDE DEF row
        <3> QED BY <2>4, <3>1, <3>2 DEF FilterNamesDistinct, NameFree
    <2>7. DOMAIN filters' \subseteq Nat
        BY <2>4 DEF TypeOK
    <2> QED BY <1>1, <2>4, <2>5, <2>6, <2>7, PanelStep
<1> QED BY <1>2, <1>3 DEF ChangeFilter

LEMMA FiltersKeepInv == ASSUME Inv, FiltersNext, UNCHANGED ticket PROVE Inv'
<1> USE DEF Inv
<1> PICK u \in User :
        \/ \E d \in Definition : OpenPanel(u, d)
        \/ \E id \in 1 .. MaxFilter, scope \in Scope, name \in FilterName, now \in Time :
              StampOfNew(id, now) /\ CreateFilter(u, id, scope, name, now)
        \/ \E id \in DOMAIN filters :
              \/ \E name \in FilterName, now \in Time : RenameFilter(u, id, name, now)
              \/ \E now \in Time : OverwriteFilter(u, id, now)
              \/ DeleteFilter(u, id)
    BY DEF FiltersNext
<1>t. IsRows(filters) /\ DOMAIN filters \subseteq Nat /\ IsPage(tab[u])
    BY DEF TypeOK
<1>r. \A i \in DOMAIN filters : filters[i] \in FilterRow
    BY <1>t DEF IsRows
<1>w. ASSUME NEW w \in User, IsPanel(tab[w]) PROVE RowsFollow(tab[w], filters)
    BY <1>w DEF PanelsFollow
<1>p. tab[u].page = "panel" => IsPanel(tab[u])
    BY <1>t, KindsOfPages
<1>1. ASSUME NEW d \in Definition, OpenPanel(u, d) PROVE Inv'
    <2> DEFINE rows == Visible(u)
               p == [page |-> "panel", rows |-> rows, applied |-> d]
    <2>1. /\ DOMAIN rows \subseteq DOMAIN filters
          /\ \A i \in DOMAIN rows : rows[i] = filters[i]
          /\ rows = [i \in DOMAIN rows |-> rows[i]]
        BY DEF Visible
    <2>2. IsRows(rows)
        BY <2>1, <1>r DEF IsRows
    <2>3. RowsFollow(p, filters)
        <3>1. \A i \in DOMAIN rows : rows[i].rev \in Nat
            BY <2>1, <1>r DEF FilterRow, Time
        <3>2. p.rows = rows
            OBVIOUS
        <3> HIDE DEF rows, p
        <3> QED BY <2>1, <3>1, <3>2 DEF RowsFollow
    <2>4. IsPanel(p)
        BY <2>2 DEF IsPanel
    <2>5. Show(u, p) /\ UNCHANGED filters
        BY <1>1 DEF OpenPanel
    <2>6. FilterNamesDistinct'
        BY <2>5 DEF FilterNamesDistinct
    <2> HIDE DEF rows, p
    <2> QED BY <2>3, <2>4, <2>5, <2>6, <1>t, <1>w, PanelStep
<1>2. ASSUME NEW id \in 1 .. MaxFilter, NEW scope \in Scope, NEW name \in FilterName,
             NEW now \in Time, StampOfNew(id, now), CreateFilter(u, id, scope, name, now)
      PROVE  Inv'
    <2> DEFINE row == [scope |-> scope, name |-> name, def |-> tab[u].applied, rev |-> now]
    <2>1. filters' = [i \in DOMAIN filters \cup {id} |-> IF i = id THEN row ELSE filters[i]]
        BY <1>2 DEF CreateFilter
    <2>2. row \in FilterRow
        BY <1>2, <1>p DEF CreateFilter, IsPanel, FilterRow
    <2>3. id \in Nat /\ id \notin DOMAIN filters
        BY <1>2, <1>t, WebAssumption DEF CreateFilter, NextId
    <2>r. row.scope = scope /\ row.name = name /\ row.rev = now
        OBVIOUS
    <2> HIDE DEF row
    <2>4. /\ DOMAIN filters' = DOMAIN filters \cup {id} /\ filters'[id] = row
          /\ \A i \in DOMAIN filters : filters'[i] = filters[i]
          /\ IsRows(filters') /\ DOMAIN filters' \subseteq Nat
        BY <2>1, <2>2, <2>3, <1>t, <1>r DEF IsRows
    <2>5. ASSUME NEW w \in User, IsPanel(tab[w]) PROVE RowsFollow(tab[w], filters')
        <3>1. tab[w].page = "panel"
            BY <2>5 DEF IsPanel
        <3>2. id \in DOMAIN tab[w].rows => tab[w].rows[id].rev < row.rev
            BY <1>2, <2>r, <3>1 DEF StampOfNew
        <3>3. id \in DOMAIN tab[w].rows => tab[w].rows[id].rev \in Nat
            BY <2>5 DEF IsPanel, IsRows, FilterRow, Time
        <3>4. row.rev \in Nat
            BY <2>2 DEF FilterRow, Time
        <3>5. \A i \in DOMAIN tab[w].rows \cap DOMAIN filters :
                 /\ tab[w].rows[i].rev <= filters[i].rev
                 /\ tab[w].rows[i].rev = filters[i].rev => tab[w].rows[i] = filters[i]
            BY <2>5, <1>w DEF RowsFollow
        <3>6. ASSUME id \in DOMAIN tab[w].rows
              PROVE  /\ tab[w].rows[id].rev <= filters'[id].rev
                     /\ tab[w].rows[id].rev # filters'[id].rev
            BY <3>2, <3>3, <3>4, <3>6, <2>4
        <3> QED BY <3>5, <3>6, <2>4 DEF RowsFollow
    <2>6. FilterNamesDistinct'
        BY <1>2, <2>3, <2>4, <2>r DEF CreateFilter, NameFree, FilterNamesDistinct
    <2>7. Show(u, NoPage)
        BY <1>2 DEF CreateFilter
    <2> QED BY <2>4, <2>5, <2>6, <2>7, PanelStep
<1>3. ASSUME NEW id \in DOMAIN filters, NEW name \in FilterName, NEW now \in Time,
             RenameFilter(u, id, name, now)
      PROVE  Inv'
    <2>1. filters[id].def \in Definition
        BY <1>r DEF FilterRow
    <2>2. ChangeFilter(u, id, name, filters[id].def, now)
        BY <1>3 DEF RenameFilter
    <2> QED BY <2>1, <2>2, ChangeKeepsInv
<1>4. ASSUME NEW id \in DOMAIN filters, NEW now \in Time, OverwriteFilter(u, id, now)
      PROVE  Inv'
    <2>1. filters[id].name \in FilterName
        BY <1>r DEF FilterRow
    <2>2. tab[u].applied \in Definition
        BY <1>4, <1>p DEF OverwriteFilter, CurrentRow, IsPanel
    <2>3. ChangeFilter(u, id, filters[id].name, tab[u].applied, now)
        BY <1>4 DEF OverwriteFilter
    <2> QED BY <2>1, <2>2, <2>3, ChangeKeepsInv
<1>5. ASSUME NEW id \in DOMAIN filters, DeleteFilter(u, id) PROVE Inv'
    <2>1. filters' = [i \in DOMAIN filters \ {id} |-> filters[i]] /\ Show(u, NoPage)
        BY <1>5 DEF DeleteFilter
    <2>2. /\ DOMAIN filters' \subseteq DOMAIN filters
          /\ \A i \in DOMAIN filters' : filters'[i] = filters[i]
          /\ IsRows(filters')
        BY <2>1, <1>r DEF IsRows
    <2>3. \A w \in User : IsPanel(tab[w]) => RowsFollow(tab[w], filters')
        BY <2>2, <1>w DEF RowsFollow
    <2>4. FilterNamesDistinct'
        BY <2>2 DEF FilterNamesDistinct
    <2>5. DOMAIN filters' \subseteq Nat
        BY <2>2, <1>t
    <2> QED BY <2>1, <2>2, <2>3, <2>4, <2>5, PanelStep
<1> QED BY <1>1, <1>2, <1>3, <1>4, <1>5

-----------------------------------------------------------------------------
(* The theorems *)

LEMMA InitInv == Init => Inv
<1> SUFFICES ASSUME Init PROVE Inv
    OBVIOUS
<1> USE DEF Init, WebInit, FormsInit, FiltersInit
<1>1. ticket \in [version : Nat, content : Content, status : Status]
    <2>1. "TODO" \in Status
        BY DEF Status, AllowedTransitions
    <2> QED BY <2>1, WebAssumption
<1>2. \A u \in User : tab[u] = NoPage
    OBVIOUS
<1>3. IsRows(filters) /\ DOMAIN filters \subseteq Nat /\ DOMAIN filters = {}
    BY DEF IsRows
<1>4. TypeOK
    BY <1>1, <1>2, <1>3 DEF TypeOK, IsPage
<1>5. FormsFollow /\ PanelsFollow
    BY <1>2, NoPageIsNeither DEF FormsFollow, PanelsFollow
<1>6. FilterNamesDistinct
    BY <1>3 DEF FilterNamesDistinct
<1> QED BY <1>4, <1>5, <1>6 DEF Inv

LEMMA StepInv == Inv /\ [Next]_vars => Inv'
<1> SUFFICES ASSUME Inv, [Next]_vars PROVE Inv'
    OBVIOUS
<1>1. CASE FormsNext /\ UNCHANGED filters
    BY <1>1, FormsKeepInv
<1>2. CASE FiltersNext /\ UNCHANGED ticket
    BY <1>2, FiltersKeepInv
<1>3. CASE UNCHANGED <<tab, ticket, filters>>
    BY <1>3 DEF Inv, TypeOK, FormsFollow, PanelsFollow, FilterNamesDistinct
<1> QED BY <1>1, <1>2, <1>3 DEF Next, ChangeAccess, vars

\* The pages, the ticket and the filters have their types, and every page
\* follows the rows it was drawn from.
THEOREM InvHolds == Spec => []Inv
BY InitInv, StepInv, PTL DEF Spec

\* Names are distinct in every scope, for any users, names and filters.
THEOREM FilterNamesDistinctHolds == Spec => []FilterNamesDistinct
<1>1. Inv => FilterNamesDistinct
    BY DEF Inv
<1> QED BY <1>1, InvHolds, PTL

\* Who changes the content of the ticket sent the edit form of its version, and
\* no one else's page changes.
LEMMA ContentIsSaved ==
    ASSUME Inv, Next, ticket'.content # ticket.content
    PROVE  \E u \in User :
              /\ Submittable(tab[u]) /\ tab[u].expected = ticket.version
              /\ \A w \in User \ {u} : tab'[w] = tab[w]
<1> USE DEF Inv
<1>t. ticket \in [version : Nat, content : Content, status : Status]
    BY DEF TypeOK
<1>1. FormsNext
    BY DEF Next, ChangeAccess
<1>2. PICK u \in User :
        \/ OpenEdit(u)
        \/ \E kind \in PageKind : OpenTicket(u, kind)
        \/ SubmitInvalid(u) \/ SubmitForbidden(u)
        \/ SubmitLocked(u) \/ SubmitStale(u) \/ SubmitUnresolved(u)
        \/ \E c \in Content : Submit(u, c)
        \/ Redraw(u)
        \/ SendImage(u) \/ TakeImage(u) \/ AnswerImage(u)
        \/ \E target \in Status : Switch(u, target)
        \/ ChangeRelation(u)
    BY <1>1 DEF FormsNext
<1>3. ~ (OpenEdit(u) \/ SubmitInvalid(u) \/ SubmitForbidden(u) \/ SubmitLocked(u)
         \/ SubmitStale(u) \/ SubmitUnresolved(u) \/ Redraw(u)
         \/ SendImage(u) \/ AnswerImage(u) \/ \E kind \in PageKind : OpenTicket(u, kind))
    BY DEF OpenEdit, OpenTicket, SubmitInvalid, SubmitForbidden, SubmitLocked,
           SubmitStale, SubmitUnresolved, Refuse, Redraw,
           SendImage, AnswerImage
<1>4. ~ (TakeImage(u) \/ ChangeRelation(u))
    BY <1>t, TouchedRow DEF TakeImage, ChangeRelation
<1>5. \A target \in Status : ~ Switch(u, target)
    BY <1>t, TouchedRow DEF Switch
<1>6. PICK c \in Content : Submit(u, c)
    BY <1>2, <1>3, <1>4, <1>5
<1>7. Current(u) /\ Submittable(tab[u]) /\ Show(u, NoPage)
    BY <1>6 DEF Submit, Refuse
<1> QED BY <1>7, ShowsOne DEF Current

\* For any users and contents: a saved form replaces what its reader was shown,
\* unless it had been drawn again over a newer version, after a refusal that is
\* not a version conflict.
THEOREM SavesReplaceWhatWasShownHolds == Spec => SavesReplaceWhatWasShown
<1>1. ASSUME Inv, [Next]_vars, NEW u \in User,
             tab[u].page = "edit", ~ tab[u].mixed, tab'[u] # tab[u],
             ticket'.content # ticket.content
      PROVE  tab[u].seen = ticket.content
    <2>1. Next
        BY <1>1 DEF vars
    <2>2. Submittable(tab[u]) /\ tab[u].expected = ticket.version
        BY <1>1, <2>1, ContentIsSaved
    <2>3. tab[u] \in TicketPage
        BY <1>1, KindsOfPages DEF Inv, TypeOK
    <2>4. Follows(tab[u], ticket)
        BY <1>1, <2>3 DEF Inv, FormsFollow
    <2> QED BY <1>1, <2>2, <2>4 DEF Follows, HoldsVersion, Submittable
<1>2. Inv /\ [Next]_vars =>
        [ \A u \in User :
            tab[u].page = "edit" /\ ~ tab[u].mixed /\ tab'[u] # tab[u]
            /\ ticket'.content # ticket.content
              => tab[u].seen = ticket.content ]_ticket
    BY <1>1
<1> QED BY <1>2, InvHolds, PTL DEF Spec, SavesReplaceWhatWasShown

\* For any users: a status is left only from a page that shows it, with the
\* content of then.
THEOREM SwitchesWhatWasShownHolds == Spec => SwitchesWhatWasShown
<1>1. ASSUME Inv, [Next]_vars, ticket'.status # ticket.status
      PROVE  \E u \in User : /\ tab[u].page \in {"detail", "board"} /\ tab'[u] # tab[u]
                             /\ tab[u].status = ticket.status
                             /\ tab[u].seen = ticket.content
    <2>t. ticket \in [version : Nat, content : Content, status : Status] /\ TypeOK
        BY <1>1 DEF Inv, TypeOK
    <2>1. FormsNext
        BY <1>1 DEF Next, ChangeAccess, vars
    <2>2. PICK u \in User :
            \/ OpenEdit(u)
            \/ \E kind \in PageKind : OpenTicket(u, kind)
            \/ SubmitInvalid(u) \/ SubmitForbidden(u)
            \/ SubmitLocked(u) \/ SubmitStale(u) \/ SubmitUnresolved(u)
            \/ \E c \in Content : Submit(u, c)
            \/ Redraw(u)
            \/ SendImage(u) \/ TakeImage(u) \/ AnswerImage(u)
            \/ \E target \in Status : Switch(u, target)
            \/ ChangeRelation(u)
        BY <2>1 DEF FormsNext
    <2>3. ~ (OpenEdit(u) \/ SubmitInvalid(u) \/ SubmitForbidden(u) \/ SubmitLocked(u)
             \/ SubmitStale(u) \/ SubmitUnresolved(u) \/ Redraw(u)
             \/ SendImage(u) \/ AnswerImage(u) \/ \E kind \in PageKind : OpenTicket(u, kind))
        BY <1>1 DEF OpenEdit, OpenTicket, SubmitInvalid, SubmitForbidden, SubmitLocked,
                    SubmitStale, SubmitUnresolved, Refuse, Redraw,
               SendImage, AnswerImage
    <2>4. ~ (TakeImage(u) \/ ChangeRelation(u))
        BY <1>1, <2>t, TouchedRow DEF TakeImage, ChangeRelation
    <2>5. \A c \in Content : ~ Submit(u, c)
        BY <1>1, <2>t, TouchedRow DEF Submit, Refuse
    <2>6. PICK target \in Status : Switch(u, target)
        BY <2>2, <2>3, <2>4, <2>5
    <2>7. tab[u].page \in {"detail", "board"} /\ tab[u].expected = ticket.version /\ Show(u, NoPage)
        BY <2>6 DEF Switch, Accepted
    <2>8. tab[u] \in TicketPage
        BY <2>7, <2>t, KindsOfPages DEF TypeOK
    <2>9. Follows(tab[u], ticket)
        BY <1>1, <2>8 DEF Inv, FormsFollow
    <2>10. tab[u].seen = ticket.content /\ tab[u].status = ticket.status
        BY <2>7, <2>9 DEF Follows, HoldsVersion
    <2>11. tab'[u] # tab[u]
        BY <2>7, <2>8, <2>t, ShowsOne, NoPageIsNeither
    <2> QED BY <2>7, <2>10, <2>11
<1>2. Inv /\ [Next]_vars =>
        [ ticket'.status # ticket.status =>
            \E u \in User : /\ tab[u].page \in {"detail", "board"} /\ tab'[u] # tab[u]
                            /\ tab[u].status = ticket.status
                            /\ tab[u].seen = ticket.content ]_ticket
    BY <1>1
<1> QED BY <1>2, InvHolds, PTL DEF Spec, SwitchesWhatWasShown

\* For any users and filters: one is changed or deleted only from a page that
\* shows it as it is, by somebody who may.  Clocks may stand still and be set
\* back, but not so that a new row has the id and the stamp, or a later one, of a
\* row that a page still shows: the specification assumes StampOfNew.
THEOREM ChangesRowsAsShownHolds == Spec => ChangesRowsAsShown
<1>1. ASSUME Inv, [Next]_vars, NEW id \in DOMAIN filters,
             id \notin DOMAIN filters' \/ filters'[id] # filters[id]
      PROVE  \E u \in User :
                /\ tab[u].page = "panel" /\ tab'[u] # tab[u]
                /\ id \in DOMAIN tab[u].rows /\ tab[u].rows[id] = filters[id]
                /\ MayManage(u, filters[id].scope)
    <2>t. TypeOK
        BY <1>1 DEF Inv
    <2>1. FiltersNext
        BY <1>1 DEF Next, ChangeAccess, vars
    <2>2. PICK u \in User :
            \/ \E d \in Definition : OpenPanel(u, d)
            \/ \E i \in 1 .. MaxFilter, scope \in Scope, name \in FilterName, now \in Time :
                  StampOfNew(i, now) /\ CreateFilter(u, i, scope, name, now)
            \/ \E i \in DOMAIN filters :
                  \/ \E name \in FilterName, now \in Time : RenameFilter(u, i, name, now)
                  \/ \E now \in Time : OverwriteFilter(u, i, now)
                  \/ DeleteFilter(u, i)
        BY <2>1 DEF FiltersNext
    <2>3. \A d \in Definition : ~ OpenPanel(u, d)
        BY <1>1 DEF OpenPanel
    <2>4. ASSUME NEW i \in 1 .. MaxFilter, NEW scope \in Scope, NEW name \in FilterName,
                 NEW now \in Time, CreateFilter(u, i, scope, name, now)
          PROVE  FALSE
        <3>1. i \in Nat /\ i \notin DOMAIN filters
            BY <2>4, <2>t, WebAssumption DEF CreateFilter, NextId, TypeOK
        <3>2. id \in DOMAIN filters' /\ filters'[id] = filters[id]
            BY <2>4, <3>1 DEF CreateFilter
        <3> QED BY <3>2, <1>1
    <2>5. PICK i \in DOMAIN filters :
            \/ \E name \in FilterName, now \in Time : RenameFilter(u, i, name, now)
            \/ \E now \in Time : OverwriteFilter(u, i, now)
            \/ DeleteFilter(u, i)
        BY <2>2, <2>3, <2>4
    <2>6. CurrentRow(u, i) /\ Show(u, NoPage)
        BY <2>5 DEF RenameFilter, OverwriteFilter, ChangeFilter, DeleteFilter
    <2>7. i = id
        <3> SUFFICES ASSUME i # id PROVE FALSE
            OBVIOUS
        <3>1. ASSUME NEW name, NEW def, NEW now, ChangeFilter(u, i, name, def, now)
              PROVE  FALSE
            <4>1. filters = [j \in DOMAIN filters |-> filters[j]]
                BY <2>t DEF TypeOK, IsRows
            <4>2. id \in DOMAIN filters' /\ filters'[id] = filters[id]
                BY <3>1, <4>1 DEF ChangeFilter
            <4> QED BY <4>2, <1>1
        <3>2. ASSUME DeleteFilter(u, i) PROVE FALSE
            BY <3>2, <1>1 DEF DeleteFilter
        <3> QED BY <2>5, <3>1, <3>2 DEF RenameFilter, OverwriteFilter
    <2>8. IsPanel(tab[u]) /\ id \in DOMAIN tab[u].rows
        BY <2>6, <2>7, <2>t, KindsOfPages DEF CurrentRow, TypeOK
    <2>9. tab[u].rows[id] = filters[id]
        BY <1>1, <2>6, <2>7, <2>8 DEF Inv, PanelsFollow, RowsFollow, CurrentRow
    <2>10. tab'[u] # tab[u]
        BY <2>6, <2>8, <2>t, ShowsOne, NoPageIsNeither
    <2> QED BY <2>6, <2>7, <2>8, <2>9, <2>10 DEF CurrentRow
<1>2. Inv /\ [Next]_vars =>
        [ \A id \in DOMAIN filters :
            (id \notin DOMAIN filters' \/ filters'[id] # filters[id]) =>
              \E u \in User :
                 /\ tab[u].page = "panel" /\ tab'[u] # tab[u]
                 /\ id \in DOMAIN tab[u].rows /\ tab[u].rows[id] = filters[id]
                 /\ MayManage(u, filters[id].scope) ]_filters
    BY <1>1
<1> QED BY <1>2, InvHolds, PTL DEF Spec, ChangesRowsAsShown
=============================================================================

-------------------------- MODULE Discussion_proofs --------------------------
(***************************************************************************)
(* Proofs about Discussion, for any users, texts, numbers of comments and  *)
(* versions: open mentions follow the texts and keep the promise of        *)
(* MentionInbox, threads stay flat, and no edit is lost.                   *)
(***************************************************************************)
EXTENDS Discussion, TLAPS

USE DiscussionAssumption

-----------------------------------------------------------------------------
(* Types and threads *)

LEMMA SynchronizedTyped ==
  ASSUME NEW rows \in [User -> Row], NEW names
  PROVE  Synchronized(rows, names) \in [User -> Row]
  BY DEF Synchronized, Row

LEMMA InitTyped == Init => TypeOK /\ ThreadsStayFlat
  <1> SUFFICES ASSUME Init PROVE TypeOK /\ ThreadsStayFlat
    OBVIOUS
  <1>1. TypeOK
    <2>1. body \in [Source -> Body]
      <3>1. PICK b \in Body : body = [s \in Source |-> IF s = 0 THEN b ELSE [text |-> b.text, names |-> {}]]
        BY DEF Init
      <3> QED BY <3>1 DEF Body
    <2>2. row \in [Source -> [User -> Row]]
      <3>1. PICK b \in Body : row = [s \in Source |-> [u \in User |->
                                 IF s = 0 /\ u \in b.names THEN "unread" ELSE "none"]]
        BY DEF Init
      <3> QED BY <3>1 DEF Row
    <2>3. /\ count = 0 /\ parent = [s \in Source |-> 0] /\ version = [s \in Source |-> 1]
          /\ deletedAt = [s \in Source |-> 0] /\ page = [u \in User |-> {}]
          /\ access \in [User -> Access] /\ place = "open"
      BY DEF Init
    <2> QED BY <2>1, <2>2, <2>3, DiscussionAssumption DEF TypeOK, Source, Page, Place
  <1>2. ThreadsStayFlat
    BY DEF Init, ThreadsStayFlat
  <1> QED BY <1>1, <1>2

LEMMA ViewTyped ==
  ASSUME TypeOK, NEW a \in User, NEW s \in Source, View(a, s)
  PROVE  TypeOK'
  <1>1. [source |-> s, version |-> version[s], body |-> body[s]] \in Page
    BY DEF TypeOK, Page
  <1> QED BY <1>1 DEF TypeOK, View, comment, surroundings

LEMMA CreateTyped ==
  ASSUME TypeOK, NEW a \in User, NEW p \in Source, NEW b \in Body, CreateComment(a, p, b)
  PROVE  TypeOK'
  <1>1. count' \in 0 .. MaxComment /\ count' \in Source
    BY DEF TypeOK, CreateComment, Source
  <1>2. row' \in [Source -> [User -> Row]]
    BY <1>1, SynchronizedTyped DEF TypeOK, CreateComment, Synchronize
  <1> QED BY <1>1, <1>2 DEF TypeOK, CreateComment, surroundings

LEMMA ReplaceTyped ==
  ASSUME TypeOK, NEW p \in Page, NEW b \in Body, Replace(p, b)
  PROVE  /\ body' \in [Source -> Body]
         /\ version' \in [Source -> Nat]
         /\ row' \in [Source -> [User -> Row]]
  BY SynchronizedTyped DEF TypeOK, Replace, Synchronize, Page

LEMMA NextTyped == TypeOK /\ [Next]_vars => TypeOK'
  <1> SUFFICES ASSUME TypeOK, [Next]_vars PROVE TypeOK'
    OBVIOUS
  <1>1. ASSUME NEW a \in User, NEW b \in Body, UpdateComment(a, b) \/ UpdateDescription(a, b)
        PROVE  TypeOK'
    <2>1. PICK p \in Page : Replace(p, b)
      BY <1>1 DEF UpdateComment, UpdateDescription, TypeOK
    <2> QED BY <1>1, <2>1, ReplaceTyped
            DEF UpdateComment, UpdateDescription, TypeOK, comment, surroundings
  <1>2. ASSUME NEW a \in User, DeleteComment(a) PROVE TypeOK'
    <2>1. PICK p \in Page :
              /\ deletedAt' = [deletedAt EXCEPT ![p.source] = count + 1]
              /\ version' = [version EXCEPT ![p.source] = @ + 1]
              /\ Synchronize(p.source, {})
      BY <1>2 DEF DeleteComment, TypeOK
    <2>2. row' \in [Source -> [User -> Row]]
      BY <2>1, SynchronizedTyped DEF TypeOK, Synchronize, Page
    <2>3. deletedAt' \in [Source -> Nat] /\ version' \in [Source -> Nat]
      BY <2>1 DEF TypeOK, Page
    <2>4. page' \in [User -> SUBSET Page] /\ UNCHANGED <<count, parent, body, access, place>>
      BY <1>2 DEF DeleteComment, TypeOK, surroundings
    <2> QED BY <2>2, <2>3, <2>4 DEF TypeOK
  <1>3. ASSUME NEW u \in User, NEW S, MarkRead(u, S) PROVE TypeOK'
    BY <1>3 DEF MarkRead, TypeOK, Row, comment, surroundings
  <1>4. CASE AccessChanges \/ TicketChanges \/ ProjectChanges
    <2>1. access' \in [User -> Access] /\ place' \in Place
      BY <1>4 DEF AccessChanges, TicketChanges, ProjectChanges, TypeOK, Place
    <2>2. version' \in [Source -> Nat]
      BY <1>4 DEF AccessChanges, TicketChanges, ProjectChanges, TypeOK
    <2> QED BY <1>4, <2>1, <2>2
            DEF AccessChanges, TicketChanges, ProjectChanges, TypeOK, comment
  <1>5. CASE UNCHANGED vars
    BY <1>5 DEF vars, TypeOK
  <1> QED BY <1>1, <1>2, <1>3, <1>4, <1>5, ViewTyped, CreateTyped DEF Next

\* The types of TypeOK hold in every state.
THEOREM DiscussionTypes == Spec => []TypeOK
  <1>1. Init => TypeOK
    BY InitTyped
  <1> QED BY <1>1, NextTyped, PTL DEF Spec

LEMMA NextFlat == TypeOK /\ ThreadsStayFlat /\ [Next]_vars => ThreadsStayFlat'
  <1> SUFFICES ASSUME TypeOK, ThreadsStayFlat, [Next]_vars PROVE ThreadsStayFlat'
    OBVIOUS
  <1>1. ASSUME NEW a \in User, NEW p \in Source, NEW b \in Body, CreateComment(a, p, b)
        PROVE  ThreadsStayFlat'
    <2>1. /\ count \in Nat /\ count + 1 \in Source /\ count' = count + 1
          /\ parent' = [parent EXCEPT ![count + 1] = p] /\ deletedAt' = deletedAt
          /\ p = 0 \/ (p <= count /\ deletedAt[p] = 0 /\ parent[p] = 0)
      BY <1>1 DEF CreateComment, Repliable, Standing, Written, TypeOK, Source
    <2> SUFFICES ASSUME NEW s \in 1 .. count'
                 PROVE  LET q == parent'[s]
                        IN  q # 0 => /\ q < s /\ parent'[q] = 0
                                     /\ deletedAt'[q] # 0 => s < deletedAt'[q]
      BY DEF ThreadsStayFlat
    <2>3. CASE s = count + 1
      BY <2>1, <2>3 DEF TypeOK, Source
    <2>4. CASE s # count + 1
      BY <2>1, <2>4 DEF ThreadsStayFlat, TypeOK, Source
    <2> QED BY <2>3, <2>4
  <1>2. ASSUME NEW a \in User, DeleteComment(a) PROVE ThreadsStayFlat'
    <2>1. PICK p \in Page : deletedAt' = [deletedAt EXCEPT ![p.source] = count + 1]
      BY <1>2 DEF DeleteComment, TypeOK
    <2> QED BY <1>2, <2>1 DEF DeleteComment, ThreadsStayFlat, TypeOK, Source, Page
  <1>3. CASE UNCHANGED comment
    BY <1>3 DEF comment, ThreadsStayFlat
  <1> QED BY <1>1, <1>2, <1>3 DEF Next, View, UpdateComment, UpdateDescription, MarkRead,
             AccessChanges, TicketChanges, ProjectChanges, vars, comment

\* Threads keep two levels, and deleted comments get no replies.
THEOREM ThreadsAlwaysFlat == Spec => []ThreadsStayFlat
  <1>1. Init => ThreadsStayFlat
    BY InitTyped
  <1> QED BY <1>1, NextFlat, DiscussionTypes, PTL DEF Spec

-----------------------------------------------------------------------------
(* Mentions *)

LEMMA SynchronizedOpen ==
  ASSUME NEW rows, NEW names \in SUBSET User
  PROVE  {u \in User : Synchronized(rows, names)[u] \in Open} = names
  BY DEF Synchronized, Open

LEMMA SynchronizedUnread ==
  ASSUME NEW rows, NEW names \in SUBSET User
  PROVE  {u \in User : Synchronized(rows, names)[u] = "unread"} =
            ({u \in User : rows[u] = "unread"} \cap names)
               \cup (names \ {u \in User : rows[u] \in Open})
  BY DEF Synchronized, Open

\* What each operation on a text does to the rows and to what texts name.
TextStep(s, names) ==
    /\ row' = [row EXCEPT ![s] = Synchronized(row[s], names)]
    /\ \A t \in Source : Names(t)' = IF t = s THEN names ELSE Names(t)

\* The description is never deleted, and no comment before it is written.
Fresh == /\ deletedAt[0] = 0
         /\ \A s \in Source : s > count => deletedAt[s] = 0

LEMMA CreateIsText ==
  ASSUME TypeOK, Fresh, NEW a \in User, NEW p \in Source, NEW b \in Body,
         CreateComment(a, p, b)
  PROVE  \E s \in Source, names \in SUBSET User : TextStep(s, names)
  <1>1. /\ count \in Nat /\ count + 1 \in Source /\ count' = count + 1
        /\ body' = [body EXCEPT ![count + 1] = b] /\ deletedAt' = deletedAt
        /\ row' = [row EXCEPT ![count + 1] = Synchronized(row[count + 1], b.names)]
    BY DEF CreateComment, Synchronize, TypeOK, Source
  <1>2. b.names \in SUBSET User
    BY DEF Body
  <1>3. ASSUME NEW t \in Source
        PROVE  Names(t)' = IF t = count + 1 THEN b.names ELSE Names(t)
    <2>1. t \in Nat /\ body'[t] = IF t = count + 1 THEN b ELSE body[t]
      BY <1>1 DEF TypeOK, Source
    <2>2. t = count + 1 => deletedAt[t] = 0
      BY <1>1 DEF Fresh
    <2>3. Standing(t)' <=> t = count + 1 \/ Standing(t)
      BY <1>1, <2>1, <2>2 DEF Standing, Written
    <2> QED BY <2>1, <2>3 DEF Names
  <1> QED BY <1>1, <1>2, <1>3 DEF TextStep

LEMMA ReplaceIsText ==
  ASSUME TypeOK, NEW p \in Page, NEW b \in Body, Replace(p, b), Standing(p.source),
         UNCHANGED comment
  PROVE  \E s \in Source, names \in SUBSET User : TextStep(s, names)
  <1>1. /\ p.source \in Source
        /\ body' = [body EXCEPT ![p.source] = b]
        /\ row' = [row EXCEPT ![p.source] = Synchronized(row[p.source], b.names)]
    BY DEF Replace, Synchronize, Page
  <1>2. b.names \in SUBSET User
    BY DEF Body
  <1>3. ASSUME NEW t \in Source
        PROVE  Names(t)' = IF t = p.source THEN b.names ELSE Names(t)
    <2>1. body'[t] = IF t = p.source THEN b ELSE body[t]
      BY <1>1 DEF TypeOK
    <2>2. Standing(t)' <=> Standing(t)
      BY DEF Standing, Written, comment
    <2> QED BY <2>1, <2>2 DEF Names
  <1> QED BY <1>1, <1>2, <1>3 DEF TextStep

LEMMA DeleteIsText ==
  ASSUME TypeOK, NEW a \in User, DeleteComment(a)
  PROVE  \E s \in Source, names \in SUBSET User : TextStep(s, names)
  <1>1. PICK p \in Page :
            /\ deletedAt' = [deletedAt EXCEPT ![p.source] = count + 1]
            /\ row' = [row EXCEPT ![p.source] = Synchronized(row[p.source], {})]
    BY DEF DeleteComment, Synchronize, TypeOK
  <1>2. p.source \in Source /\ UNCHANGED <<count, body>> /\ count \in Nat
    BY DEF Page, DeleteComment, TypeOK
  <1>3. ASSUME NEW t \in Source
        PROVE  Names(t)' = IF t = p.source THEN {} ELSE Names(t)
    <2>1. deletedAt'[t] = IF t = p.source THEN count + 1 ELSE deletedAt[t]
      BY <1>1 DEF TypeOK
    <2>2. Standing(t)' <=> t # p.source /\ Standing(t)
      BY <1>2, <2>1 DEF Standing, Written
    <2> QED BY <1>2, <2>2 DEF Names
  <1> QED BY <1>1, <1>2, <1>3 DEF TextStep

LEMMA NextFresh == TypeOK /\ Fresh /\ [Next]_vars => Fresh'
  <1> SUFFICES ASSUME TypeOK, Fresh, [Next]_vars PROVE Fresh'
    OBVIOUS
  <1>1. CASE \E a \in User, p \in Source, b \in Body : CreateComment(a, p, b)
    BY <1>1 DEF CreateComment, Fresh, TypeOK, Source
  <1>2. ASSUME NEW a \in User, DeleteComment(a) PROVE Fresh'
    <2>1. PICK p \in Page : /\ p.source # 0 /\ Standing(p.source)
                            /\ deletedAt' = [deletedAt EXCEPT ![p.source] = count + 1]
      BY <1>2 DEF DeleteComment, TypeOK
    <2>2. count' = count /\ count \in Nat
      BY <1>2 DEF DeleteComment, TypeOK
    <2>3. p.source \in 0 .. count
      BY <2>1 DEF Standing, Written
    <2>4. ASSUME NEW s \in Source, s = 0 \/ s > count
          PROVE  deletedAt'[s] = deletedAt[s]
      <3>1. s # p.source
        BY <2>1, <2>2, <2>3, <2>4 DEF Source
      <3> QED BY <2>1, <3>1 DEF TypeOK
    <2> QED BY <2>2, <2>4 DEF Fresh, Source
  <1>3. CASE UNCHANGED comment
    BY <1>3 DEF comment, Fresh
  <1> QED BY <1>1, <1>2, <1>3 DEF Next, View, UpdateComment, UpdateDescription, MarkRead,
             AccessChanges, TicketChanges, ProjectChanges, vars, comment

\* A step writes one text, marks mentions read, or leaves mentions and texts alone.
LEMMA StepKinds ==
  ASSUME TypeOK, Fresh, [Next]_vars
  PROVE  \/ \E s \in Source, names \in SUBSET User : TextStep(s, names)
         \/ \E u \in User, S \in SUBSET Source : MarkRead(u, S)
         \/ row' = row /\ \A t \in Source : Names(t)' = Names(t)
  <1>1. ASSUME NEW a \in User, NEW b \in Body, UpdateComment(a, b) \/ UpdateDescription(a, b)
        PROVE  \E s \in Source, names \in SUBSET User : TextStep(s, names)
    <2>1. Standing(0)
      BY DEF Standing, Written, Fresh, TypeOK
    <2>2. PICK p \in Page : Standing(p.source) /\ Replace(p, b)
      BY <1>1, <2>1 DEF UpdateComment, UpdateDescription, TypeOK
    <2> QED BY <1>1, <2>2, ReplaceIsText DEF UpdateComment, UpdateDescription
  <1>2. ASSUME UNCHANGED <<comment, body, row>>
        PROVE  row' = row /\ \A t \in Source : Names(t)' = Names(t)
    BY <1>2 DEF Names, Standing, Written, comment
  <1>3. CASE \/ AccessChanges \/ TicketChanges \/ ProjectChanges \/ UNCHANGED vars
             \/ \E a \in User, s \in Source : View(a, s)
    BY <1>2, <1>3 DEF AccessChanges, TicketChanges, ProjectChanges, vars, View, comment
  <1>4. ASSUME NEW u \in User, NEW S, MarkRead(u, S) PROVE S \in SUBSET Source
    BY <1>4 DEF MarkRead, Inbox
  <1> QED BY <1>1, <1>3, <1>4, CreateIsText, DeleteIsText DEF Next

LEMMA NextFollows ==
  TypeOK /\ Fresh /\ MentionsFollowText /\ [Next]_vars => MentionsFollowText'
  <1> SUFFICES ASSUME TypeOK, Fresh, MentionsFollowText, [Next]_vars
               PROVE  MentionsFollowText'
    OBVIOUS
  <1>1. ASSUME NEW s \in Source, NEW names \in SUBSET User, TextStep(s, names),
               NEW t \in Source
        PROVE  {u \in User : row'[t][u] \in Open} = Names(t)'
    <2>1. row'[t] = IF t = s THEN Synchronized(row[s], names) ELSE row[t]
      BY <1>1 DEF TextStep, TypeOK
    <2>2. Names(t)' = IF t = s THEN names ELSE Names(t)
      BY <1>1 DEF TextStep
    <2>3. CASE t = s
      BY <2>1, <2>2, <2>3, SynchronizedOpen
    <2>4. CASE t # s
      BY <2>1, <2>2, <2>4 DEF MentionsFollowText
    <2> QED BY <2>3, <2>4
  <1>2. ASSUME NEW u \in User, NEW S \in SUBSET Source, MarkRead(u, S), NEW t \in Source
        PROVE  {v \in User : row'[t][v] \in Open} = Names(t)'
    <2>1. \A v \in User : row'[t][v] = IF t \in S /\ v = u THEN "read" ELSE row[t][v]
      BY <1>2 DEF MarkRead, TypeOK
    <2>2. t \in S => row[t][u] \in Open
      BY <1>2 DEF MarkRead, Inbox
    <2>3. Names(t)' = Names(t)
      BY <1>2 DEF MarkRead, Names, Standing, Written, comment
    <2> QED BY <2>1, <2>2, <2>3 DEF MentionsFollowText, Open
  <1>3. CASE row' = row /\ \A t \in Source : Names(t)' = Names(t)
    BY <1>3 DEF MentionsFollowText
  <1> QED BY <1>1, <1>2, <1>3, StepKinds DEF MentionsFollowText

LEMMA InitFollows == Init => Fresh /\ MentionsFollowText
  <1> SUFFICES ASSUME Init PROVE Fresh /\ MentionsFollowText
    OBVIOUS
  <1>1. Fresh
    BY DEF Init, Fresh, Source
  <1>2. PICK b \in Body : /\ body = [s \in Source |-> IF s = 0 THEN b ELSE [text |-> b.text, names |-> {}]]
                          /\ row = [s \in Source |-> [u \in User |->
                                IF s = 0 /\ u \in b.names THEN "unread" ELSE "none"]]
    BY DEF Init
  <1>3. ASSUME NEW s \in Source
        PROVE  {u \in User : row[s][u] \in Open} = Names(s)
    <2>1. Standing(s) <=> s = 0
      BY DEF Init, Standing, Written, Source
    <2>2. \A u \in User : row[s][u] \in Open <=> s = 0 /\ u \in b.names
      BY <1>2 DEF Open
    <2>3. b.names \in SUBSET User /\ (s = 0 => body[s] = b)
      BY <1>2 DEF Body
    <2> QED BY <2>1, <2>2, <2>3 DEF Names
  <1> QED BY <1>1, <1>3 DEF MentionsFollowText

LEMMA InvariantOfMentions == Spec => [](TypeOK /\ Fresh /\ MentionsFollowText)
  <1>1. Init => Fresh /\ MentionsFollowText
    BY InitFollows
  <1>2. TypeOK /\ Fresh /\ MentionsFollowText /\ [Next]_vars
           => Fresh' /\ MentionsFollowText'
    BY NextFresh, NextFollows
  <1> QED BY <1>1, <1>2, DiscussionTypes, PTL DEF Spec

\* The open mentions are those of the present texts.
THEOREM MentionsAlwaysFollow == Spec => []MentionsFollowText
  BY InvariantOfMentions, PTL

-----------------------------------------------------------------------------
(* The promise of MentionInbox *)

LEMMA InitPromises == Init => Promise!Init
  <1> SUFFICES ASSUME Init PROVE Promise!Init
    OBVIOUS
  <1>1. PICK b \in Body :
            row = [s \in Source |-> [u \in User |->
                      IF s = 0 /\ u \in b.names THEN "unread" ELSE "none"]]
    BY DEF Init
  <1>2. ASSUME NEW s \in Source
        PROVE  {u \in User : row[s][u] = "unread"} = {u \in User : row[s][u] \in Open}
    BY <1>1 DEF Open
  <1>3. ASSUME NEW s \in Source
        PROVE  /\ {u \in User : row[s][u] = "unread"} = Names(s)
               /\ Names(s) \in SUBSET User
    BY <1>2, InitFollows DEF MentionsFollowText
  <1> QED BY <1>3 DEF Promise!Init

LEMMA TextPromises ==
  ASSUME TypeOK, MentionsFollowText, NEW s \in Source, NEW names \in SUBSET User,
         TextStep(s, names)
  PROVE  Promise!Write(s, names)
  <1> DEFINE unread(t) == {u \in User : row[t][u] = "unread"}
  <1>1. ASSUME NEW t \in Source
        PROVE  unread(t)' = IF t = s THEN (unread(t) \cap names) \cup (names \ Names(s))
                            ELSE unread(t)
    <2>1. row'[t] = IF t = s THEN Synchronized(row[s], names) ELSE row[t]
      BY DEF TextStep, TypeOK
    <2>2. {u \in User : row[s][u] \in Open} = Names(s)
      BY DEF MentionsFollowText
    <2>3. CASE t = s
      BY <2>1, <2>2, <2>3, SynchronizedUnread
    <2>4. CASE t # s
      BY <2>1, <2>4
    <2> QED BY <2>3, <2>4
  <1>2. ASSUME NEW t \in Source
        PROVE  Names(t)' = IF t = s THEN names ELSE Names(t)
    BY DEF TextStep
  <1>3. [t \in Source |-> unread(t)]' =
           [[t \in Source |-> unread(t)] EXCEPT
               ![s] = (@ \cap names) \cup (names \ [t \in Source |-> Names(t)][s])]
    BY <1>1
  <1>4. [t \in Source |-> Names(t)]' = [[t \in Source |-> Names(t)] EXCEPT ![s] = names]
    BY <1>2
  <1> QED BY <1>3, <1>4 DEF Promise!Write

LEMMA ReadPromises ==
  ASSUME TypeOK, NEW u \in User, NEW S \in SUBSET Source, MarkRead(u, S)
  PROVE  Promise!Read(u, S)
  <1>1. ASSUME NEW t \in Source
        PROVE  {v \in User : row'[t][v] = "unread"} =
                  IF t \in S THEN {v \in User : row[t][v] = "unread"} \ {u}
                  ELSE {v \in User : row[t][v] = "unread"}
    <2>1. \A v \in User : row'[t][v] = IF t \in S /\ v = u THEN "read" ELSE row[t][v]
      BY DEF MarkRead, TypeOK
    <2> QED BY <2>1
  <1>2. ASSUME NEW t \in Source PROVE Names(t)' = Names(t)
    BY DEF MarkRead, Names, Standing, Written, comment
  <1> QED BY <1>1, <1>2 DEF Promise!Read

\* Mentions keep the promise of MentionInbox, whatever the order of edits, deletions,
\* reading and the changes of members.
THEOREM InboxKept == Spec => KeepsInbox
  <1>1. Init => Promise!Init
    BY InitPromises
  <1>2. TypeOK /\ Fresh /\ MentionsFollowText /\ [Next]_vars
           => [Promise!Next]_(Promise!vars)
    <2> SUFFICES ASSUME TypeOK, Fresh, MentionsFollowText, [Next]_vars
                 PROVE  [Promise!Next]_(Promise!vars)
      OBVIOUS
    <2>1. CASE \E s \in Source, names \in SUBSET User : TextStep(s, names)
      BY <2>1, TextPromises DEF Promise!Next
    <2>2. CASE \E u \in User, S \in SUBSET Source : MarkRead(u, S)
      BY <2>2, ReadPromises DEF Promise!Next
    <2>3. CASE row' = row /\ \A t \in Source : Names(t)' = Names(t)
      BY <2>3 DEF Promise!vars
    <2> QED BY <2>1, <2>2, <2>3, StepKinds
  <1> QED BY <1>1, <1>2, InvariantOfMentions, PTL DEF Spec, Promise!Spec, KeepsInbox

-----------------------------------------------------------------------------
(* Edits *)

\* What a user sees is not newer than the text, and is the text when the versions agree.
PagesCurrent ==
    \A a \in User : \A p \in page[a] :
        /\ p.source \in Written /\ p.version <= version[p.source]
        /\ p.version = version[p.source] => p.body = body[p.source]

LEMMA ReplaceKeepsPages ==
  ASSUME TypeOK, PagesCurrent, NEW a \in User, NEW q \in page[a], NEW b \in Body,
         Replace(q, b), page' = [page EXCEPT ![a] = {}], count' = count
  PROVE  PagesCurrent'
  <1>1. q \in Page /\ q.source \in Source
    BY DEF TypeOK, Page
  <1> SUFFICES ASSUME NEW c \in User, NEW p \in page'[c]
               PROVE  /\ p.source \in Written' /\ p.version <= version'[p.source]
                      /\ p.version = version'[p.source] => p.body = body'[p.source]
    BY DEF PagesCurrent
  <1>2. p \in page[c] /\ p \in Page
    BY DEF TypeOK
  <1>3. /\ p.source \in Written /\ p.version <= version[p.source]
        /\ p.version = version[p.source] => p.body = body[p.source]
    BY <1>2 DEF PagesCurrent
  <1>4. p.source \in Source /\ p.version \in Nat /\ version[p.source] \in Nat
    BY <1>2 DEF Page, TypeOK
  <1>5. CASE p.source = q.source
    <2>1. version'[p.source] = version[p.source] + 1
      BY <1>1, <1>5 DEF Replace, TypeOK
    <2> QED BY <2>1, <1>3, <1>4 DEF Written
  <1>6. CASE p.source # q.source
    <2>1. version'[p.source] = version[p.source] /\ body'[p.source] = body[p.source]
      BY <1>1, <1>4, <1>6 DEF Replace, TypeOK
    <2> QED BY <2>1, <1>3 DEF Written
  <1> QED BY <1>5, <1>6

LEMMA NextPages == TypeOK /\ PagesCurrent /\ [Next]_vars => PagesCurrent'
  <1> SUFFICES ASSUME TypeOK, PagesCurrent, [Next]_vars PROVE PagesCurrent'
    OBVIOUS
  <1>1. ASSUME NEW a \in User, NEW s \in Source, View(a, s) PROVE PagesCurrent'
    <2>1. /\ page' = [page EXCEPT ![a] =
                         {[source |-> s, version |-> version[s], body |-> body[s]]}]
          /\ UNCHANGED <<count, body, version>> /\ s \in Written
      BY <1>1 DEF View, comment, Standing
    <2> QED BY <2>1 DEF PagesCurrent, TypeOK, Written
  <1>2. ASSUME NEW a \in User, NEW r \in Source, NEW b \in Body, CreateComment(a, r, b)
        PROVE  PagesCurrent'
    <2>1. /\ count' = count + 1 /\ count \in Nat /\ UNCHANGED <<version, page>>
          /\ body' = [body EXCEPT ![count + 1] = b]
      BY <1>2 DEF CreateComment, TypeOK
    <2>2. ASSUME NEW c \in User, NEW p \in page[c]
          PROVE  /\ p.source \in Written' /\ body'[p.source] = body[p.source]
      <3>1. p.source \in 0 .. count /\ p.source \in Source
        BY <2>2 DEF PagesCurrent, Written, TypeOK, Page
      <3> QED BY <2>1, <3>1 DEF Written, TypeOK
    <2> QED BY <2>1, <2>2 DEF PagesCurrent
  <1>3. ASSUME NEW a \in User, NEW b \in Body, UpdateComment(a, b) \/ UpdateDescription(a, b)
        PROVE  PagesCurrent'
    BY <1>3, ReplaceKeepsPages DEF UpdateComment, UpdateDescription, comment
  <1>4. ASSUME NEW a \in User, DeleteComment(a) PROVE PagesCurrent'
    <2>1. PICK q \in Page : version' = [version EXCEPT ![q.source] = @ + 1]
      BY <1>4 DEF DeleteComment, TypeOK
    <2>2. page' = [page EXCEPT ![a] = {}] /\ UNCHANGED <<count, body>>
      BY <1>4 DEF DeleteComment
    <2>3. ASSUME NEW c \in User, NEW p \in page'[c]
          PROVE  /\ p.source \in Written' /\ p.version <= version'[p.source]
                 /\ p.version = version'[p.source] => p.body = body'[p.source]
      <3>1. p \in page[c] /\ p \in Page
        BY <2>2 DEF TypeOK
      <3>2. /\ p.source \in Source /\ p.version \in Nat /\ version[p.source] \in Nat
            /\ q.source \in Source
        BY <3>1 DEF Page, TypeOK
      <3>3. version'[p.source] \in {version[p.source], version[p.source] + 1}
        BY <2>1, <3>2 DEF TypeOK
      <3> QED BY <2>2, <3>1, <3>2, <3>3 DEF PagesCurrent, Written
    <2> QED BY <2>3 DEF PagesCurrent
  <1>5. ASSUME UNCHANGED <<count, body, version, page>> PROVE PagesCurrent'
    BY <1>5 DEF PagesCurrent, Written
  <1>6. CASE TicketChanges
    <2>1. UNCHANGED <<count, body, page>>
      BY <1>6 DEF TicketChanges, comment
    <2>2. version' = [version EXCEPT ![0] = @ + 1]
      BY <1>6 DEF TicketChanges
    <2>3. ASSUME NEW c \in User, NEW p \in page[c]
          PROVE  /\ p.version <= version'[p.source]
                 /\ p.version = version'[p.source] => p.body = body[p.source]
      <3>1. p \in Page
        BY <2>3 DEF TypeOK
      <3>2. p.source \in Source /\ p.version \in Nat /\ version[p.source] \in Nat
        BY <3>1 DEF Page, TypeOK
      <3>3. version'[p.source] \in {version[p.source], version[p.source] + 1}
        BY <2>2, <3>2 DEF TypeOK
      <3> QED BY <3>2, <3>3 DEF PagesCurrent
    <2> QED BY <2>1, <2>3 DEF PagesCurrent, Written
  <1> QED BY <1>1, <1>2, <1>3, <1>4, <1>5, <1>6
       DEF Next, MarkRead, AccessChanges, ProjectChanges, vars, comment

\* Whoever replaces or deletes a text has seen just this text.
THEOREM EditsNeverLost == Spec => NoLostEdit
  <1>1. Init => PagesCurrent
    BY DEF Init, PagesCurrent
  <1>2. TypeOK /\ PagesCurrent /\ [Next]_vars =>
           [\A s \in Written :
              (body'[s] # body[s] \/ deletedAt'[s] # deletedAt[s]) =>
                  \E a \in User : /\ page'[a] = {}
                                  /\ \E p \in page[a] : p.source = s /\ p.body = body[s]]_vars
    <2> SUFFICES ASSUME TypeOK, PagesCurrent, Next, NEW s \in Written,
                        body'[s] # body[s] \/ deletedAt'[s] # deletedAt[s]
                 PROVE  \E a \in User : /\ page'[a] = {}
                                        /\ \E p \in page[a] : p.source = s /\ p.body = body[s]
      OBVIOUS
    <2>1. ASSUME NEW a \in User, NEW q \in page[a], SeenNow(q),
                 page' = [page EXCEPT ![a] = {}], q.source = s
          PROVE  /\ page'[a] = {}
                 /\ \E p \in page[a] : p.source = s /\ p.body = body[s]
      BY <2>1 DEF PagesCurrent, SeenNow, TypeOK
    <2>2. ASSUME NEW a \in User, NEW r \in Source, NEW b \in Body, CreateComment(a, r, b)
          PROVE  FALSE
      <3>1. s # count + 1
        BY DEF Written, TypeOK
      <3> QED BY <2>2, <3>1 DEF CreateComment, TypeOK
    <2>3. ASSUME NEW a \in User, NEW b \in Body, UpdateComment(a, b) \/ UpdateDescription(a, b)
          PROVE  \E q \in page[a] : SeenNow(q) /\ q.source = s /\ page' = [page EXCEPT ![a] = {}]
      <3>1. PICK q \in page[a] : Replace(q, b)
        BY <2>3 DEF UpdateComment, UpdateDescription
      <3>2. deletedAt' = deletedAt /\ page' = [page EXCEPT ![a] = {}]
        BY <2>3 DEF UpdateComment, UpdateDescription, comment
      <3>3. q.source = s
        BY <3>1, <3>2 DEF Replace, TypeOK
      <3> QED BY <3>1, <3>2, <3>3 DEF Replace
    <2>4. ASSUME NEW a \in User, DeleteComment(a)
          PROVE  \E q \in page[a] : SeenNow(q) /\ q.source = s /\ page' = [page EXCEPT ![a] = {}]
      <3>1. PICK q \in page[a] : /\ SeenNow(q)
                                 /\ deletedAt' = [deletedAt EXCEPT ![q.source] = count + 1]
        BY <2>4 DEF DeleteComment
      <3>2. body' = body /\ page' = [page EXCEPT ![a] = {}]
        BY <2>4 DEF DeleteComment
      <3>3. q.source = s
        BY <3>1, <3>2 DEF TypeOK
      <3> QED BY <3>1, <3>2, <3>3
    <2>5. ASSUME UNCHANGED <<body, deletedAt>> PROVE FALSE
      BY <2>5
    <2> QED BY <2>1, <2>2, <2>3, <2>4, <2>5
            DEF Next, View, MarkRead, AccessChanges, TicketChanges, ProjectChanges, comment
  <1> QED BY <1>1, <1>2, NextPages, DiscussionTypes, PTL DEF Spec, NoLostEdit
=============================================================================

----------------------------- MODULE Discussion -----------------------------
(***************************************************************************)
(* app/services/comments.py and app/services/mentions.py: the thread of    *)
(* one ticket and the mentions in its texts, with those of the description *)
(* (app/services/tickets.py create_ticket, update_ticket).                 *)
(*                                                                         *)
(* Every write is one transaction under SQLite's write lock and so one     *)
(* action; a refused one changes nothing.  What a user edits or deletes is *)
(* what an earlier page showed.  A body is the set of users that it names  *)
(* and the rest of its text.                                               *)
(***************************************************************************)
EXTENDS Naturals

CONSTANTS
    User,
    Text,           \* what a body says besides the mentions
    MaxComment,     \* bound: comments ever written to the ticket
    MaxVersion      \* bound: versions of one text

ASSUME DiscussionAssumption == MaxComment \in Nat /\ MaxVersion \in Nat

Source == 0 .. MaxComment   \* 0 is the description of the ticket
Body == [text : Text, names : SUBSET User]

\* Users in the project: active members with and without the right to write,
\* active administrators who are no members, members whose account is inactive.
Access == {"writer", "guest", "override", "inactive", "none"}
Member == {"writer", "guest"}

\* What the ticket and the project allow: all, comments, reading, nothing.
Place == {"open", "finished", "archived", "trashed"}

VARIABLES
    count,      \* comments written so far
    parent,     \* parent_comment_id, 0 for a root
    body,       \* body_document
    version,
    deletedAt,  \* 0, or the number of comments written by then, plus one
    row,        \* mentions row of each text and user
    page,       \* a text that a user sees on a page or has in a form
    access, place

vars == <<count, parent, body, version, deletedAt, row, page, access, place>>
comment == <<count, parent, deletedAt>>
surroundings == <<access, place>>

Row == {"none", "unread", "read", "removed"}
Open == {"unread", "read"}
Page == [source : Source, version : Nat, body : Body]

Written == 0 .. count
Standing(s) == s \in Written /\ deletedAt[s] = 0

Init ==
    /\ count = 0
    /\ parent = [s \in Source |-> 0]
    /\ access \in [User -> Access]
    /\ \E b \in Body :
          /\ \A u \in b.names : access[u] \in Member
          /\ body = [s \in Source |-> IF s = 0 THEN b ELSE [text |-> b.text, names |-> {}]]
          /\ row = [s \in Source |-> [u \in User |->
                      IF s = 0 /\ u \in b.names THEN "unread" ELSE "none"]]
    /\ version = [s \in Source |-> 1]
    /\ deletedAt = [s \in Source |-> 0]
    /\ page = [u \in User |-> {}]
    /\ place = "open"

-----------------------------------------------------------------------------
(* Checks under the lock *)

CanRead(a) == access[a] \in {"writer", "guest", "override"} /\ place # "trashed"

CanWrite(a) == access[a] \in {"writer", "override"}

\* validate_mentions: active members, of whatever role.
Mentionable(names) == \A u \in names : access[u] \in Member

\* The mutated form writes whatever the version.
SeenAny(p) == TRUE

SeenNow(p) == p.version = version[p.source]

-----------------------------------------------------------------------------
(* synchronize_mentions *)

\* The mutated form makes every mention of the new text unread.
SynchronizedAfresh(rows, names) ==
    [u \in User |-> IF u \in names THEN "unread"
                    ELSE IF rows[u] \in Open THEN "removed" ELSE rows[u]]

\* The mutated form only adds.
SynchronizedAdding(rows, names) ==
    [u \in User |-> IF u \in names /\ rows[u] \notin Open THEN "unread" ELSE rows[u]]

Synchronized(rows, names) ==
    [u \in User |->
        IF u \in names THEN (IF rows[u] \in Open THEN rows[u] ELSE "unread")
        ELSE IF rows[u] \in Open THEN "removed" ELSE rows[u]]

Synchronize(s, names) == row' = [row EXCEPT ![s] = Synchronized(row[s], names)]

-----------------------------------------------------------------------------
(* Operations *)

\* list_ticket_comments or the page of the ticket; a form keeps what it shows.
View(a, s) ==
    /\ CanRead(a) /\ Standing(s)
    /\ page' = [page EXCEPT ![a] =
                   {[source |-> s, version |-> version[s], body |-> body[s]]}]
    /\ UNCHANGED <<comment, body, version, row, surroundings>>

\* The mutated form looks at the parent's depth only.
RepliableEvenDeleted(p) == p = 0 \/ (p \in Written /\ parent[p] = 0)

\* _get_reply_parent_row; 0 asks for a root comment.
Repliable(p) == p = 0 \/ (Standing(p) /\ parent[p] = 0)

CreateComment(a, p, b) ==
    /\ count < MaxComment
    /\ CanWrite(a) /\ place \in {"open", "finished"}
    /\ Repliable(p) /\ Mentionable(b.names)
    /\ count' = count + 1
    /\ parent' = [parent EXCEPT ![count'] = p]
    /\ body' = [body EXCEPT ![count'] = b]
    /\ Synchronize(count', b.names)
    /\ UNCHANGED <<version, deletedAt, page, surroundings>>

Replace(p, b) ==
    /\ b # body[p.source] /\ Mentionable(b.names)
    /\ SeenNow(p)
    /\ version[p.source] < MaxVersion
    /\ body' = [body EXCEPT ![p.source] = b]
    /\ version' = [version EXCEPT ![p.source] = @ + 1]
    /\ Synchronize(p.source, b.names)

\* The author plays no part: whoever may write may edit and delete.
UpdateComment(a, b) ==
    /\ CanWrite(a) /\ place \in {"open", "finished"}
    /\ \E p \in page[a] : p.source # 0 /\ Standing(p.source) /\ Replace(p, b)
    /\ page' = [page EXCEPT ![a] = {}]
    /\ UNCHANGED <<comment, surroundings>>

\* update_ticket, as far as the description goes
UpdateDescription(a, b) ==
    /\ CanWrite(a) /\ place = "open"
    /\ \E p \in page[a] : p.source = 0 /\ Replace(p, b)
    /\ page' = [page EXCEPT ![a] = {}]
    /\ UNCHANGED <<comment, surroundings>>

DeleteComment(a) ==
    /\ CanWrite(a) /\ place \in {"open", "finished"}
    /\ \E p \in page[a] :
          /\ p.source # 0 /\ Standing(p.source)
          /\ SeenNow(p)
          /\ version[p.source] < MaxVersion
          /\ deletedAt' = [deletedAt EXCEPT ![p.source] = count + 1]
          /\ version' = [version EXCEPT ![p.source] = @ + 1]
          /\ Synchronize(p.source, {})
    /\ page' = [page EXCEPT ![a] = {}]
    /\ UNCHANGED <<count, parent, body, surroundings>>

\* inbox_mentions; also in an archived project
Inbox(u) ==
    {s \in Source : /\ access[u] \in Member /\ place # "trashed"
                    /\ Standing(s) /\ row[s][u] \in Open}

\* mark_read of one mention, or of all
MarkRead(u, S) ==
    /\ S \subseteq Inbox(u)
    /\ row' = [s \in Source |->
                 IF s \in S THEN [row[s] EXCEPT ![u] = "read"] ELSE row[s]]
    /\ UNCHANGED <<comment, body, version, page, surroundings>>

\* Members and accounts change.
AccessChanges ==
    /\ \E u \in User : \E x \in Access \ {access[u]} : access' = [access EXCEPT ![u] = x]
    /\ UNCHANGED <<comment, body, version, row, page, place>>

\* The ticket is written: its other fields, its status, into and out of the trash.
TicketChanges ==
    /\ place # "archived" /\ version[0] < MaxVersion
    /\ place' \in {"open", "finished", "trashed"}
    /\ place = "trashed" => place' # "trashed"
    /\ version' = [version EXCEPT ![0] = @ + 1]
    /\ UNCHANGED <<comment, body, row, page, access>>

\* The project is archived or activated again, with the ticket in any state.
ProjectChanges ==
    /\ IF place = "archived" THEN place' \in Place \ {"archived"} ELSE place' = "archived"
    /\ UNCHANGED <<comment, body, version, row, page, access>>

Next ==
    \/ \E a \in User, s \in Source : View(a, s)
    \/ \E a \in User, p \in Source, b \in Body : CreateComment(a, p, b)
    \/ \E a \in User, b \in Body : UpdateComment(a, b) \/ UpdateDescription(a, b)
    \/ \E a \in User : DeleteComment(a)
    \/ \E u \in User : \/ \E s \in Inbox(u) : MarkRead(u, {s})
                       \/ MarkRead(u, Inbox(u))
    \/ AccessChanges \/ TicketChanges \/ ProjectChanges

Spec == Init /\ [][Next]_vars

-----------------------------------------------------------------------------
(* Properties *)

TypeOK ==
    /\ count \in 0 .. MaxComment
    /\ parent \in [Source -> Source]
    /\ body \in [Source -> Body]
    /\ version \in [Source -> Nat]
    /\ deletedAt \in [Source -> Nat]
    /\ row \in [Source -> [User -> Row]]
    /\ page \in [User -> SUBSET Page]
    /\ access \in [User -> Access]
    /\ place \in Place

\* Whom a text names: nobody once it is deleted.
Names(s) == IF Standing(s) THEN body[s].names ELSE {}

\* The open mentions are those of the present texts, through edits, deletions and
\* renewed mentions (CNT-016, docs/mentions.md).
MentionsFollowText ==
    \A s \in Source : {u \in User : row[s][u] \in Open} = Names(s)

\* The rows keep the promise of MentionInbox: a mention that stays keeps its mark,
\* one that returns is unread again, and only its target reads it.
Promise == INSTANCE MentionInbox WITH
              mentioned <- [s \in Source |-> Names(s)],
              unread <- [s \in Source |-> {u \in User : row[s][u] = "unread"}]

KeepsInbox == Promise!Spec

\* The thread has two levels, and no reply came after the deletion of its
\* root; replies made before stay (CNT-012).
ThreadsStayFlat ==
    \A s \in 1 .. count :
        LET p == parent[s]
        IN  p # 0 => /\ p < s /\ parent[p] = 0
                     /\ deletedAt[p] # 0 => s < deletedAt[p]

\* A text is replaced, or deleted, only by a user who saw just this text.
NoLostEdit ==
    [][\A s \in Written :
          (body'[s] # body[s] \/ deletedAt'[s] # deletedAt[s]) =>
              \E a \in User : /\ page'[a] = {}
                              /\ \E p \in page[a] : p.source = s /\ p.body = body[s]]_vars
=============================================================================

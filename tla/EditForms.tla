----------------------------- MODULE EditForms -----------------------------
(***************************************************************************)
(* The pages of one ticket that can change it: the edit form, the detail   *)
(* page with its buttons and the board (app/web/tickets.py, the templates, *)
(* frontend/tiptap-editor.js and static/board.js).                         *)
(*                                                                         *)
(* Every form sends back expected_version.  An image put into an editor is *)
(* uploaded at once, against a version the editor keeps for itself, and    *)
(* the version in the answer replaces that of every form of the page.      *)
(*                                                                         *)
(* What makes a status unreachable but its predecessor (dependencies, open *)
(* children), trash and creation are left out: they are in WorkSystem.     *)
(***************************************************************************)
EXTENDS WebState

VARIABLE ticket

AllowedTransitions ==
    [TODO        |-> {"IN_PROGRESS", "ON_HOLD", "CANCELLED"},
     IN_PROGRESS |-> {"DONE", "ON_HOLD", "CANCELLED"},
     ON_HOLD     |-> {"TODO", "IN_PROGRESS", "CANCELLED"},
     DONE        |-> {"IN_PROGRESS"},
     CANCELLED   |-> {"TODO"}]
Status == DOMAIN AllowedTransitions
Terminal == {"DONE", "CANCELLED"}

FormsInit == ticket = [version |-> 1, content |-> FirstContent, status |-> "TODO"]

\* A page drawn from the row as it is now.  expected: what its forms send;
\* image: what its editors send; seen and status: what the reader saw.
\* mixed: drawn again, with its button, over a newer version than its entries'.
Fresh(kind) ==
    [page |-> kind, seen |-> ticket.content, status |-> ticket.status,
     expected |-> ticket.version, image |-> ticket.version,
     refused |-> "no", mixed |-> FALSE, upload |-> "none", answer |-> 0]

Touched == [ticket EXCEPT !.version = @ + 1]
MayGrow == ticket.version < MaxVersion

\* get_ticket_edit_options
Editable(u) == Writer(u) /\ projectActive /\ ticket.status \notin Terminal

OpenEdit(u) ==
    /\ "edit" \in visited
    /\ Editable(u)
    /\ Show(u, Fresh("edit"))
    /\ UNCHANGED <<access, ticket>>

OpenTicket(u, kind) ==
    /\ kind \in visited \cap {"detail", "board"}
    /\ Member(u)
    /\ Show(u, Fresh(kind))
    /\ UNCHANGED <<access, ticket>>

-----------------------------------------------------------------------------
(* update_ticket_submit *)

SubmittableAfterConflict(p) ==   \* mutant: the button stays enabled
    p.page = "edit" /\ p.upload = "none"

\* The button is disabled on the page of a conflict, and waits for uploads.
Submittable(p) == p.page = "edit" /\ p.refused # "conflict" /\ p.upload = "none"

\* The request is answered after its transaction is rolled back, by the form
\* with the entries that were sent; "conflict" only for ticket_version_conflict.
Refuse(u, why) ==
    /\ Show(u, [tab[u] EXCEPT !.page = "refused", !.refused = why])
    /\ UNCHANGED <<access, ticket>>

\* TicketUpdate or the rich text does not validate, or the database is busy: no
\* version is compared.
SubmitInvalid(u) ==
    /\ Submittable(tab[u])
    /\ Refuse(u, "error")

\* Who may not write gets an error page.
SubmitForbidden(u) ==
    /\ Submittable(tab[u])
    /\ ~ Writer(u)
    /\ Show(u, NoPage)
    /\ UNCHANGED <<access, ticket>>

\* The project is inactive, which is asked before the version, or the ticket of
\* this version is finished, which is asked after it.
Locked(p) == ~ projectActive \/ (p.expected = ticket.version /\ ticket.status \in Terminal)

SubmitLocked(u) ==
    /\ Submittable(tab[u])
    /\ Writer(u) /\ Locked(tab[u])
    /\ Refuse(u, "error")

SubmitStale(u) ==
    /\ Submittable(tab[u])
    /\ Writer(u) /\ projectActive /\ tab[u].expected # ticket.version
    /\ Refuse(u, "conflict")

Current(u) == Editable(u) /\ tab[u].expected = ticket.version

\* Parent, assignee, mentions and images are looked up after the version.
SubmitUnresolved(u) ==
    /\ Submittable(tab[u])
    /\ Current(u)
    /\ Refuse(u, "error")

Submit(u, c) ==
    /\ Submittable(tab[u])
    /\ Current(u)
    /\ \/ c = ticket.content /\ UNCHANGED ticket
       \/ /\ c # ticket.content /\ MayGrow
          /\ ticket' = [Touched EXCEPT !.content = c]
    /\ Show(u, NoPage)
    /\ UNCHANGED access

\* _render_ticket_edit_page: expected_version is the one that was sent, the
\* version for images is the row's.
Redrawn(p) ==
    [p EXCEPT !.page = "edit", !.image = ticket.version,
              !.mixed = @ \/ (p.refused # "conflict" /\ p.expected # ticket.version)]

\* By then the project may be active and the ticket unfinished again.
Redraw(u) ==
    /\ tab[u].page = "refused"
    /\ Show(u, IF Editable(u) THEN Redrawn(tab[u]) ELSE NoPage)
    /\ UNCHANGED <<access, ticket>>

-----------------------------------------------------------------------------
(* uploadEditorImage and updateTicketVersion *)

SendImage(u) ==
    /\ tab[u].page \in {"edit", "detail"}
    /\ tab[u].upload = "none"
    /\ Show(u, [tab[u] EXCEPT !.upload = "sent"])
    /\ UNCHANGED <<access, ticket>>

ImageAcceptedAnyVersion(u) == Writer(u) /\ projectActive   \* mutant: no version check

ImageAccepted(u) == Writer(u) /\ projectActive /\ tab[u].image = ticket.version

TakeImage(u) ==
    /\ tab[u].page \in {"edit", "detail"}
    /\ tab[u].upload = "sent"
    /\ \/ /\ ImageAccepted(u) /\ MayGrow
          /\ ticket' = Touched
          /\ Show(u, [tab[u] EXCEPT !.upload = "accepted", !.answer = ticket.version + 1])
       \/ /\ ~ ImageAccepted(u)
          /\ Show(u, [tab[u] EXCEPT !.upload = "rejected"])
          /\ UNCHANGED ticket
    /\ UNCHANGED access

\* The answer arrives, or it is lost and the page keeps its versions.
AnswerImage(u) ==
    /\ tab[u].page \in {"edit", "detail"}
    /\ \/ /\ tab[u].upload = "accepted"
          /\ Show(u, [tab[u] EXCEPT !.upload = "none", !.answer = 0,
                                    !.expected = tab[u].answer, !.image = tab[u].answer])
       \/ /\ tab[u].upload \in {"accepted", "rejected"}
          /\ Show(u, [tab[u] EXCEPT !.upload = "none", !.answer = 0])
    /\ UNCHANGED <<access, ticket>>

-----------------------------------------------------------------------------
(* transition_ticket_submit, static/board.js and the other forms of a ticket. *)
(* A rejected request changes nothing; the page that answers it is drawn from *)
(* the row as it is by then, which is OpenTicket, or the board stays.         *)

Accepted(u) == Writer(u) /\ projectActive /\ tab[u].expected = ticket.version

Switch(u, target) ==
    /\ tab[u].page \in {"detail", "board"}
    /\ target \in AllowedTransitions[tab[u].status]     \* a button, a drop target
    /\ Accepted(u) /\ MayGrow
    /\ target \in AllowedTransitions[ticket.status]
    /\ ticket' = [Touched EXCEPT !.status = target]
    /\ Show(u, NoPage)
    /\ UNCHANGED access

\* A relation is added or removed.  The other end is another ticket.
ChangeRelation(u) ==
    /\ tab[u].page = "detail"
    /\ Accepted(u) /\ MayGrow
    /\ ticket.status \notin Terminal
    /\ ticket' = Touched
    /\ Show(u, NoPage)
    /\ UNCHANGED access

FormsNext ==
    \E u \in User :
        \/ OpenEdit(u)
        \/ \E kind \in PageKind : OpenTicket(u, kind)
        \/ SubmitInvalid(u) \/ SubmitForbidden(u)
        \/ SubmitLocked(u) \/ SubmitStale(u) \/ SubmitUnresolved(u)
        \/ \E c \in Content : Submit(u, c)
        \/ Redraw(u)
        \/ SendImage(u) \/ TakeImage(u) \/ AnswerImage(u)
        \/ \E target \in Status : Switch(u, target)
        \/ ChangeRelation(u)

-----------------------------------------------------------------------------
(* Properties *)

\* A form that is saved replaces only content that its reader was shown, unless
\* it had been drawn again when the ticket had moved on, after a refusal that is
\* not a version conflict: an entry that is not valid, a project that was
\* inactive.  Conflicts and the versions that uploads bring in never let a save
\* go over somebody's change.
SavesReplaceWhatWasShown ==
    [][ \A u \in User :
          tab[u].page = "edit" /\ ~ tab[u].mixed /\ tab'[u] # tab[u]
          /\ ticket'.content # ticket.content
            => tab[u].seen = ticket.content ]_ticket

\* The same of every form, mixed ones too: what the version check of the edit
\* form is for (docs/decisions/tickets-and-workflow.md, TKT-011).
NothingOverwrittenUnseen ==
    [][ \A u \in User :
          tab[u].page = "edit" /\ tab'[u] # tab[u] /\ ticket'.content # ticket.content
            => tab[u].seen = ticket.content ]_ticket

\* A status is left only from a page that shows it, with the content of then:
\* no version that reaches a page through an upload lets an old button or an
\* old card act on another status.
SwitchesWhatWasShown ==
    [][ ticket'.status # ticket.status =>
          \E u \in User : /\ tab[u].page \in {"detail", "board"} /\ tab'[u] # tab[u]
                          /\ tab[u].status = ticket.status
                          /\ tab[u].seen = ticket.content ]_ticket
=============================================================================

# Verification of the task and ticket management system

TLA+ models of the repository's services, TLC configurations that check them on small
instances, and TLAPS proofs of the central properties for every value of the constants.
Paths below are relative to the repository. `PROJECT.json` holds the index: which lines
each definition models, which run checks which property, which hazard each property is
aimed at.

    tlc -workers 2 -config MCWork_members.cfg MCWorkSystem.tla
    tlapm WorkSystem_proofs.tla

## The system

A FastAPI application over one SQLite database, a directory of attachment files, and a
scheduler container that shares both. Pages and API routes are thin: each calls one
service operation. A write operation opens its transaction with `BEGIN IMMEDIATE`, reads
permissions, versions and states again under that lock, changes rows and commits.

| component | state | operations | modelled in |
|---|---|---|---|
| Tickets (`services/tickets.py`) | `tickets`, `ticket_history`, `projects.next_ticket_number` | create, edit, change status | WorkState, TicketOps, WorkSystem |
| Relations | `ticket_relations` | create, delete, from either end | RelationOps |
| Trash | `tickets.deleted_at`, `ticket_deletion_batches` | move a hierarchy to the trash, restore a batch, expiry | TrashOps |
| Projects and members (`services/projects.py`) | `projects.is_active`, `project_members` | archive, add, change role, remove | ProjectOps |
| Accounts (`services/administration.py`, `bootstrap.py`) | `users` | create, change role, deactivate, reactivate, reset the password, first administrator | ProjectOps, AuthSessions |
| Authentication (`services/auth.py`) | `users.password_hash`, `user_sessions`, `audit_logs` (failures) | log in, log out, change the password | AuthSessions |
| Attachments (`services/attachments.py`, `storage/attachments.py`) | `attachments`, files in staging and at final keys | upload | AttachmentUpload, TicketOps.AttachFile |
| Scheduler (`scheduler.py`, `scheduler_trigger.py`) | `scheduled_jobs`, `scheduled_job_runs`, crontab, lock files, processes | synchronise, trigger, run, restart | Scheduler |
| Comments and mentions (`services/comments.py`, `mentions.py`) | threads, versions, mention rows with read marks | add, reply, edit, delete, mark read | Discussion |
| Organizations (`services/administration.py`, `organization_transfer.py`) | the tree of organizations | create, rename, move, (de)activate, preview and apply an import | Organizations |
| Pages of a ticket (`web/tickets.py`, templates, `frontend/tiptap-editor.js`, `static/board.js`) | what each page shows, the versions its forms and editors carry | open, save, redraw after a refusal, upload an image, change the status | WebState, EditForms, WebPages |
| Saved filters (`personal_filters.py`, `shared_filters.py`, `static/saved-filters.js`) | filters with revision `updated_at`, the panel that shows them | create, rename, overwrite, delete | SavedFilters, WebPages |
| Filter conditions (`schemas/ticket_filters.py`, `ticket_filter_resolution.py`, `ticket_filter_expressions.py`) | none | validate, turn rules into dates, translate to SQL | TicketFilters |
| Lists, board, dashboard (`services/tickets.py`, `dashboard.py` and their repositories) | none; requests of several statements | list in pages, board, list of all projects, counts | TicketLists |
| Rich text, serialization, API, reporting, configuration, migrations | none of their own | pure functions, adapters, wiring | not modelled |

How they meet: tickets, relations, trash, members and accounts share rows (who may be
assigned, what an archived project or a deactivated account forbids), so they are composed
in one system. Uploads touch a ticket's version and history, in the same transaction as
their own row; their own difficulty is the file system, which is outside of it. Sessions
meet the rest through accounts only. Pages meet tickets through versions, and the roles through
what they may do. Lists read what the others write, without a lock. Organizations and the
scheduler share the database and no rows that the others change.

### What makes each correct, and what is hard

- *Tickets, relations, trash, members, accounts.* Each check protects a relation between
  rows that many other operations change: the assignee of open work can write; history
  replays the tickets; finished tickets and archived projects stand still; the last
  administrator stays; the trash returns what it took. Hard: long sequences of legal calls
  by several actors, two rows that change together, batches that overlap.
- *Uploads.* File and row are not one transaction. Hard: each failure and crash between
  steps, two uploads from one page, a writer that does not end.
- *Authentication.* Hard: requests that read the account before they wait for the lock (the
  ORM keeps the old row), resets and deactivations in between, a throttle shared by
  concurrent requests.
- *Scheduler.* Hard: manual and triggered runs, triggers that arrive late, processes that
  die without a word, restarts, an invalid schedule that ends the service.
- *Comments and mentions.* Mention rows must follow texts that are edited, deleted and named in
  again, with their read marks; a form carries the text and version of an earlier page. Hard:
  long sequences, old pages, roles and accounts that change in between.
- *Organizations.* Every change must keep a forest with distinct siblings. Hard: the tree changes
  between preview and import; an import renames and moves many rows under a unique index that
  is checked at each.
- *Pages and saved filters.* What a user replaces must be what the user saw. Hard: versions reach a
  page from several answers, uploads among them; revisions are clock readings; names are unique
  without an index.
- *Filters, lists, board, dashboard.* The answer must mean what the filter says. Hard: NULL under
  NOT, days in Seoul and times in UTC, weeks, hierarchies, several statements without a transaction.

## Modules

    WorkState <- TicketOps, RelationOps, TrashOps, ProjectOps <- WorkSystem
    WorkSystem <- MCWorkSystem
    WorkSystem <- WorkSystem_proofs
    AttachmentPromise <- AttachmentUpload <- AttachmentUpload_proofs
    AuthSessions <- MCAuthSessions, AuthSessions_proofs
    Scheduler <- MCScheduler, Scheduler_proofs
    MentionInbox <- Discussion <- MCDiscussion, Discussion_proofs
    Organizations <- MCOrganizations, Organizations_proofs
    WebState <- EditForms, SavedFilters <- WebPages <- MCWebPages, WebPages_proofs
    TicketFilters <- TicketLists <- MCTicketLists, TicketLists_proofs

### WorkSystem: one project's work

WorkState declares the rows of one project and the checks that the operations share. The
four Ops modules hold one action per service operation; WorkSystem composes them and
states the properties.

- *One operation, one action.* All writers hold SQLite's write lock from their first read
  to the commit, so a service operation is atomic to the others; a refused one rolls back
  and changes nothing.
- *Tickets are numbers* (the counter on the project row). `parent` and `batch` are 0 for
  NULL. Title and the other business fields are one field.
- *Timestamps* hold the version written at that moment, 0 for NULL: this tells which are
  set and in which order.
- *Versions.* An operation takes the version that the request names (`seen`) and is refused
  when it is not the row's. Here requests name the row's own version: what goes wrong when
  a form's fields and version come from different reads is EditForms' question.
- *History.* `logged[t]` is the state stored by the newest history row of `t`. Snapshots
  list the relations of a ticket whether or not the other end is in the trash, as the code
  does.
- *must_change_password* is checked before every operation and keeps no other state; it is
  in AuthSessions.
- *Expiry* of a batch is a step of its own (`RetentionPasses`). Purging does not exist at
  this commit.

### AttachmentUpload and AttachmentPromise

`upload_ticket_attachment` step by step for each upload: staging (a partial file exists
while it is written), validation, the wait for the lock, checks under it, the move to the
final key, the commit, and the compensation that discards the staged or deletes the moved
file. Each step may fail as it may in the code, compensation included (its failure is
logged, and the file stays: `excused`). A crash ends all threads, keeps the files and rolls
back the transaction. Other writers change the ticket's version and whether it can be
written, and may hold the lock for ever; then the busy timeout ends the wait.
AttachmentPromise says what a user relies on, without files and locks.

### AuthSessions

A request has two steps. When it arrives it may read its session and account
(`find_active_session`); the rows it read may stay in the identity map, which is never
refreshed by a query: `loaded`. Then it waits, and what it does under the lock is one
action. `Found` is therefore the row of the database or the loaded one, and what makes the
code right is the conditional UPDATE of `lock_verified_user` and `replace_password`
(`StillCurrent`). A login takes its time before it waits, a password change after. Hashes
are password and salt. Left out: cookies and CSRF tokens, last use of a session, roles that
change (ProjectOps has them).

### Scheduler

The manager's loop (`serve`: close interrupted runs, install the crontab, start cron,
synchronise, receive one trigger, start a process), cron's messages, and a process per run
(`run_job`: lock, read the schedule, write the run row, run, write the result), each as
steps. A container life ends by a signal, a crash or an exception (an invalid schedule); all
its processes die then (`gone`), because the manager is the container's main process.
Single processes can be killed. Jobs may hang. `JOB_HANDLERS` is empty at this commit, so
the registered jobs are a parameter.

### Discussion and MentionInbox

The thread of one ticket; text 0 is its description, the others are its comments in the order
written. A body is whom it names and the rest of its text. `row[s][u]` is the mention row of
text and user: none, unread, read or removed (`removed_at` set). `page[u]` is a text as a user
has it on a page or in a form, and edits and deletions use its version: it may be old. Who may
do what depends on `access` (role, override of administrators, inactive account) and `place`
(open, finished, archived, trashed), which change at any time; Discussion repeats of
WorkSystem just what the thread reads. `deletedAt` counts the comments written before the
deletion, which orders a reply and the deletion of its root. MentionInbox says what mentions
promise to the people mentioned, without rows. Left out: candidates, rendering, attachments in
bodies, audit rows. MCDiscussion splits the instance with a variable `stranger`, the users who never
have to do with the project: all users and one comment, or one writer and a whole thread.

### Organizations

The committed tree, and one import at a time as its transaction sees the rows. Creations and
updates are one action each, under the write lock (`lock_security_write`). A preview checks the
document against the tree and hands out a token that stands for administrator, document and tree.
`ApplyImport` repeats the checks under the lock; then the statements follow one by one in any order
of keys: changed rows are parked (a name nobody has, no parent), new rows are inserted parked, and
all are put in their place. A statement that meets the unique index, or fails for any other reason,
ends the import and undoes it. An organization is known by its key, which never changes;
descriptions are left out.

### WebPages: EditForms and SavedFilters

WebState has the roles and `tab`, the page each user has open; somebody with two windows is two
users. EditForms gives a page of a ticket what it shows (`seen`, `status`) and the versions it
holds: `expected` for its forms, `image` for its editors. An image is uploaded at once and its
answer, which may be lost, replaces both. A save is refused in the code's order, one action per outcome:
an invalid entry before anything is read (`SubmitInvalid`), no right to write (`SubmitForbidden`, an
error page), an inactive project before the version is compared (`SubmitLocked`), another version
(`SubmitStale`), a reference that does not resolve (`SubmitUnresolved`). The form is then drawn again
with the entries sent, if by then the ticket can be edited: only after a version conflict is its
button disabled. After any other refusal it stays usable, and if the ticket had moved on it is
`mixed` (old entries and version, new version for images), from which the finding follows.
Dependencies and open children are WorkSystem's.

SavedFilters has the rows with scope (owner or project), name, definition and revision, and the
panel with the rows it was drawn with. A request and its answer are one action, because the panel
waits and the page is then loaded again. Names are compared under the write lock and have no unique
index. The clock may stand still or go back between changes of a row, and `Revision` makes up for it.
No service does so for a new row: that a row with the id of a deleted one is younger than what
pages still show of that id is assumed of the clock (`StampOfNew`, a conjunct of `FiltersNext`, not
of `CreateFilter`).

### TicketFilters and TicketLists

TicketFilters follows a filter from its validation over the dates of its rules to SQL with three
truth values (`Expression`); beside it stands `Means`, what the filter
says of a ticket in two-valued logic over days. A filter is the sequence of its nodes in the order
of its document: node 1 is the outermost group, and a group names the places of its children, all
after its own (`IsDocument`). The recursion of `build_filter_expression` is then a recursive
function on places, from the last to the first. Times count steps of three hours in UTC, so that
Seoul, nine hours ahead, begins its day on a step; days are numbered from a Monday. `FirstDay` and
`LastDay` are the ends of the calendar that a filter may name; a rule whose dates fall outside, or
end before they start, makes the request fail (`Resolvable`), as the second validation of a resolved
condition does in the code.

A request of TicketLists has the steps of the code: look up the project, check references and fix
the dates, read the rows. No transaction spans them, so tickets, roles and the clock may change in
between. Two reads in a row that look at the same thing (two SELECTs of references; the total and
the page) are merged. The dashboard's counts and the lists its cards open are compared in one state,
over every state the requests and changes reach.

## Runs

| run | instance | distinct states | what it shows |
|---|---|---|---|
| members | 1 ticket, 2 accounts, all statuses, 2 batches | 24,290 | types; open work is unassigned or with somebody who may write; timestamps match the status, and the start is kept; project and system keep an administrator; an archived project stands still |
| relations | 3 tickets, 2 relations, both kinds, 1 batch | 208,952 | the newest history row of each ticket is its state; relations join two different tickets of the project in normal form; a finished ticket is changed from neither end |
| trash | 4 tickets of all types, 3 batches | 623,044 | the hierarchy keeps its levels and no active ticket hangs under a trashed one; a batch goes and returns as a unit; trashing an upper part leaves an older batch alone |
| uploads | 2 uploads, 1 crash, 4 versions | 28,892 | no row without file; no unexplained file; the promise is kept (refinement); every upload ends |
| sessions | 3 requests, 2 accounts, 2 passwords, limits 1 and 2, 4 times | 785,648 | sessions follow their account; failures stay within the limits; a change rests on the present password |
| scheduler | 1 job, 2 processes, 2 valid schedules and an invalid one, 1 stop | 1,807,128 | runs exclude each other; late triggers start nothing; a restart closes exactly the dead runs; results stay; a schedule that stays valid is in the crontab for good |
| discussion | 2 users, a description and 1 comment; 1 writer and 3 comments | 928,520 | open mentions are those of the present texts; the promise of MentionInbox is kept (refinement); nobody overwrites or deletes a text not seen; two levels, and no reply after the deletion of its root |
| organizations | 4 keys, 2 names, 4 files, 2 changes, 2 previews | 85,555 | a forest with distinct siblings; no statement of an import meets a conflict; what is moved or reactivated ends below active ones; an import does what its preview showed |
| pages | 2 users, 2 contents, 4 versions; 2 filter ids, names, definitions, times | 2,036,232 | a save, a status change and a change of a filter replace what their user was shown; names of filters are distinct |
| lists | 41 filters, 4 tickets, 3 instants, pages of 2, 1 change | 210,152 | list and board find what the filter means; pages hold each ticket once; the board shows each once; dashboard and lists agree |
| dependencies, form_overwrite | as relations and pages, smaller | - | the two findings below |

**Bounds.** `MaxVersion` is 60 in the work runs only to keep numbers finite in the guards;
the view makes the state space finite and no run comes near it. The view keeps, of versions
and timestamps, which timestamps are set, the order of start and completion, and whether
the newest history row agrees with its ticket: versions only grow, and no guard reads more
of them than the equality with the request's. Tickets, batches and relations are as many as
the interesting cases need: three levels of a hierarchy and a second child, two batches that
overlap in one hierarchy and a third one made between their restores, three tickets for
dependencies that chain and a ticket with two relations; two accounts, to have one act on the
other. Three requests exceed a limit of one and reach the limit of two. In the scheduler two
processes suffice for an overlap, two valid schedules for a trigger of the wrong one; each
invalid schedule gives a further, unbounded, life of the container. In the discussion run the
view keeps of versions whether a page is up to date, `MaxVersion` is again far away, two texts
and two users show every mixture of rows, and three comments a root, a reply and a comment
between them.

Organizations: four keys and two names allow a swap of two siblings, a tree turned upside down and
an inactive hierarchy that is added, which are the four files; two changes make a tree that a file
meets halfway and one between preview and import; two tokens, an old and a new preview. Pages:
`PageMixes` keeps pages of tickets and panels of filters apart, which share roles only; four versions
are the first one, an upload, another user's change and the overwrite; two times and two filters
give a revision that could repeat, an id that is used again and a name that could clash. Lists: the
tickets are an Epic, a Task, its Subtask and one of three others, with dates around midnight in
Seoul between a Sunday and a Monday; `MaxNodes` and `MaxDepth` are smaller than the code's so that
filters reach them; the calendar has days 0 to 50, so that a fixed date and a rule pass its end, and
`IsDay` and `DateFits` look for days in all of it; one change falls between any two statements of a
request.

Runs of safety properties exchange requests, passwords and users by symmetry where these are
alike; the runs with liveness use none.

**Deadlock.** The work and session systems stop at their bounds (all tickets and versions
used; all requests made), so their runs do not check deadlock, nor does that of lists, which
end when the reader has lost access and the changes are used up. The other systems do not stop
(roles go on changing, previews can be repeated), and their runs check it.

**Fairness.** Uploads: each thread goes on (weak fairness of `UploadStep`), nothing is
assumed of other writers; an upload ends even when they never release the lock. Scheduler:
the manager goes on and compose starts a stopped container again (`restart:
unless-stopped`; an operator who stops it for good is outside the claim). This is justified
because the manager never waits: reading the socket times out and processes are polled.
Nothing is assumed of cron, jobs or clients. The other specifications state safety only.

## Proofs

All are checked from nothing by tlapm; the assumptions are the named ASSUMEs on the
constants, which TLC evaluates in the runs.

- **WorkSystem_proofs.** `TypesCorrect`, and on it: `AdministratorsStay` and
  `OpenWorkKeepsWriter` (inductive with types alone, since every operation that narrows what
  a member may do counts the assignments first), `HistoryIsComplete` (`HistoryCovers`: if all
  that changed is in S, one history row for each ticket of S is enough), `ParentsStayInPlace`
  (one statement per ticket, for any number of tickets and batches), and the action properties
  `ArchiveIsReadOnly` and `FinishedStaysPut`.
  In its second half, on the same types: `StampsAlwaysMatch` needs that a start is not later than
  the row's version (`StampsFit`), so that the version written at completion is a later moment;
  `StartNeverMoves`, since every step keeps the stamps of a row or is an admitted transition
  (`StepChangesRows`); `RelationsStayWellFormed`; `BatchesStayUnits`, which with ParentsInPlace is
  inductive, because what is taken along with a root is taken with its parent
  (`HierarchyWithParents`); and `TrashKeepsItsTickets`, since only a restore reaches into the trash
  (`TrashUntouched`).
- **AttachmentUpload_proofs.** `RowsHaveBlobs` and `OrphansExcused` are not inductive:
  `FilesMatchStep` says which files and rows go with each point of a thread. `KeepsPromise`
  needs besides that the check made under the lock still holds at the commit: `LockInv`, at
  most one transaction, and the version and state read in it are still those of the ticket.
  Every step is then shown to be a step or a stutter of AttachmentPromise.
- **AuthSessions_proofs.** `SessionsAlwaysFollow` needs that active accounts exist (a new
  account must not meet old sessions); `ChangesAlwaysProved` rests on the conditional UPDATE;
  `GuessesAlwaysBounded` on the finiteness of the recorded failures and on cardinalities: an
  attempt admitted below a limit adds one failure, time only removes some from the window.
- **Scheduler_proofs.** `RunsNeverOverlap` from one holder per lock; `LateTriggersStartNothing`
  is inductive; `EarlierRunsAreClosed` and `ResultsAlwaysStay` need `RowInv`: the row of a
  process tells where it is, and (`Quiet`) while the manager has not closed the rows, no process of a
  trigger is alive, since all of them died with the last life. This is why closing the rows
  first, before cron exists, is right.
- **Discussion_proofs.** Each step writes one text, marks mentions read, or leaves rows and texts
  alone (`StepKinds`); with it `MentionsAlwaysFollow` is inductive once comments not yet written
  are known not to be deleted (`Fresh`), and `InboxKept` maps each kind to an action of
  MentionInbox. `EditsNeverLost` needs `PagesCurrent`: a page whose version is the row's shows
  the row's text. `ThreadsAlwaysFlat` is inductive with the types.
- **Organizations_proofs.** `TreeSoundHolds`, `ImportMeetsNoConflictHolds`, `AppliesWhatWasShownHolds`
  and `MovesLandActiveHolds`. `Inv` says that the tree is sound and, while an import runs, how far
  each row is: as committed, parked, or as the document says. With distinct siblings in the tree and
  in the planned result no statement can meet another row, and the rows at the commit are the
  planned result. `Lineage`, the least set closed under parents, is handled by its closure property
  alone (`LineageIsLeast`), which gives the absence of cycles without induction.
- **WebPages_proofs.** `Inv` (`InvHolds`) has the types, `FormsFollow` and `PanelsFollow`: versions on
  a page are at most the ticket's, and one that equals it came with what the page shows; rows on a
  panel have revisions at most the row's, and an equal one means an identical row. From these follow
  `SavesReplaceWhatWasShownHolds`, `SwitchesWhatWasShownHolds`, `ChangesRowsAsShownHolds` and
  `FilterNamesDistinctHolds`, for any number of users. `SavesReplaceWhatWasShownHolds` exempts `mixed`
  forms, the finding's; `ChangesRowsAsShownHolds` rests on `StampOfNew`.
- **TicketLists_proofs.** `SelectedIsMeant` relates code and meaning for every filter: the SQL is
  true of a ticket in use just if the filter means it, whatever the nesting, the values that are
  missing, the rules and the day. It rests on `ConditionHolds` for one condition (a COALESCE makes
  each two-valued, so NOT over NULL says what a user reads: `CoalescedIsTwoValued`; the bounds in
  UTC are the days in Seoul: `DateExpressionFits`; a rule's dates are the days it covers:
  `RuleCoversSpan`; the three parts of the SQL for an Epic are what lies below it: `EpicIsAbove`),
  and on an argument from the last node of the document to the first: a set of nodes that holds a
  node when it holds all that follow it holds them all (`FromTheLastNode`, from the well-foundedness
  of strict inclusion among finite sets). `Inv` (`RequestsAreValid`) says that the tickets are in
  place below their parents and that a request under way has an accepted filter whose dates were
  found; other requests keep the first, the reader's steps the second. From it follow the four
  properties of the run: `ListsMeanTheFilter`; `PagesShowTheList` (the order with the id as its last
  column is strict and total, so ranks are a bijection to 0, 1, ... (`RanksCountUp`), of which pages
  are intervals); `BoardShowsWhatMatches` (`CardsOfAGroup` finds for each group exactly the cards of
  its tickets) and `DashboardCountsTheLists`. The assumptions are those of TicketLists: filters are
  documents, the tables to start from are finite, typed and in place, NULL is neither user nor number.

Only model-checked: the liveness properties (`UploadsEnd`, `CrontabFollows`), out of the prover's
reach.

## Findings

- `DependenciesOutsideTrash` (run dependencies). TKT-007 asks that no active ticket depends on
  an open one in the trash, and `move_ticket_to_trash` enforces it;
  `restore_ticket_trash_batch` does not look at dependencies, so trashing A and then B and
  restoring A brings the forbidden state back.
- `NothingOverwrittenUnseen` (run form_overwrite). TKT-011 wants a conflict where a form would
  overwrite a change its user has not seen. After a refusal that is not a version conflict, an
  invalid entry or a project that was inactive for a moment, `update_ticket_submit` draws the form
  again with the entries sent and the version sent, but with the row's present version for images;
  an image uploaded from it is accepted, its answer becomes the form's version, and the save
  overwrites what came between. `SavesReplaceWhatWasShown` is the part that does hold.

## Not modelled, and limits

- *Not modelled:* the pages of projects and of the administration, and the form that creates a
  ticket (no version, one service call each); exports and the lists of projects, of the trash and
  of candidates (single reads); the API adapters; rich text and serialization (pure functions, whose
  inputs unit tests cover); reporting tables, which no code writes at this commit; configuration and
  migrations.
- *Accounts.* Deactivating an account does not look at its assignments
  (`services/administration.py:406`), so open work may be assigned to an inactive account;
  `OpenWorkHasWriter` speaks of roles only.
- *Filters on pages.* Loading a filter draws the page again with the present `updated_at` and keeps
  the conditions applied; an overwrite then replaces a definition that was listed, perhaps not loaded.
  `ChangesRowsAsShown` speaks of the row that the panel lists.
- *Clock.* `StampOfNew`: a clock that is set back so that a new filter gets both the id and the
  stamp of a deleted one which a page still shows is excluded.
- *Organizations.* Depth is limited for documents only (`organization_transfer.py:83`), not by edits;
  the documents here are within the limit, and no property speaks of depth.
- *Filter conditions.* Limits in bytes and of the number and length of values are left out.
- *SQLite* is its transactions: one writer, committed reads, no torn commit.

## Plan

All components that keep state and change it together are modelled, and all the safety their runs
check is proved. What is left: the pages of projects and of the administration, should they come to
carry versions; the permanent purge and reports, once the code has them.

-------------------------- MODULE AttachmentUpload --------------------------
(***************************************************************************)
(* app/services/attachments.py upload_ticket_attachment over               *)
(* app/storage/attachments.py LocalAttachmentStorage: uploads to one       *)
(* ticket, each a thread of the web process, with other writers of the     *)
(* database, failures of the file system and of the database, and crashes  *)
(* of the process.  Files and committed rows survive a crash.              *)
(*                                                                         *)
(* A file is named for its upload: storage keys are fresh UUIDs.           *)
(***************************************************************************)
EXTENDS Naturals

CONSTANTS
    Upload,         \* the upload requests
    MaxVersion,     \* bound: versions of the ticket
    MaxCrash        \* bound: crashes of the web process

ASSUME UploadAssumption == MaxVersion \in Nat /\ MaxCrash \in Nat

VARIABLES
    pc,         \* where the thread of an upload is
    seen,       \* expected_version of the request, 0 before it is sent
    staging,    \* uploads with a file in .staging
    blobs,      \* uploads with a file at its final key
    rows,       \* uploads with a committed attachments row
    version,    \* tickets.version
    writable,   \* the project is active and the ticket is outside the trash
    otherWrites,\* another operation holds SQLite's write lock
    excused,    \* uploads cut off by a crash or whose file could not be removed
    crashes

vars == <<pc, seen, staging, blobs, rows, version, writable, otherWrites,
          excused, crashes>>

Ended == {"attached", "refused"}
InTransaction == {"locked", "moved"}
Step == Ended \cup InTransaction \cup
        {"idle", "asked", "staging", "staged", "valid", "discarding", "deleting"}

Init ==
    /\ pc = [u \in Upload |-> "idle"]
    /\ seen = [u \in Upload |-> 0]
    /\ staging = {} /\ blobs = {} /\ rows = {}
    /\ version = 1 /\ writable = TRUE
    /\ otherWrites = FALSE
    /\ excused = {}
    /\ crashes = 0

Moves(u, from, to) == pc[u] = from /\ pc' = [pc EXCEPT ![u] = to]

files == <<staging, blobs>>
database == <<rows, version, writable>>

-----------------------------------------------------------------------------
(* Before the transaction *)

\* A page of the ticket is shown; the upload form carries its version.
Ask(u) ==
    /\ Moves(u, "idle", "asked")
    /\ seen' = [seen EXCEPT ![u] = version]
    /\ UNCHANGED <<files, database, otherWrites, excused, crashes>>

StageStarts(u) ==
    /\ Moves(u, "asked", "staging")
    /\ staging' = staging \cup {u}
    /\ UNCHANGED <<seen, blobs, database, otherWrites, excused, crashes>>

\* The stream ends within the size limit, or reading or writing fails.
StageEnds(u) ==
    /\ Moves(u, "staging", "staged") \/ Moves(u, "staging", "discarding")
    /\ UNCHANGED <<seen, files, database, otherWrites, excused, crashes>>

\* An empty file or one whose content does not fit its type is discarded.
Validate(u) ==
    /\ Moves(u, "staged", "valid") \/ Moves(u, "staged", "discarding")
    /\ UNCHANGED <<seen, files, database, otherWrites, excused, crashes>>

-----------------------------------------------------------------------------
(* The transaction *)

LockFree == ~otherWrites /\ \A u \in Upload : pc[u] \notin InTransaction

\* BEGIN IMMEDIATE
Lock(u) ==
    /\ LockFree
    /\ Moves(u, "valid", "locked")
    /\ UNCHANGED <<seen, files, database, otherWrites, excused, crashes>>

\* The mutated form tries again for ever.
LockRetried(u) == ~LockFree /\ UNCHANGED vars

\* SQLite gives up after its busy timeout.
LockTimesOut(u) ==
    /\ ~LockFree
    /\ Moves(u, "valid", "discarding")
    /\ UNCHANGED <<seen, files, database, otherWrites, excused, crashes>>

\* The mutated form takes any version.
WritableOnly(u) == writable /\ seen[u] # 0

\* _require_active_project, _get_accessible_ticket, _require_expected_version
RequestValid(u) == writable /\ version = seen[u]

\* The mutated form leaves the staged file of a refused request behind.
RejectWithoutDiscard(u) ==
    /\ ~RequestValid(u)
    /\ Moves(u, "locked", "refused")
    /\ UNCHANGED <<seen, files, database, otherWrites, excused, crashes>>

\* An error rolls the transaction back, which frees the lock, and only then
\* removes the file.
Reject(u) ==
    /\ ~RequestValid(u)
    /\ Moves(u, "locked", "discarding")
    /\ UNCHANGED <<seen, files, database, otherWrites, excused, crashes>>

Move(u) ==
    /\ RequestValid(u)
    /\ Moves(u, "locked", "moved")
    /\ staging' = staging \ {u}
    /\ blobs' = blobs \cup {u}
    /\ UNCHANGED <<seen, database, otherWrites, excused, crashes>>

\* The mutated form carries on to the row.
MoveFailureIgnored(u) ==
    /\ RequestValid(u)
    /\ Moves(u, "locked", "moved")
    /\ UNCHANGED <<seen, files, database, otherWrites, excused, crashes>>

\* os.replace moves the file or leaves it in place.
MoveFails(u) ==
    /\ RequestValid(u)
    /\ Moves(u, "locked", "discarding")
    /\ UNCHANGED <<seen, files, database, otherWrites, excused, crashes>>

\* Row, ticket version, history and audit in one COMMIT.
Commit(u) ==
    /\ version < MaxVersion
    /\ Moves(u, "moved", "attached")
    /\ rows' = rows \cup {u}
    /\ version' = version + 1
    /\ UNCHANGED <<seen, files, writable, otherWrites, excused, crashes>>

\* A flush or the COMMIT fails and is rolled back.
CommitFails(u) ==
    /\ Moves(u, "moved", "deleting")
    /\ UNCHANGED <<seen, files, database, otherWrites, excused, crashes>>

-----------------------------------------------------------------------------
(* _rollback_stored_blob and discard_staged *)

RemoveFile(u) ==
    /\ \/ Moves(u, "discarding", "refused") /\ staging' = staging \ {u} /\ blobs' = blobs
       \/ Moves(u, "deleting", "refused") /\ blobs' = blobs \ {u} /\ staging' = staging
    /\ UNCHANGED <<seen, database, otherWrites, excused, crashes>>

\* The failure is logged and the file stays.
RemoveFails(u) ==
    /\ Moves(u, "discarding", "refused") \/ Moves(u, "deleting", "refused")
    /\ excused' = excused \cup {u}
    /\ UNCHANGED <<seen, files, database, otherWrites, crashes>>

-----------------------------------------------------------------------------
(* Everybody else *)

OtherBegins ==
    /\ LockFree
    /\ otherWrites' = TRUE
    /\ UNCHANGED <<pc, seen, files, database, excused, crashes>>

\* Any other operation on the ticket or the project, or a rollback.
OtherEnds ==
    /\ otherWrites
    /\ otherWrites' = FALSE
    /\ version' \in {version, version + 1} /\ version' <= MaxVersion
    /\ writable' \in BOOLEAN
    /\ UNCHANGED <<pc, seen, files, rows, excused, crashes>>

\* All threads stop; SQLite rolls the open transaction back.
Crash ==
    /\ crashes < MaxCrash
    /\ crashes' = crashes + 1
    /\ pc' = [u \in Upload |-> IF pc[u] \in Ended \cup {"idle"} THEN pc[u] ELSE "refused"]
    /\ excused' = excused \cup {u \in Upload : pc[u] \notin Ended \cup {"idle"}}
    /\ otherWrites' = FALSE
    /\ UNCHANGED <<seen, files, database>>

-----------------------------------------------------------------------------
UploadStep(u) ==
    \/ StageStarts(u) \/ StageEnds(u) \/ Validate(u)
    \/ Lock(u) \/ LockTimesOut(u)
    \/ Reject(u) \/ Move(u) \/ MoveFails(u) \/ Commit(u) \/ CommitFails(u)
    \/ RemoveFile(u) \/ RemoveFails(u)

Next ==
    \/ \E u \in Upload : Ask(u) \/ UploadStep(u)
    \/ OtherBegins \/ OtherEnds \/ Crash

\* The threads of the web process run; nothing is assumed of other writers.
Fairness == \A u \in Upload : WF_vars(UploadStep(u))

Spec == Init /\ [][Next]_vars /\ Fairness

-----------------------------------------------------------------------------
(* Properties *)

TypeOK ==
    /\ pc \in [Upload -> Step]
    /\ seen \in [Upload -> Nat]
    /\ staging \subseteq Upload /\ blobs \subseteq Upload /\ rows \subseteq Upload
    /\ version \in Nat /\ writable \in BOOLEAN
    /\ otherWrites \in BOOLEAN
    /\ excused \subseteq Upload
    /\ crashes \in Nat

\* Every committed row has its file at the final key, whatever fails or crashes
\* (CNT-007, CNT-013): a download never finds a row without its blob.
RowsHaveBlobs == rows \subseteq blobs

\* A file that belongs to no row is in use by a running upload, or was left by
\* a crash or by a failed removal: refused uploads clean up after themselves.
OrphansExcused ==
    \A u \in (staging \cup blobs) \ rows : pc[u] \in Ended => u \in excused

\* Every upload that starts is attached or refused, however long others hold
\* the write lock.
UploadsEnd == \A u \in Upload : pc[u] = "asked" ~> pc[u] \in Ended

\* The uploads keep the promise of AttachmentPromise: an upload is attached at
\* its COMMIT and refused when its thread gives up or is cut off.
outcome == [u \in Upload |->
              IF u \in rows THEN "attached"
              ELSE IF pc[u] \in {"refused", "discarding", "deleting"} THEN "refused"
              ELSE "open"]

Promise == INSTANCE AttachmentPromise WITH attached <- rows \cap blobs

KeepsPromise == Promise!Spec
=============================================================================

------------------------- MODULE AttachmentPromise -------------------------
(***************************************************************************)
(* What uploading files to a ticket promises, without files or locks: an   *)
(* upload is attached in one step, at the version of the ticket that its   *)
(* user saw and while the ticket can be written, or it is refused and      *)
(* leaves the ticket alone.  What is attached can be downloaded for good.  *)
(***************************************************************************)
EXTENDS Naturals

CONSTANT Upload     \* the upload requests

VARIABLES
    attached,   \* uploads that the ticket lists and whose file can be read
    version,    \* tickets.version
    writable,   \* the project is active and the ticket is outside the trash
    seen,       \* the version on the page from which an upload was sent, or 0
    outcome     \* what became of each upload

vars == <<attached, version, writable, seen, outcome>>

Init ==
    /\ attached = {}
    /\ version = 1
    /\ writable = TRUE
    /\ seen = [u \in Upload |-> 0]
    /\ outcome = [u \in Upload |-> "open"]

Ask(u) ==
    /\ seen[u] = 0
    /\ seen' = [seen EXCEPT ![u] = version]
    /\ UNCHANGED <<attached, version, writable, outcome>>

Attach(u) ==
    /\ outcome[u] = "open" /\ writable /\ seen[u] = version
    /\ attached' = attached \cup {u}
    /\ version' = version + 1
    /\ outcome' = [outcome EXCEPT ![u] = "attached"]
    /\ UNCHANGED <<writable, seen>>

\* A crash refuses all open uploads at once.
Refuse(S) ==
    /\ \A u \in S : outcome[u] = "open"
    /\ outcome' = [u \in Upload |-> IF u \in S THEN "refused" ELSE outcome[u]]
    /\ UNCHANGED <<attached, version, writable, seen>>

\* Anybody else's operation on the ticket or the project.
OtherChange ==
    /\ version' \in {version, version + 1}
    /\ writable' \in BOOLEAN
    /\ UNCHANGED <<attached, seen, outcome>>

Next ==
    \/ \E u \in Upload : Ask(u) \/ Attach(u)
    \/ \E S \in SUBSET Upload : Refuse(S)
    \/ OtherChange

Spec == Init /\ [][Next]_vars
=============================================================================

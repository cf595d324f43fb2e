---------------------------- MODULE MentionInbox ----------------------------
(***************************************************************************)
(* What mentions promise to the people mentioned, without rows: a text     *)
(* that names somebody anew is unread to them until they read it, one that *)
(* goes on naming them keeps its mark, and only they can read it.          *)
(***************************************************************************)
CONSTANTS Source, User

VARIABLES
    mentioned,  \* the users that each text names
    unread      \* those of them who have not read it

vars == <<mentioned, unread>>

Init ==
    /\ mentioned \in [Source -> SUBSET User]
    /\ unread = mentioned

Write(s, names) ==
    /\ mentioned' = [mentioned EXCEPT ![s] = names]
    /\ unread' = [unread EXCEPT ![s] = (@ \cap names) \cup (names \ mentioned[s])]

Read(u, S) ==
    /\ unread' = [s \in Source |-> IF s \in S THEN unread[s] \ {u} ELSE unread[s]]
    /\ UNCHANGED mentioned

Next ==
    \/ \E s \in Source, names \in SUBSET User : Write(s, names)
    \/ \E u \in User, S \in SUBSET Source : Read(u, S)

Spec == Init /\ [][Next]_vars
=============================================================================

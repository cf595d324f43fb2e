---------------------------- MODULE MCDiscussion ----------------------------
(***************************************************************************)
(* Discussion for TLC: either all users and one comment, or one writer     *)
(* alone and a whole thread.  Versions only grow and are only compared     *)
(* with that of a page: states are told apart by which pages are up to     *)
(* date.                                                                   *)
(***************************************************************************)
EXTENDS Discussion, FiniteSets, TLC

VARIABLE stranger   \* the users who never have to do with the project

CommentsAllowed == IF stranger = {} THEN 1 ELSE MaxComment
Strange ==
    stranger # {} =>
        \A u \in User : access[u] = IF u \in stranger THEN "none" ELSE "writer"

MCInit ==
    /\ stranger \in {U \in SUBSET User : U = {} \/ Cardinality(User \ U) = 1}
    /\ Init
    /\ Strange

MCNext ==
    /\ Next
    /\ UNCHANGED stranger
    /\ Strange' /\ count' <= CommentsAllowed

MCSpec == MCInit /\ [][MCNext]_<<vars, stranger>>

PageView(p) == <<p.source, p.version = version[p.source], p.body = body[p.source]>>

StateView ==
    <<count, parent, body, deletedAt, row,
      [u \in User |-> {PageView(p) : p \in page[u]}], access, place, stranger>>

Alike == Permutations(User)
=============================================================================

--------------------------- MODULE MCAuthSessions ---------------------------
(* AuthSessions for TLC. *)
EXTENDS AuthSessions, TLC

Alike == Permutations(Request) \cup Permutations(Password)
=============================================================================

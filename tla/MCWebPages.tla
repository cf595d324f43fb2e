----------------------------- MODULE MCWebPages -----------------------------
(* WebPages on small instances.  Pages of tickets and the panel of filters  *)
(* change different rows; the mixes keep them apart.                        *)
EXTENDS WebPages, TLC

TicketPages == {"edit", "detail", "board"}
Mixes == {TicketPages, {"panel"}}
EditOnly == {{"edit"}}
Alike == Permutations(User)
=============================================================================

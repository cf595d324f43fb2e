---------------------------- MODULE MCWorkSystem ----------------------------
(***************************************************************************)
(* WorkSystem for TLC.  Versions and timestamps only grow, and no          *)
(* operation reads more of them than the comparison with the version that  *)
(* the request names, so states are told apart up to their values: the     *)
(* view keeps which timestamps are set, their order, and whether the       *)
(* newest history rows agree with the tickets.                             *)
(***************************************************************************)
EXTENDS WorkSystem

TicketView(t) ==
    LET k == ticket[t]
    IN  <<k.type, k.title, k.parent, k.status, k.assignee, k.batch,
          k.started # 0, k.completed # 0, k.cancelled # 0,
          k.started < k.completed, logged[t] = Snapshot(t)>>

View ==
    <<[t \in Tickets |-> TicketView(t)], relations, batches, expiredUpTo,
      projectActive, role, userActive, systemAdmins>>

=============================================================================

--------------------------- MODULE MCApprovalApi ---------------------------
(***************************************************************************)
(* Two single-repository tasks about the same ticket, each with its pull   *)
(* request and its ticket update, and a multi-repository task with one     *)
(* repository left to approve.  Configurations choose which take part.     *)
(***************************************************************************)
EXTENDS ApprovalApi, TLC

CONSTANTS t1, t2, tm, p1, k1, p2, k2, m1, x1, th1, th2

MCTaskOf ==
    [a \in Actions |-> CASE a \in {p1, k1} -> t1 [] a \in {p2, k2} -> t2 [] a = m1 -> tm]

MCKindOf ==
    [a \in Actions |-> IF a \in {k1, k2} THEN "update_ticket" ELSE "prepare_pull_request"]

MCTicketOf == [a \in Actions |-> x1]

ThreadSymmetry == Permutations(Threads)

=============================================================================

----------------------------- MODULE MCTaskApi -----------------------------
(***************************************************************************)
(* Two clicks that dispatch one event, whose objective is a ticket, and a  *)
(* click on RUN with the same ticket.  Configurations choose which happen. *)
(***************************************************************************)
EXTENDS TaskApi, TLC

CONSTANTS c1, c2, r1, e1, x1

MCEventOf  == [c \in Clicks |-> IF c = r1 THEN NoEvent ELSE e1]
MCTicketOf == [c \in Clicks |-> x1]

=============================================================================

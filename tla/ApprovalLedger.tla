--------------------------- MODULE ApprovalLedger ---------------------------
(***************************************************************************)
(* What the approval gate promises for one task, with every request a      *)
(* single step.  An approval is decided once; approving it performs its    *)
(* external write once, rejecting it performs none; and the task leaves    *)
(* APPROVAL_REQUIRED with the decision on its last open approval.          *)
(***************************************************************************)
EXTENDS Naturals

CONSTANTS
    Actions,   \* the task's approvals
    Verdicts   \* what the verifier may have said of the task

VARIABLES
    decision,  \* what was decided for each approval, "None" while it is open
    writes,    \* how often each approval's external write was performed
    status,    \* the status of the task
    verdict    \* the verifier's verdict

vars == <<decision, writes, status, verdict>>

Decided(dec) == \A a \in Actions : dec[a] # "None"
Refused(dec) == \E a \in Actions : dec[a] = "reject"

StatusAfter(dec) == IF Refused(dec) THEN "REJECTED" ELSE verdict

\* The gate let the task through when it was run, with its writes, or not.
Init ==
    /\ verdict \in Verdicts
    /\ \/ /\ decision = [a \in Actions |-> "auto_approved"]
          /\ writes = [a \in Actions |-> 1]
          /\ status = verdict
       \/ /\ decision = [a \in Actions |-> "None"]
          /\ writes = [a \in Actions |-> 0]
          /\ status = "APPROVAL_REQUIRED"

Decide(a, d) ==
    /\ decision[a] = "None"
    /\ decision' = [decision EXCEPT ![a] = d]
    /\ writes' = [writes EXCEPT ![a] = IF d = "approve" THEN 1 ELSE 0]
    /\ status' = IF Decided(decision') THEN StatusAfter(decision') ELSE status
    /\ UNCHANGED verdict

Next == \E a \in Actions, d \in {"approve", "reject"} : Decide(a, d)

Spec == Init /\ [][Next]_vars

=============================================================================

-------------------------- MODULE EngineeringTask --------------------------
(***************************************************************************)
(* One engineering task on one repository, _run_engineering_task of        *)
(* agent/runtime.py: find the repository, investigate it in a sandbox (the *)
(* repair loop), verify and review the result, decide whether it may be    *)
(* merged without a human, and put the pull request and the ticket's       *)
(* update past the safety gate.                                            *)
(***************************************************************************)
EXTENDS Verification, SafetyGate

VARIABLES
    phase,         \* where the run is
    hasTicket,     \* whether the objective is a ticket
    sandbox,       \* whether the task's sandbox directory exists
    verdict,       \* final_verdict
    diff,          \* the diff artifact: of the fix, of an older commit, or none
    lines,         \* the lines of the diff that the review's patterns match
    review,        \* the verdict of the review
    auto_mergeable,
    approvals,     \* resolution of each approval asked for
    draft,         \* status of the pull_request_draft artifact
    posted,        \* whether update_ticket wrote to the ticket
    status         \* state.status

taskVars == <<phase, hasTicket, hasParent, sandbox, verdict, diff, lines, review,
              auto_mergeable, approvals, draft, posted, status>>
vars == <<loopVars, taskVars>>

Init ==
    /\ LoopInit
    /\ phase = "identify"
    /\ hasTicket \in BOOLEAN
    /\ hasParent \in BOOLEAN
    /\ sandbox = FALSE
    /\ verdict = NoVerdict
    /\ diff = "none"
    /\ lines = {}
    /\ review = "none"
    /\ auto_mergeable = FALSE
    /\ approvals = [tool \in {} |-> "None"]
    /\ draft = "none"
    /\ posted = FALSE
    /\ status = "RUNNING"

--------------------------------------------------------------------------
(* The run.                                                                *)

NoRepository ==
    /\ phase = "identify"
    /\ phase' = "closed"
    /\ status' = "INSUFFICIENT_EVIDENCE"
    /\ UNCHANGED <<loopVars, hasTicket, hasParent, sandbox, verdict, diff, lines, review,
                   auto_mergeable, approvals, draft, posted>>

Provision ==
    /\ phase = "identify"
    /\ phase' = "investigate"
    /\ sandbox' = TRUE
    /\ UNCHANGED <<loopVars, hasTicket, hasParent, verdict, diff, lines, review,
                   auto_mergeable, approvals, draft, posted, status>>

Investigate ==
    /\ phase = "investigate"
    /\ LoopNext
    /\ UNCHANGED taskVars

\* An exception leaves run() as it is: the endpoint rolls back and keeps no
\* record of the task.
Raise ==
    /\ phase = "investigate"
    /\ pc = "raised"
    /\ phase' = "raised"
    /\ UNCHANGED <<loopVars, hasTicket, hasParent, sandbox, verdict, diff, lines, review,
                   auto_mergeable, approvals, draft, posted, status>>

NotDoneKeepingSandbox ==
    /\ phase = "investigate"
    /\ pc = "returned" /\ ~done
    /\ phase' = "closed"
    /\ status' = IF edited # {} THEN "FAILED_VERIFICATION" ELSE "INSUFFICIENT_EVIDENCE"
    /\ UNCHANGED <<loopVars, hasTicket, hasParent, sandbox, verdict, diff, lines, review,
                   auto_mergeable, approvals, draft, posted>>

NotDone ==
    /\ phase = "investigate"
    /\ pc = "returned" /\ ~done
    /\ phase' = "closed"
    /\ status' = IF edited # {} THEN "FAILED_VERIFICATION" ELSE "INSUFFICIENT_EVIDENCE"
    /\ sandbox' = FALSE
    /\ UNCHANGED <<loopVars, hasTicket, hasParent, verdict, diff, lines, review,
                   auto_mergeable, approvals, draft, posted>>

\* The fresh verification and the diff.
VerifyUnasked ==
    /\ phase = "investigate"
    /\ pc = "returned"
    /\ phase' = "verified"
    /\ diff' = InspectDiff
    /\ \E full \in Runs, repro \in Reproductions :
          verdict' = VerifyScopedFix(full, repro, diff')
    /\ UNCHANGED <<loopVars, hasTicket, hasParent, sandbox, lines, review, auto_mergeable,
                   approvals, draft, posted, status>>

Verify ==
    /\ phase = "investigate"
    /\ pc = "returned" /\ done
    /\ phase' = "verified"
    /\ diff' = InspectDiff
    /\ \E full \in Runs, repro \in Reproductions :
          verdict' = VerifyScopedFix(full, repro, diff')
    /\ UNCHANGED <<loopVars, hasTicket, hasParent, sandbox, lines, review, auto_mergeable,
                   approvals, draft, posted, status>>

\* Only a verdict that is not a failure is reviewed.
Review ==
    /\ phase = "verified"
    /\ verdict.verdict # "FAILED_VERIFICATION"
    /\ phase' = "reviewed"
    /\ lines' \in AddedLines(diff)
    /\ review' = ReviewVerdict(ReviewFindings(lines', verdict))
    /\ \E small_scoped \in BOOLEAN : auto_mergeable' = DecideMergePolicy(review', small_scoped)
    /\ UNCHANGED <<loopVars, hasTicket, hasParent, sandbox, verdict, diff, approvals,
                   draft, posted, status>>

\* What the gate's answer makes of an approval.
Resolution(tool) ==
    IF EvaluateMergeAction(tool, auto_mergeable) = "SAFE_TO_EXECUTE"
    THEN "auto_approved" ELSE "None"

\* The draft is opened, or waits with an approval to be resolved.
PreparePullRequest ==
    /\ phase = "reviewed"
    /\ phase' = IF hasTicket THEN "pr_prepared" ELSE "closing"
    /\ approvals' = [tool \in {"prepare_pull_request"} |-> Resolution(tool)]
    /\ draft' = IF Resolution("prepare_pull_request") = "auto_approved" THEN "opened"
                ELSE "awaiting_review"
    /\ UNCHANGED <<loopVars, hasTicket, hasParent, sandbox, verdict, diff, lines, review,
                   auto_mergeable, posted, status>>

WithTicketApproval ==
    [tool \in {"prepare_pull_request", "update_ticket"} |->
        IF tool = "update_ticket" THEN Resolution(tool) ELSE approvals[tool]]

UpdateTicketUngated ==
    /\ phase = "pr_prepared"
    /\ phase' = "closing"
    /\ approvals' = WithTicketApproval
    /\ posted' = TRUE
    /\ UNCHANGED <<loopVars, hasTicket, hasParent, sandbox, verdict, diff, lines, review,
                   auto_mergeable, draft, status>>

UpdateTicket ==
    /\ phase = "pr_prepared"
    /\ phase' = "closing"
    /\ approvals' = WithTicketApproval
    /\ posted' = (Resolution("update_ticket") = "auto_approved")
    /\ UNCHANGED <<loopVars, hasTicket, hasParent, sandbox, verdict, diff, lines, review,
                   auto_mergeable, draft, status>>

\* The flush of the ticket waited too long for the database.
UpdateTicketRaises ==
    /\ phase = "pr_prepared"
    /\ Resolution("update_ticket") = "auto_approved"
    /\ phase' = "raised"
    /\ UNCHANGED <<loopVars, hasTicket, hasParent, sandbox, verdict, diff, lines, review,
                   auto_mergeable, approvals, draft, posted, status>>

Close ==
    /\ \/ phase = "closing"
       \/ phase = "verified" /\ verdict.verdict = "FAILED_VERIFICATION"
    /\ phase' = "closed"
    /\ status' = IF phase = "closing" /\ approvals["prepare_pull_request"] = "None"
                 THEN "APPROVAL_REQUIRED" ELSE verdict.verdict
    /\ sandbox' = FALSE
    /\ UNCHANGED <<loopVars, hasTicket, hasParent, verdict, diff, lines, review,
                   auto_mergeable, approvals, draft, posted>>

Next ==
    \/ NoRepository \/ Provision \/ Investigate \/ Raise \/ NotDone
    \/ Verify \/ Review \/ PreparePullRequest
    \/ UpdateTicket \/ UpdateTicketRaises \/ Close

\* A run is one thread that calls its tools one after the other; each command
\* ends by itself or is cut off.
Spec == Init /\ [][Next]_vars /\ WF_vars(Next)

--------------------------------------------------------------------------
(* Properties.                                                             *)

TypeOK ==
    /\ LoopTypeOK
    /\ phase \in {"identify", "investigate", "verified", "reviewed", "pr_prepared",
                  "closing", "closed", "raised"}
    /\ verdict.verdict \in {"none", "VERIFIED_COMPLETE", "PARTIALLY_COMPLETE",
                            "FAILED_VERIFICATION"}
    /\ diff \in {"none", "fix", "parent"}
    /\ lines \subseteq LineKinds
    /\ review \in {"none", "APPROVED", "APPROVED_WITH_FINDINGS"}
    /\ DOMAIN approvals \subseteq {"prepare_pull_request", "update_ticket"}
    /\ \A tool \in DOMAIN approvals : approvals[tool] \in {"None", "auto_approved"}
    /\ draft \in {"none", "awaiting_review", "opened"}
    /\ status \in {"RUNNING", "INSUFFICIENT_EVIDENCE", "FAILED_VERIFICATION",
                   "VERIFIED_COMPLETE", "PARTIALLY_COMPLETE", "APPROVAL_REQUIRED"}
    /\ {hasTicket, hasParent, sandbox, auto_mergeable, posted} \subseteq BOOLEAN

\* A pull request is proposed, to a human or not, only of files on which every
\* test of the repository passes, whichever runs were cut off on the way.
ProposedIsGreen ==
    draft # "none" => suite.failing \subseteq {NewTest} /\ suite # Unlisted

\* "a new failure is caught even when the total count doesn't move"
\* (verifier.py): a verdict that is not a failure is given only to files on
\* which every test passes, or after a full run that was cut off.  The loop
\* ignores the result of its regression test and commits it even if it fails:
\* this is where it has to be stopped.
RegressionsCaught ==
    verdict.verdict \in {"VERIFIED_COMPLETE", "PARTIALLY_COMPLETE"} =>
        suite = Green \/ verdict.full = Unlisted

\* The diff that such a verdict and the review are about (git_tools.py,
\* inspect_diff): the task's own edits, or a commit that is not the task's, and
\* that only when the commit of the edits failed, which the loop does not
\* notice, or when the suite was green before anything was touched.
VerifiedForAReason ==
    verdict.verdict \in {"VERIFIED_COMPLETE", "PARTIALLY_COMPLETE"} =>
        \/ diff = "fix" /\ edited # {}
        \/ /\ diff = "parent" /\ hasParent
           /\ \/ tree = "staged" /\ edited # {}
              \/ edited = {} /\ baseline = {} /\ suite = Green

\* A diff with a credential or another security pattern outside the tests, or
\* with new shared state, reaches neither a pull request nor the ticket without
\* a human, whatever else the review found and filtered.
RisksWait ==
    lines \cap {"secret", "container"} # {} => draft # "opened" /\ ~posted

\* What a run leaves for the approval endpoint: either every write was let
\* through and made, under the verdict, or none was and each one waits.
AllOrNothing ==
    phase = "closed" /\ draft # "none" =>
        \/ /\ status = verdict.verdict
           /\ draft = "opened" /\ posted = hasTicket
           /\ \A tool \in DOMAIN approvals : approvals[tool] = "auto_approved"
        \/ /\ status = "APPROVAL_REQUIRED"
           /\ draft = "awaiting_review" /\ ~posted
           /\ \A tool \in DOMAIN approvals : approvals[tool] = "None"

\* A run that closes leaves no sandbox; one that raises may.
ClosedLeavesNoSandbox == phase = "closed" => ~sandbox

\* Every task closes or raises.
TaskEnds == <>(phase \in {"closed", "raised"})

--------------------------------------------------------------------------
(* What the repository says of a task and the code does not keep.          *)

\* "reproduction passes but the full suite has other failures - review before
\* merging" (runtime.py): a PARTIALLY_COMPLETE task is not merged unreviewed.
PartialIsReviewed == verdict.verdict = "PARTIALLY_COMPLETE" => draft # "opened"

\* "no code change was actually made" (verifier.py): a task that changed
\* nothing fails its verification.
NoChangeFails == verdict.verdict # "none" /\ edited = {} => verdict.verdict = "FAILED_VERIFICATION"

=============================================================================

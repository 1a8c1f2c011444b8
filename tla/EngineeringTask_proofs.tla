----------------------- MODULE EngineeringTask_proofs -----------------------
(***************************************************************************)
(* Proofs about an engineering task, for any number of tests and attempts, *)
(* whether or not runs of the suite are cut off.                           *)
(***************************************************************************)
EXTENDS EngineeringTask, RepairLoop_proofs

----------------------------------------------------------------------------
(* The gate asks the same of both writes.                                  *)

Writes == {"prepare_pull_request", "update_ticket"}

Answer == IF auto_mergeable THEN "auto_approved" ELSE "None"

LEMMA SameAnswer ==
    ASSUME NEW tool \in Writes
    PROVE  Resolution(tool) = Answer
<1>1. /\ tool \notin ReadTools
      /\ tool \notin SandboxTools
      /\ tool \notin HighRiskTools
  BY DEF Writes, ReadTools, SandboxTools, HighRiskTools
<1>2. ClassifyTool(tool) = "APPROVAL_REQUIRED"
  BY <1>1 DEF ClassifyTool
<1> QED
  BY <1>2 DEF Resolution, EvaluateMergeAction, Answer

----------------------------------------------------------------------------
(* The inductive invariant.                                                *)

Passing == {"VERIFIED_COMPLETE", "PARTIALLY_COMPLETE"}

\* The record of the verification: what a verdict that is not a failure says
\* of the runs it was made from.
VerdictInv ==
    /\ verdict.verdict \in {"none", "FAILED_VERIFICATION"} \cup Passing
    /\ verdict.no_new_regression \in BOOLEAN
    /\ verdict.reproduction \in BOOLEAN
    /\ verdict.verdict \in Passing =>
          /\ verdict.no_new_regression /\ verdict.reproduction
          /\ verdict.full.failing \subseteq baseline

\* A task is verified only once its loop is done, and proposed only after that.
Verified ==
    /\ phase \in {"identify", "investigate"} => verdict.verdict = "none"
    /\ phase \in {"verified", "reviewed", "pr_prepared", "closing"} => done
    /\ phase = "verified" => verdict.verdict # "none"
    /\ phase \in {"reviewed", "pr_prepared", "closing"} => verdict.verdict \in Passing
    /\ draft # "none" => done

\* What is decided and written at each point of the way.
NothingProposed == approvals = [tool \in {} |-> "None"] /\ draft = "none" /\ ~posted

PullRequestProposed ==
    /\ approvals["prepare_pull_request"] = Answer
    /\ draft = IF auto_mergeable THEN "opened" ELSE "awaiting_review"

TicketDecided ==
    /\ DOMAIN approvals = IF hasTicket THEN Writes ELSE {"prepare_pull_request"}
    /\ \A tool \in DOMAIN approvals : approvals[tool] = Answer
    /\ posted = (hasTicket /\ auto_mergeable)

Proposals ==
    /\ phase \in {"identify", "investigate", "verified", "reviewed"} => NothingProposed
    /\ phase = "pr_prepared" =>
          /\ hasTicket /\ PullRequestProposed /\ ~posted
          /\ DOMAIN approvals = {"prepare_pull_request"}
    /\ phase = "closing" => PullRequestProposed /\ TicketDecided
    /\ phase = "closed" =>
          \/ draft = "none"
          \/ /\ PullRequestProposed /\ TicketDecided
             /\ status = IF auto_mergeable THEN verdict.verdict ELSE "APPROVAL_REQUIRED"

SandboxInv == phase \in {"identify", "closed"} => ~sandbox

\* A merge without a human is decided on a diff without a risk, and nothing is
\* written unattended without that decision.
Risks == {"secret", "container"}

RiskInv ==
    /\ auto_mergeable => lines \cap Risks = {}
    /\ draft = "opened" \/ posted => auto_mergeable

Flags ==
    /\ hasTicket \in BOOLEAN /\ hasParent \in BOOLEAN /\ sandbox \in BOOLEAN
    /\ auto_mergeable \in BOOLEAN /\ posted \in BOOLEAN

TaskTypes ==
    /\ phase \in {"identify", "investigate", "verified", "reviewed", "pr_prepared",
                  "closing", "closed", "raised"}
    /\ diff \in {"none", "fix", "parent"}
    /\ lines \subseteq LineKinds
    /\ review \in {"none", "APPROVED", "APPROVED_WITH_FINDINGS"}
    /\ DOMAIN approvals \subseteq Writes
    /\ \A tool \in DOMAIN approvals : approvals[tool] \in {"None", "auto_approved"}
    /\ draft \in {"none", "awaiting_review", "opened"}
    /\ status \in {"RUNNING", "INSUFFICIENT_EVIDENCE", "FAILED_VERIFICATION",
                   "VERIFIED_COMPLETE", "PARTIALLY_COMPLETE", "APPROVAL_REQUIRED"}
    /\ Flags

TaskInv ==
    /\ LoopInv
    /\ TaskTypes
    /\ VerdictInv
    /\ Verified
    /\ Proposals
    /\ SandboxInv
    /\ RiskInv

LEMMA TaskInitInv == Init => TaskInv
<1> SUFFICES ASSUME Init PROVE TaskInv
  OBVIOUS
<1>1. LoopInv
  BY LoopInitInv DEF Init
<1>2. TaskTypes
  BY DEF Init, TaskTypes, Flags
<1>3. VerdictInv /\ Verified /\ SandboxInv /\ Proposals /\ RiskInv
  BY DEF Init, VerdictInv, NoVerdict, Verified, SandboxInv, Proposals, NothingProposed, Passing,
     RiskInv
<1> QED
  BY <1>1, <1>2, <1>3 DEF TaskInv

----------------------------------------------------------------------------
(* Every step of the task keeps it.                                        *)

\* A verdict that is not a failure compared the failures by name.
LEMMA VerdictFacts ==
    ASSUME NEW full, NEW repro, repro.passed \in BOOLEAN, NEW change
    PROVE  LET v == VerifyScopedFix(full, repro, change)
           IN  /\ v.verdict \in {"FAILED_VERIFICATION"} \cup Passing
               /\ v.no_new_regression \in BOOLEAN /\ v.reproduction \in BOOLEAN
               /\ v.full = full
               /\ v.verdict \in Passing =>
                     v.no_new_regression /\ v.reproduction /\ full.failing \subseteq baseline
BY DEF VerifyScopedFix, Passing

\* A run of the reproduction test either passes or does not.
LEMMA ReproductionType ==
    ASSUME LoopInv, NEW r \in Reproductions
    PROVE  r.passed \in BOOLEAN
<1>1. CASE target = WholeSuite
  BY <1>1, RunFacts DEF Reproductions
<1>2. CASE target # WholeSuite
  <2>1. r = Result(target \notin suite.failing, {target} \cap suite.failing) \/ r = Unlisted
    BY <1>2 DEF Reproductions
  <2>2. Unlisted.passed = FALSE
    BY DEF Result, Unlisted
  <2>3. Result(target \notin suite.failing, {target} \cap suite.failing).passed
          = (target \notin suite.failing)
    BY Zenon DEF Result
  <2> QED
    BY <2>1, <2>2, <2>3, Zenon
<1> QED
  BY <1>1, <1>2

\* After the loop returned its variables stay as they are.
LEMMA LoopStays ==
    ASSUME LoopInv, UNCHANGED loopVars
    PROVE  LoopInv' /\ done' = done /\ baseline' = baseline
BY LoopNextInv DEF loopVars

LEMMA EarlySteps ==
    ASSUME TaskInv, NoRepository \/ Provision \/ Raise \/ NotDone
    PROVE  TaskInv'
<1>1. LoopInv' /\ done' = done /\ baseline' = baseline
  BY LoopStays DEF TaskInv, NoRepository, Provision, Raise, NotDone
<1>2. /\ phase \in {"identify", "investigate"} /\ phase' \in {"investigate", "closed", "raised"}
      /\ UNCHANGED <<hasTicket, hasParent, verdict, diff, lines, review, auto_mergeable, approvals,
                     draft, posted>>
  BY DEF NoRepository, Provision, Raise, NotDone
<1>3. sandbox' \in BOOLEAN /\ (phase' = "closed" => ~sandbox')
  <2>1. sandbox \in BOOLEAN /\ (phase = "identify" => ~sandbox)
    BY DEF TaskInv, TaskTypes, Flags, SandboxInv
  <2>2. CASE NoRepository
    BY <2>1, <2>2 DEF NoRepository
  <2>3. CASE Provision
    BY <2>3 DEF Provision
  <2>4. CASE Raise
    BY <2>1, <2>4 DEF Raise
  <2>5. CASE NotDone
    BY <2>5 DEF NotDone
  <2> QED
    BY <2>2, <2>3, <2>4, <2>5
<1>7. status' \in {status, "INSUFFICIENT_EVIDENCE", "FAILED_VERIFICATION"}
  BY DEF NoRepository, Provision, Raise, NotDone
<1>4. TaskTypes'
  BY <1>2, <1>3, <1>7 DEF TaskInv, TaskTypes, Flags
<1>5. VerdictInv' /\ Verified' /\ SandboxInv'
  BY <1>1, <1>2, <1>3 DEF TaskInv, VerdictInv, Verified, SandboxInv, Passing
<1>6. Proposals' /\ RiskInv'
  BY <1>2 DEF TaskInv, Proposals, NothingProposed, RiskInv
<1> QED
  BY <1>1, <1>4, <1>5, <1>6 DEF TaskInv

LEMMA InvestigateStep ==
    ASSUME TaskInv, Investigate
    PROVE  TaskInv'
<1>1. LoopInv'
  BY LoopNextInv DEF TaskInv, Investigate
<1>2. phase = "investigate" /\ UNCHANGED taskVars
  BY DEF Investigate
<1>3. verdict.verdict = "none" /\ NothingProposed
  BY <1>2 DEF TaskInv, Verified, Proposals
<1>4. TaskTypes' /\ SandboxInv' /\ RiskInv'
  BY <1>2 DEF TaskInv, TaskTypes, Flags, SandboxInv, RiskInv, taskVars
<1>5. VerdictInv' /\ Verified' /\ Proposals'
  BY <1>2, <1>3 DEF TaskInv, VerdictInv, Verified, Proposals, NothingProposed, Passing, taskVars
<1> QED
  BY <1>1, <1>4, <1>5 DEF TaskInv

LEMMA VerifyStep ==
    ASSUME TaskInv, Verify
    PROVE  TaskInv'
<1>1. LoopInv' /\ done' = done /\ baseline' = baseline
  BY LoopStays DEF TaskInv, Verify
<1>2. /\ phase = "investigate" /\ done /\ phase' = "verified" /\ diff' = InspectDiff
      /\ UNCHANGED <<hasTicket, hasParent, sandbox, lines, review, auto_mergeable, approvals,
                     draft, posted, status>>
  BY DEF Verify
<1>3. PICK full \in Runs, repro \in Reproductions : verdict' = VerifyScopedFix(full, repro, diff')
  BY DEF Verify
<1>4. repro.passed \in BOOLEAN
  BY ReproductionType DEF TaskInv
<1>5. VerdictInv'
  BY <1>1, <1>3, <1>4, VerdictFacts DEF VerdictInv
<1>6. diff' \in {"none", "fix", "parent"}
  BY <1>2 DEF InspectDiff
<1>7. TaskTypes' /\ SandboxInv' /\ RiskInv'
  BY <1>2, <1>6 DEF TaskInv, TaskTypes, Flags, SandboxInv, RiskInv
<1>8. verdict'.verdict # "none"
  <2>1. verdict'.verdict \in {"FAILED_VERIFICATION"} \cup Passing
    BY <1>3, <1>4, VerdictFacts
  <2> QED
    BY <2>1 DEF Passing
<1>9. Verified' /\ Proposals'
  BY <1>1, <1>2, <1>8 DEF TaskInv, Verified, Proposals, NothingProposed
<1> QED
  BY <1>1, <1>5, <1>7, <1>9 DEF TaskInv

\* A passing verdict gives no finding that blocks.
LEMMA PassingIsNotBlocked ==
    ASSUME NEW added, verdict.no_new_regression, verdict.reproduction
    PROVE  ReviewVerdict(ReviewFindings(added, verdict)) \in {"APPROVED", "APPROVED_WITH_FINDINGS"}
<1>1. CheckBugDetection(verdict.no_new_regression, verdict.reproduction) = {}
  BY DEF CheckBugDetection, Found
<1>2. ASSUME NEW f \in ReviewFindings(added, verdict)
      PROVE  f.severity # "HIGH"
  <2>1. f \in CheckSecurity(added) \cup CheckDesignSystem(FailedChecks)
             \cup CheckInternationalization(added) \cup CheckPreMortem(added)
    BY <1>1 DEF ReviewFindings, Actionable
  <2> QED
    BY <2>1 DEF CheckSecurity, CheckDesignSystem, CheckInternationalization, CheckPreMortem,
       Found, Finding
<1> QED
  BY <1>2 DEF ReviewVerdict

\* A credential or a shared container is found, with a severity and a
\* confidence that the filter and the policy do not pass over.
LEMMA RisksAreFound ==
    ASSUME NEW added, added \cap Risks # {}
    PROVE  ReviewVerdict(ReviewFindings(added, verdict)) # "APPROVED"
<1> DEFINE f == IF "secret" \in added THEN Finding("security", "MEDIUM", "high")
                ELSE Finding("pre_mortem", "MEDIUM", "high")
<1>1. f.severity = "MEDIUM" /\ f.confidence = "high"
  BY DEF Finding
<1>2. f \in CheckSecurity(added) \cup CheckPreMortem(added)
  BY DEF Risks, CheckSecurity, CheckPreMortem, Found
<1>3. f \in ReviewFindings(added, verdict)
  BY <1>1, <1>2 DEF ReviewFindings, Actionable
<1> QED
  BY <1>1, <1>3 DEF ReviewVerdict

LEMMA ReviewStep ==
    ASSUME TaskInv, Review
    PROVE  TaskInv'
<1>1. LoopInv' /\ done' = done /\ baseline' = baseline
  BY LoopStays DEF TaskInv, Review
<1>2. /\ phase = "verified" /\ verdict.verdict # "FAILED_VERIFICATION" /\ phase' = "reviewed"
      /\ UNCHANGED <<hasTicket, hasParent, sandbox, verdict, diff, approvals, draft, posted,
                     status>>
  BY DEF Review
<1>3. PICK small_scoped \in BOOLEAN :
        /\ lines' \in AddedLines(diff)
        /\ review' = ReviewVerdict(ReviewFindings(lines', verdict))
        /\ auto_mergeable' = DecideMergePolicy(review', small_scoped)
  BY DEF Review
<1>4. verdict.verdict \in Passing
  BY <1>2 DEF TaskInv, VerdictInv, Verified
<1>5. /\ review' \in {"APPROVED", "APPROVED_WITH_FINDINGS"}
      /\ auto_mergeable' \in BOOLEAN
      /\ auto_mergeable' => review' = "APPROVED"
      /\ lines' \subseteq LineKinds
  <2>1. verdict.no_new_regression /\ verdict.reproduction
    BY <1>4 DEF TaskInv, VerdictInv
  <2>2. review' \in {"APPROVED", "APPROVED_WITH_FINDINGS"}
    BY <2>1, <1>3, PassingIsNotBlocked
  <2>3. lines' \subseteq LineKinds
    BY <1>3 DEF AddedLines
  <2> QED
    BY <2>2, <2>3, <1>3 DEF DecideMergePolicy
<1>9. RiskInv'
  <2>1. lines' \cap Risks # {} => review' # "APPROVED"
    BY <1>3, RisksAreFound
  <2>2. draft = "none" /\ ~posted
    BY <1>2 DEF TaskInv, Proposals, NothingProposed
  <2> QED
    BY <1>2, <1>5, <2>1, <2>2 DEF RiskInv
<1>6. TaskTypes' /\ SandboxInv'
  BY <1>2, <1>5 DEF TaskInv, TaskTypes, Flags, SandboxInv
<1>7. VerdictInv'
  BY <1>1, <1>2 DEF TaskInv, VerdictInv
<1>8. Verified' /\ Proposals'
  BY <1>1, <1>2, <1>4 DEF TaskInv, Verified, Proposals, NothingProposed
<1> QED
  BY <1>1, <1>6, <1>7, <1>8, <1>9 DEF TaskInv

LEMMA PreparePullRequestStep ==
    ASSUME TaskInv, PreparePullRequest
    PROVE  TaskInv'
<1>1. LoopInv' /\ done' = done /\ baseline' = baseline
  BY LoopStays DEF TaskInv, PreparePullRequest
<1>2. /\ phase = "reviewed" /\ phase' = IF hasTicket THEN "pr_prepared" ELSE "closing"
      /\ approvals' = [tool \in {"prepare_pull_request"} |-> Answer]
      /\ draft' = IF Answer = "auto_approved" THEN "opened" ELSE "awaiting_review"
      /\ UNCHANGED <<hasTicket, hasParent, sandbox, verdict, diff, lines, review, auto_mergeable,
                     posted, status>>
  BY SameAnswer DEF PreparePullRequest, Writes
<1>3. done /\ NothingProposed /\ hasTicket \in BOOLEAN /\ auto_mergeable \in BOOLEAN
  BY <1>2 DEF TaskInv, Verified, Proposals, TaskTypes, Flags
<1>4. Answer' = Answer /\ Answer \in {"None", "auto_approved"}
      /\ (Answer = "auto_approved" <=> auto_mergeable)
  BY <1>2 DEF Answer
<1>5. /\ DOMAIN approvals' = {"prepare_pull_request"}
      /\ approvals'["prepare_pull_request"] = Answer
      /\ draft' = IF auto_mergeable THEN "opened" ELSE "awaiting_review"
  BY <1>2, <1>4
<1>6. phase' \in {"pr_prepared", "closing"} /\ (phase' = "pr_prepared" <=> hasTicket)
  BY <1>2, <1>3
<1>7. draft' \in {"awaiting_review", "opened"}
  BY <1>5
<1>8. TaskTypes'
  BY <1>2, <1>4, <1>5, <1>6, <1>7 DEF TaskInv, TaskTypes, Flags, Writes
<1>9. VerdictInv' /\ Verified' /\ SandboxInv'
  BY <1>1, <1>2, <1>3, <1>6 DEF TaskInv, VerdictInv, Verified, SandboxInv
<1>10. PullRequestProposed'
  BY <1>2, <1>4, <1>5 DEF PullRequestProposed
<1>11. ~posted' /\ (phase' = "closing" => TicketDecided')
  <2>1. posted \in BOOLEAN /\ ~posted /\ posted' = posted /\ hasTicket' = hasTicket
    BY <1>2, <1>3 DEF NothingProposed, TaskInv, TaskTypes, Flags
  <2>2. ASSUME ~hasTicket PROVE TicketDecided'
    <3>1. DOMAIN approvals' = IF hasTicket' THEN Writes ELSE {"prepare_pull_request"}
      BY <1>5, <2>1, <2>2
    <3>2. \A tool \in DOMAIN approvals' : approvals'[tool] = Answer'
      BY <1>4, <1>5
    <3>3. posted' = (hasTicket' /\ auto_mergeable')
      BY <2>1, <2>2, <1>2, <1>3
    <3> QED
      BY <3>1, <3>2, <3>3 DEF TicketDecided
  <2> QED
    BY <1>6, <2>1, <2>2
<1>12. Proposals'
  BY <1>2, <1>5, <1>6, <1>10, <1>11 DEF Proposals
<1>13. RiskInv'
  BY <1>2, <1>5, <1>11 DEF TaskInv, RiskInv
<1> QED
  BY <1>1, <1>8, <1>9, <1>12, <1>13 DEF TaskInv

LEMMA UpdateTicketStep ==
    ASSUME TaskInv, UpdateTicket
    PROVE  TaskInv'
<1>1. LoopInv' /\ done' = done /\ baseline' = baseline
  BY LoopStays DEF TaskInv, UpdateTicket
<1>2. /\ phase = "pr_prepared" /\ phase' = "closing"
      /\ UNCHANGED <<hasTicket, hasParent, sandbox, verdict, diff, lines, review, auto_mergeable,
                     draft, status>>
  BY DEF UpdateTicket
<1>3. /\ hasTicket /\ PullRequestProposed /\ ~posted
      /\ auto_mergeable \in BOOLEAN
      /\ DOMAIN approvals = {"prepare_pull_request"}
  BY <1>2 DEF TaskInv, Proposals, TaskTypes, Flags
<1>4. Answer' = Answer /\ Answer \in {"None", "auto_approved"}
      /\ (Answer = "auto_approved" <=> auto_mergeable)
  BY <1>2 DEF Answer
<1>5. DOMAIN approvals' = Writes /\ \A tool \in Writes : approvals'[tool] = Answer
  BY <1>3, SameAnswer DEF UpdateTicket, WithTicketApproval, PullRequestProposed, Writes
<1>6. posted' = auto_mergeable
  BY <1>3, <1>4, SameAnswer DEF UpdateTicket, Writes
<1>7. TaskTypes'
  BY <1>2, <1>3, <1>4, <1>5, <1>6 DEF TaskInv, TaskTypes, Flags
<1>8. VerdictInv' /\ Verified' /\ SandboxInv'
  BY <1>1, <1>2 DEF TaskInv, VerdictInv, Verified, SandboxInv
<1>9. PullRequestProposed' /\ TicketDecided'
  BY <1>2, <1>3, <1>4, <1>5, <1>6 DEF PullRequestProposed, TicketDecided, Writes
<1>10. Proposals' /\ RiskInv'
  BY <1>2, <1>6, <1>9 DEF Proposals, TaskInv, RiskInv
<1> QED
  BY <1>1, <1>7, <1>8, <1>10 DEF TaskInv

LEMMA UpdateTicketRaisesStep ==
    ASSUME TaskInv, UpdateTicketRaises
    PROVE  TaskInv'
<1>1. LoopInv' /\ done' = done /\ baseline' = baseline
  BY LoopStays DEF TaskInv, UpdateTicketRaises
<1>2. /\ phase = "pr_prepared" /\ phase' = "raised"
      /\ UNCHANGED <<hasTicket, hasParent, sandbox, verdict, diff, lines, review, auto_mergeable,
                     approvals, draft, posted, status>>
  BY DEF UpdateTicketRaises
<1>3. TaskTypes' /\ VerdictInv' /\ Verified' /\ SandboxInv' /\ Proposals' /\ RiskInv'
  BY <1>1, <1>2 DEF TaskInv, TaskTypes, Flags, VerdictInv, Verified, SandboxInv, Proposals,
     RiskInv
<1> QED
  BY <1>1, <1>3 DEF TaskInv

LEMMA CloseStep ==
    ASSUME TaskInv, Close
    PROVE  TaskInv'
<1>1. LoopInv' /\ done' = done /\ baseline' = baseline
  BY LoopStays DEF TaskInv, Close
<1>2. /\ \/ phase = "closing"
         \/ phase = "verified" /\ verdict.verdict = "FAILED_VERIFICATION"
      /\ phase' = "closed" /\ sandbox' = FALSE
      /\ status' = IF phase = "closing" /\ approvals["prepare_pull_request"] = "None"
                   THEN "APPROVAL_REQUIRED" ELSE verdict.verdict
      /\ UNCHANGED <<hasTicket, hasParent, verdict, diff, lines, review, auto_mergeable, approvals,
                     draft, posted>>
  BY DEF Close
<1>3. verdict.verdict \in {"FAILED_VERIFICATION", "VERIFIED_COMPLETE", "PARTIALLY_COMPLETE"}
  BY <1>2 DEF TaskInv, Verified, Passing
<1>4. TaskTypes'
  BY <1>2, <1>3 DEF TaskInv, TaskTypes, Flags
<1>5. VerdictInv' /\ Verified' /\ SandboxInv' /\ RiskInv'
  BY <1>1, <1>2 DEF TaskInv, VerdictInv, Verified, SandboxInv, RiskInv
<1>6. ASSUME phase = "closing" PROVE Proposals'
  <2>1. PullRequestProposed /\ TicketDecided /\ auto_mergeable \in BOOLEAN
    BY <1>6 DEF TaskInv, Proposals, TaskTypes, Flags
  <2>2. status' = IF auto_mergeable THEN verdict.verdict ELSE "APPROVAL_REQUIRED"
    BY <1>2, <1>6, <2>1 DEF PullRequestProposed, Answer
  <2>3. PullRequestProposed' /\ TicketDecided'
    BY <1>2, <2>1 DEF PullRequestProposed, TicketDecided, Answer
  <2> QED
    BY <1>2, <2>2, <2>3 DEF Proposals
<1>7. ASSUME phase = "verified" PROVE Proposals'
  BY <1>2, <1>7 DEF TaskInv, Proposals, NothingProposed
<1> QED
  BY <1>1, <1>2, <1>4, <1>5, <1>6, <1>7 DEF TaskInv

LEMMA TaskNextInv == TaskInv /\ [Next]_vars => TaskInv'
<1> SUFFICES ASSUME TaskInv, [Next]_vars PROVE TaskInv'
  OBVIOUS
<1>1. CASE Next
  BY <1>1, EarlySteps, InvestigateStep, VerifyStep, ReviewStep, PreparePullRequestStep,
     UpdateTicketStep, UpdateTicketRaisesStep, CloseStep DEF Next
<1>2. CASE UNCHANGED vars
  <2>1. LoopInv' /\ done' = done /\ baseline' = baseline
    BY <1>2, LoopStays DEF TaskInv, vars
  <2>2. TaskTypes' /\ VerdictInv' /\ Verified' /\ SandboxInv' /\ Proposals' /\ RiskInv'
    BY <1>2, <2>1 DEF vars, taskVars, TaskInv, TaskTypes, Flags, VerdictInv, Verified,
       SandboxInv, RiskInv, Proposals, NothingProposed, PullRequestProposed, TicketDecided, Answer
  <2> QED
    BY <2>1, <2>2 DEF TaskInv
<1> QED
  BY <1>1, <1>2

LEMMA TaskInvariant == Spec => []TaskInv
BY TaskInitInv, TaskNextInv, PTL DEF Spec

----------------------------------------------------------------------------
(* The theorems.                                                           *)

\* Every variable of a task and of its repair loop keeps its type: the attempts
\* stay within MaxAttempts, and a task that is proposed was never BLOCKED.
THEOREM TypeCorrect == Spec => []TypeOK
<1>1. TaskInv => TypeOK
  BY DEF TaskInv, LoopInv, TaskTypes, Flags, VerdictInv, TypeOK, Passing, Writes
<1> QED
  BY <1>1, TaskInvariant, PTL

\* DoneIsGreen, of run_general_loop's "done" (general_loop.py 470-551): it is
\* said only of files whose old tests all pass.
THEOREM DoneFilesPass == Spec => []DoneIsGreen
<1>1. TaskInv => DoneIsGreen
  BY LoopInvImplies DEF TaskInv
<1> QED
  BY <1>1, TaskInvariant, PTL

\* CommitsAreFixes, of the commit at the end of the loop (general_loop.py
\* 533-540): only an edit that passes the suite and the checks is committed.
THEOREM OnlyFixesAreCommitted == Spec => []CommitsAreFixes
<1>1. TaskInv => CommitsAreFixes
  BY LoopInvImplies DEF TaskInv
<1> QED
  BY <1>1, TaskInvariant, PTL

\* EveryEditLogged, of tried_hypotheses: whichever way an attempt is left, what
\* it edited has a hypothesis.
THEOREM EditsAreLogged == Spec => []EveryEditLogged
<1>1. TaskInv => EveryEditLogged
  BY LoopInvImplies DEF TaskInv
<1> QED
  BY <1>1, TaskInvariant, PTL

\* ProposedIsGreen, of the pull request in _run_engineering_task (runtime.py
\* 263-314): it is drafted only of files whose old tests all pass.
THEOREM ProposedFilesPass == Spec => []ProposedIsGreen
<1>1. TaskInv => ProposedIsGreen
  BY DEF TaskInv, LoopInv, EndsAreFinal, Verified, ProposedIsGreen
<1> QED
  BY <1>1, TaskInvariant, PTL

\* RisksWait, of the review's filter and the merge policy (review.py 229-301):
\* no credential in the code and no new shared state is merged by itself.
THEOREM RisksAreReviewed == Spec => []RisksWait
<1>1. TaskInv => RisksWait
  BY DEF TaskInv, RiskInv, Risks, RisksWait
<1> QED
  BY <1>1, TaskInvariant, PTL

\* AllOrNothing, of the gate asked twice in _run_engineering_task (runtime.py
\* 285, 340, 362): a closed task made all its writes or none.
THEOREM WritesAllOrNone == Spec => []AllOrNothing
<1>1. TaskInv => AllOrNothing
  <2> SUFFICES ASSUME TaskInv, phase = "closed", draft # "none" PROVE AllOrNothing
    BY DEF AllOrNothing
  <2>1. /\ PullRequestProposed /\ TicketDecided
        /\ status = IF auto_mergeable THEN verdict.verdict ELSE "APPROVAL_REQUIRED"
    BY DEF TaskInv, Proposals
  <2>2. hasTicket \in BOOLEAN /\ posted \in BOOLEAN
    BY DEF TaskInv, TaskTypes, Flags
  <2>3. CASE auto_mergeable
    BY <2>1, <2>2, <2>3 DEF PullRequestProposed, TicketDecided, Answer, AllOrNothing
  <2>4. CASE ~auto_mergeable
    BY <2>1, <2>2, <2>4 DEF PullRequestProposed, TicketDecided, Answer, AllOrNothing
  <2> QED
    BY <2>3, <2>4
<1> QED
  BY <1>1, TaskInvariant, PTL

\* ClosedLeavesNoSandbox, of the ways to close a task (runtime.py 182-184,
\* 216, 365): none forgets the directory.
THEOREM SandboxesAreRemoved == Spec => []ClosedLeavesNoSandbox
<1>1. TaskInv => ClosedLeavesNoSandbox
  BY DEF TaskInv, SandboxInv, ClosedLeavesNoSandbox
<1> QED
  BY <1>1, TaskInvariant, PTL

----------------------------------------------------------------------------
(* The steps of a task, seen from its repair loop.                         *)

\* Once the loop returned, no action of the task touches what it left.
LEMMA LoopStepsOnly ==
    ASSUME [Next]_vars
    PROVE  \/ phase = "investigate" /\ LoopNext /\ UNCHANGED taskVars
           \/ UNCHANGED loopVars
<1>1. CASE Investigate
  BY <1>1 DEF Investigate
<1>2. CASE NoRepository \/ Provision \/ Raise \/ NotDone \/ Verify
  BY <1>2 DEF NoRepository, Provision, Raise, NotDone, Verify
<1>3. CASE Review \/ PreparePullRequest \/ UpdateTicket \/ UpdateTicketRaises \/ Close
  BY <1>3 DEF Review, PreparePullRequest, UpdateTicket, UpdateTicketRaises, Close
<1>4. CASE UNCHANGED vars
  BY <1>4 DEF vars
<1> QED
  BY <1>1, <1>2, <1>3, <1>4 DEF Next

\* What follows run_general_loop (runtime.py 206-367) is no step of it: a task
\* is a behaviour of the repair loop, and what is said of one of its runs is
\* said of the files that are verified, proposed and merged.
THEOREM TaskRunsTheLoop == Spec => LoopInit /\ [][LoopNext]_loopVars
<1>1. Init => LoopInit
  BY DEF Init
<1>2. [Next]_vars => [LoopNext]_loopVars
  BY LoopStepsOnly
<1> QED
  BY <1>1, <1>2, PTL DEF Spec

----------------------------------------------------------------------------
(* Every step uses up one of finitely many.                                *)

\* The steps that the task takes after its loop.
PhasesLeft ==
    CASE phase = "identify"    -> 6
      [] phase = "investigate" -> 5
      [] phase = "verified"    -> 4
      [] phase = "reviewed"    -> 3
      [] phase = "pr_prepared" -> 2
      [] phase = "closing"     -> 1
      [] OTHER                 -> 0

TaskRank == LoopRank + PhasesLeft

MaxTaskSteps == 3 * MaxAttempts + 10

LEMMA PhasesLeftAt ==
    /\ phase = "identify" => PhasesLeft = 6
    /\ phase = "investigate" => PhasesLeft = 5
    /\ phase = "verified" => PhasesLeft = 4
    /\ phase = "reviewed" => PhasesLeft = 3
    /\ phase = "pr_prepared" => PhasesLeft = 2
    /\ phase = "closing" => PhasesLeft = 1
    /\ phase \in {"closed", "raised"} => PhasesLeft = 0
    /\ PhasesLeft \in 0 .. 6
BY DEF PhasesLeft

LEMMA PhasesLeftAtNext ==
    /\ phase' = "investigate" => PhasesLeft' = 5
    /\ phase' = "verified" => PhasesLeft' = 4
    /\ phase' = "reviewed" => PhasesLeft' = 3
    /\ phase' = "pr_prepared" => PhasesLeft' = 2
    /\ phase' = "closing" => PhasesLeft' = 1
    /\ phase' \in {"closed", "raised"} => PhasesLeft' = 0
BY DEF PhasesLeft

\* Every action but the loop's moves the phase on.
LEMMA PhasesFall ==
    ASSUME TaskInv, Next, ~Investigate
    PROVE  PhasesLeft' < PhasesLeft
<1>0. hasTicket \in BOOLEAN
  BY DEF TaskInv, TaskTypes, Flags
<1>1. CASE NoRepository \/ Provision
  BY <1>1, PhasesLeftAt, PhasesLeftAtNext DEF NoRepository, Provision
<1>2. CASE Raise \/ NotDone \/ Verify
  <2>1. phase = "investigate" /\ phase' \in {"raised", "closed", "verified"}
    BY <1>2 DEF Raise, NotDone, Verify
  <2> QED
    BY <2>1, PhasesLeftAt, PhasesLeftAtNext
<1>3. CASE Review
  BY <1>3, PhasesLeftAt, PhasesLeftAtNext DEF Review
<1>4. CASE PreparePullRequest
  <2>1. phase = "reviewed" /\ phase' \in {"pr_prepared", "closing"}
    BY <1>0, <1>4 DEF PreparePullRequest
  <2> QED
    BY <2>1, PhasesLeftAt, PhasesLeftAtNext
<1>5. CASE UpdateTicket \/ UpdateTicketRaises
  <2>1. phase = "pr_prepared" /\ phase' \in {"closing", "raised"}
    BY <1>5 DEF UpdateTicket, UpdateTicketRaises
  <2> QED
    BY <2>1, PhasesLeftAt, PhasesLeftAtNext
<1>6. CASE Close
  <2>1. phase \in {"closing", "verified"} /\ phase' = "closed"
    BY <1>6 DEF Close
  <2> QED
    BY <2>1, PhasesLeftAt, PhasesLeftAtNext
<1> QED
  BY <1>1, <1>2, <1>3, <1>4, <1>5, <1>6 DEF Next

RanksAreNumbers == LoopRank \in Nat /\ PhasesLeft \in Nat

LEMMA RankTypes == TaskInv => RanksAreNumbers
<1> SUFFICES ASSUME TaskInv PROVE RanksAreNumbers
  OBVIOUS
<1>1. LoopRank \in 0 .. 3 * MaxAttempts + 4 /\ PhasesLeft \in 0 .. 6
  BY LoopRankType, PhasesLeftAt DEF TaskInv
<1> QED
  BY <1>1, RepairLoopAssumption DEF RanksAreNumbers

\* A step brings one of the two down and leaves the other.
LEMMA OneRankFalls ==
    ASSUME TaskInv, Next
    PROVE  \/ LoopRank' < LoopRank /\ PhasesLeft' = PhasesLeft
           \/ PhasesLeft' < PhasesLeft /\ LoopRank' = LoopRank
<1>1. CASE Investigate
  <2>1. LoopRank' < LoopRank
    BY <1>1, LoopRankFalls DEF Investigate, TaskInv
  <2>2. PhasesLeft' = PhasesLeft
    BY <1>1 DEF Investigate, taskVars, PhasesLeft
  <2> QED
    BY <2>1, <2>2
<1>2. CASE ~Investigate
  <2>1. PhasesLeft' < PhasesLeft
    BY <1>2, PhasesFall
  <2>2. UNCHANGED loopVars
    BY <1>2, LoopStepsOnly DEF Investigate
  <2>3. LoopRank' = LoopRank
    BY <2>2 DEF loopVars, LoopRank
  <2> QED
    BY <2>1, <2>3
<1> QED
  BY <1>1, <1>2

LEMMA SumFalls ==
    ASSUME NEW a \in Nat, NEW b \in Nat, NEW c \in Nat, NEW d \in Nat,
           (c < a /\ d = b) \/ (d < b /\ c = a)
    PROVE  c + d < a + b
OBVIOUS

LEMMA TaskRankFalls ==
    ASSUME TaskInv, Next
    PROVE  TaskRank' < TaskRank
<1>1. RanksAreNumbers
  BY RankTypes
<1>2. RanksAreNumbers'
  <2>1. TaskInv'
    BY TaskNextInv
  <2> QED
    BY <2>1, RankTypes, PTL
<1>3. LoopRank' + PhasesLeft' < LoopRank + PhasesLeft
  BY <1>1, <1>2, OneRankFalls, SumFalls DEF RanksAreNumbers
<1> QED
  BY <1>3 DEF TaskRank

\* The bound on the steps of _run_engineering_task and its loop (runtime.py
\* 155-367, general_loop.py 267-551), whatever the edits do to the files and
\* whichever runs are cut off: a task has at most MaxTaskSteps steps ahead of it,
\* and each one uses up at least one, so that it goes round nowhere.
THEOREM StepsAreCounted ==
    Spec => [](TaskRank \in 0 .. MaxTaskSteps) /\ [][TaskRank' < TaskRank]_vars
<1>1. TaskInv => TaskRank \in 0 .. MaxTaskSteps
  <2> SUFFICES ASSUME TaskInv PROVE TaskRank \in 0 .. MaxTaskSteps
    OBVIOUS
  <2>1. LoopRank \in 0 .. 3 * MaxAttempts + 4 /\ PhasesLeft \in 0 .. 6
    BY LoopRankType, PhasesLeftAt DEF TaskInv
  <2> QED
    BY <2>1, RepairLoopAssumption DEF TaskRank, MaxTaskSteps
<1>2. TaskInv /\ [Next]_vars => [TaskRank' < TaskRank]_vars
  BY TaskRankFalls
<1> QED
  BY <1>1, <1>2, TaskInvariant, PTL DEF Spec

----------------------------------------------------------------------------
(* What a verdict that is not a failure was given for.                     *)

\* A partial verdict is that of a run which was cut off.
PartialIsCutOff ==
    verdict.verdict = "PARTIALLY_COMPLETE" => Timeouts /\ verdict.full = Unlisted

\* The diff that was verified: of the working tree, or of an older commit.
DiffInv ==
    /\ phase \in {"identify", "investigate"} => diff = "none"
    /\ diff = "fix" => tree \in {"modified", "committed"}
    /\ diff = "parent" => hasParent /\ tree \in {"clean", "staged"}
    /\ diff # "none" => done
    /\ verdict.verdict \in Passing => diff # "none"

\* A complete verdict is that of a full run that passed on these files.
CompleteIsGreen == verdict.verdict = "VERIFIED_COMPLETE" => suite = Green

CauseInv == TaskInv /\ ChangeInv /\ PartialIsCutOff /\ CompleteIsGreen /\ DiffInv

LEMMA CauseInitInv == Init => CauseInv
<1> SUFFICES ASSUME Init PROVE CauseInv
  OBVIOUS
<1>1. TaskInv /\ ChangeInv
  BY TaskInitInv, ChangeInitInv DEF Init
<1>2. ~done
  BY DEF Init, LoopInit
<1> QED
  BY <1>1, <1>2 DEF Init, CauseInv, PartialIsCutOff, CompleteIsGreen, DiffInv, NoVerdict, Passing

LEMMA CauseVerifyStep ==
    ASSUME CauseInv, Verify
    PROVE  PartialIsCutOff' /\ CompleteIsGreen' /\ DiffInv'
<1>1. /\ done /\ phase' = "verified" /\ diff' = InspectDiff
      /\ UNCHANGED <<done, baseline, suite, tree, hasParent>>
  BY DEF Verify, loopVars
<1>2. PICK full \in Runs, repro \in Reproductions : verdict' = VerifyScopedFix(full, repro, diff')
  BY DEF Verify
<1>3. LoopInv
  BY DEF CauseInv, TaskInv
<1>4. verdict'.full = full
  BY <1>2 DEF VerifyScopedFix
<1>5. ASSUME verdict'.verdict \in Passing
      PROVE  diff' # "none" /\ full.failing \subseteq baseline
  BY <1>2, <1>5 DEF VerifyScopedFix, Passing
<1>6. verdict'.verdict = "PARTIALLY_COMPLETE" => ~full.passed
  BY <1>2 DEF VerifyScopedFix
<1>7. PartialIsCutOff'
  BY <1>1, <1>3, <1>4, <1>5, <1>6, CutOffRun DEF PartialIsCutOff, Passing
<1>8. DiffInv'
  <2>1. tree \in {"clean", "modified", "committed", "staged"}
    BY <1>3 DEF LoopInv, LoopTypeOK
  <2>2. /\ diff' = "fix" => tree' \in {"modified", "committed"}
        /\ diff' = "parent" => hasParent' /\ tree' \in {"clean", "staged"}
    BY <1>1, <2>1 DEF InspectDiff
  <2> QED
    BY <1>1, <1>5, <2>2 DEF DiffInv
<1>9. CompleteIsGreen'
  <2>1. SUFFICES ASSUME verdict'.verdict = "VERIFIED_COMPLETE" PROVE suite = Green
    BY <1>1 DEF CompleteIsGreen
  <2>2. full.passed
    BY <1>2, <2>1 DEF VerifyScopedFix
  <2>3. full = suite
    BY <2>2 DEF Runs, Unlisted, Result
  <2>4. suite \in ResultsOf(Tests \cup {NewTest})
    BY <1>3 DEF LoopInv, LoopTypeOK
  <2> QED
    BY <2>2, <2>3, <2>4 DEF ResultsOf, Result
<1> QED
  BY <1>7, <1>8, <1>9

LEMMA CauseNextInv ==
    ASSUME CauseInv, [Next]_vars
    PROVE  CauseInv'
<1>1. TaskInv'
  BY TaskNextInv DEF CauseInv
<1>2. ChangeInv'
  <2>1. [LoopNext]_loopVars
    BY LoopStepsOnly
  <2> QED
    BY <2>1, ChangeNextInv DEF CauseInv, TaskInv
<1>3. CASE Verify
  BY <1>1, <1>2, <1>3, CauseVerifyStep DEF CauseInv
<1>4. CASE Investigate
  <2>1. phase = "investigate" /\ UNCHANGED taskVars
    BY <1>4 DEF Investigate
  <2>2. diff = "none" /\ verdict.verdict = "none"
    BY <2>1 DEF CauseInv, DiffInv, TaskInv, Verified
  <2>3. PartialIsCutOff' /\ CompleteIsGreen' /\ DiffInv'
    BY <2>1, <2>2 DEF taskVars, PartialIsCutOff, CompleteIsGreen, DiffInv, Passing
  <2> QED
    BY <1>1, <1>2, <2>3 DEF CauseInv
<1>5. CASE ~Verify /\ ~Investigate
  <2>1. /\ UNCHANGED <<verdict, diff, hasParent, suite, tree, done>>
        /\ phase' \in {"identify", "investigate"} => phase \in {"identify", "investigate"}
    <3>1. CASE NoRepository \/ Provision \/ Raise \/ NotDone
      BY <3>1 DEF NoRepository, Provision, Raise, NotDone, loopVars
    <3>2. CASE Review \/ UpdateTicket \/ UpdateTicketRaises \/ Close
      BY <3>2 DEF Review, UpdateTicket, UpdateTicketRaises, Close, loopVars
    <3>3. CASE PreparePullRequest
      BY <3>3 DEF PreparePullRequest, loopVars
    <3>4. CASE UNCHANGED vars
      BY <3>4 DEF vars, taskVars, loopVars
    <3> QED
      BY <1>5, <3>1, <3>2, <3>3, <3>4 DEF Next
  <2>2. PartialIsCutOff' /\ CompleteIsGreen' /\ DiffInv'
    BY <2>1 DEF CauseInv, PartialIsCutOff, CompleteIsGreen, DiffInv
  <2> QED
    BY <1>1, <1>2, <2>2 DEF CauseInv
<1> QED
  BY <1>3, <1>4, <1>5

LEMMA CauseInvariant == Spec => []CauseInv
BY CauseInitInv, CauseNextInv, PTL DEF Spec

\* The verdict "reproduction passes but the full suite has other failures" of
\* verify_scoped_fix (verifier.py 132-142) and of its explanation (runtime.py
\* 626-627) is never that: it is given only when the full run was cut off.
THEOREM PartialVerdictsAreCutOff == Spec => []PartialIsCutOff
BY CauseInvariant, PTL DEF CauseInv

\* RegressionsCaught, of verify_scoped_fix (verifier.py 99-149): no test fails,
\* the new one included, on files that pass a verification whose full run was
\* not cut off.
THEOREM NoRegressionPasses == Spec => []RegressionsCaught
<1>1. CauseInv => RegressionsCaught
  BY DEF CauseInv, CompleteIsGreen, PartialIsCutOff, RegressionsCaught
<1> QED
  BY <1>1, CauseInvariant, PTL

\* PartialIsReviewed, of the merge policy (runtime.py 236-314): where the suite
\* ends within its thirty seconds, no partial verdict is merged unreviewed.
THEOREM PartialIsReviewedInTime ==
    ASSUME ~Timeouts
    PROVE  Spec => []PartialIsReviewed
<1>1. CauseInv => PartialIsReviewed
  BY DEF CauseInv, PartialIsCutOff, PartialIsReviewed
<1> QED
  BY <1>1, CauseInvariant, PTL

\* VerifiedForAReason, of inspect_diff (git_tools.py 88-99) and the verifier's
\* "no code change was actually made" (verifier.py 126): nothing else than a
\* failed commit or a green baseline puts a commit that is not the task's before the verifier and the reviewer.
THEOREM OnlyTwoWaysToVerifyAnOldCommit == Spec => []VerifiedForAReason
<1>1. CauseInv => VerifiedForAReason
  <2> SUFFICES ASSUME CauseInv, verdict.verdict \in Passing PROVE VerifiedForAReason
    BY DEF VerifiedForAReason, Passing
  <2>1. /\ diff # "none" /\ done
        /\ diff \in {"none", "fix", "parent"}
        /\ diff = "fix" => tree \in {"modified", "committed"}
        /\ diff = "parent" => hasParent /\ tree \in {"clean", "staged"}
    BY DEF CauseInv, DiffInv, TaskInv, TaskTypes
  <2>2. /\ tree = "clean" <=> edited = {}
        /\ edited = {} => baseline = {} /\ suite = Green
    BY <2>1 DEF CauseInv, ChangeInv
  <2> QED
    BY <2>1, <2>2 DEF VerifiedForAReason
<1> QED
  BY <1>1, CauseInvariant, PTL

=============================================================================

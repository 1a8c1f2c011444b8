--------------------------- MODULE MultiRepoTask ---------------------------
(***************************************************************************)
(* One engineering task on several repositories,                           *)
(* _run_multi_repo_engineering_task of agent/runtime.py: each repository   *)
(* gets a sandbox, a repair loop, a verification and a review of its own,  *)
(* one after the other; then the repositories are probed for the shape of  *)
(* their error responses, and the change is proposed for all of them or    *)
(* for none.                                                               *)
(***************************************************************************)
EXTENDS Verification, SafetyGate, Functions

CONSTANTS
    NumRepos,     \* the repositories are 1 .. NumRepos, in the order of their ids
    Shapes        \* the key sets that an error response may have

Repos   == 1 .. NumRepos
NoShape == "None"        \* of a repository without such a function, or of a failed probe

ASSUME MultiRepoAssumption == NumRepos \in Nat /\ NoShape \notin Shapes

VARIABLES
    phase,        \* where the run is
    repo_ids,     \* the repositories that the task is about
    current,      \* the one under way
    sandboxes,    \* the repositories whose sandbox exists
    results,      \* multi_repo_results
    schemas,      \* what the probes returned
    approvals,    \* resolution of each repository's approval
    opened,       \* the repositories whose pull request was prepared
    status,       \* state.status
    green,        \* history: the repositories left with every test passing
    shape         \* history: the shape that the repaired repository really has

runVars == <<phase, repo_ids, current, sandboxes, results, schemas, approvals, opened,
             status, green, shape>>
vars == <<loopVars, hasParent, runVars>>

Init ==
    /\ LoopInit
    /\ hasParent \in BOOLEAN
    /\ phase = "identify"
    /\ repo_ids = {}
    /\ current = 0
    /\ sandboxes = {}
    /\ results = [r \in {} |-> 0]
    /\ schemas = [r \in {} |-> NoShape]
    /\ approvals = [r \in {} |-> "None"]
    /\ opened = {}
    /\ status = "RUNNING"
    /\ green = {}
    /\ shape = [r \in {} |-> NoShape]

Remaining == repo_ids \ DOMAIN results

--------------------------------------------------------------------------
(* Each repository in turn.                                                *)

\* The repositories that the evidence names, or all of them when it names fewer
\* than two.
Identify ==
    /\ phase = "identify"
    /\ phase' = "next"
    /\ \E named \in SUBSET Repos :
          repo_ids' = IF Cardinality(named) < 2 THEN Repos ELSE named
    /\ UNCHANGED <<loopVars, hasParent, current, sandboxes, results, schemas, approvals,
                   opened, status, green, shape>>

\* The next repository gets a sandbox.
Provision ==
    /\ phase = "next"
    /\ Remaining # {}
    /\ phase' = "investigate"
    /\ current' = Min(Remaining)
    /\ sandboxes' = sandboxes \cup {current'}
    /\ UNCHANGED <<loopVars, hasParent, repo_ids, results, schemas, approvals, opened, status, green, shape>>

Investigate ==
    /\ phase = "investigate"
    /\ LoopNext
    /\ UNCHANGED <<hasParent, runVars>>

\* An exception leaves run() as it is, with the sandboxes made so far.
Raise ==
    /\ phase = "investigate"
    /\ pc = "raised"
    /\ phase' = "raised"
    /\ UNCHANGED <<loopVars, hasParent, repo_ids, current, sandboxes, results, schemas,
                   approvals, opened, status, green, shape>>

\* The entry of a repository in multi_repo_results.
Entry(verdict, auto_mergeable) == [verdict |-> verdict, auto_mergeable |-> auto_mergeable]

\* The end of a repository's turn.  The loop's variables are local to one call
\* and the working copy to one repository: those of the next turn are fresh.
Record(entry) ==
    /\ results' = [r \in DOMAIN results \cup {current} |->
                      IF r = current THEN entry ELSE results[r]]
    /\ LoopStart
    /\ hasParent' \in BOOLEAN

\* A loop that is not done fails its repository; the others go on.
NotDone ==
    /\ phase = "investigate"
    /\ pc = "returned" /\ ~done
    /\ phase' = "next"
    /\ Record(Entry("FAILED_VERIFICATION", FALSE))
    /\ UNCHANGED <<repo_ids, current, sandboxes, schemas, approvals,
                   opened, status, green, shape>>

\* The others are verified and, whatever the verdict, reviewed.
Verify ==
    /\ phase = "investigate"
    /\ pc = "returned" /\ done
    /\ phase' = "next"
    /\ \E full \in Runs, repro \in Reproductions, lines \in AddedLines(InspectDiff),
          small_scoped \in BOOLEAN :
          LET verdict == VerifyScopedFix(full, repro, InspectDiff)
              review  == ReviewVerdict(ReviewFindings(lines, verdict))
          IN  Record(Entry(verdict.verdict, DecideMergePolicy(review, small_scoped)))
    /\ green' = IF suite = Green THEN green \cup {current} ELSE green
    /\ UNCHANGED <<repo_ids, current, sandboxes, schemas, approvals,
                   opened, status, shape>>

--------------------------------------------------------------------------
(* All of them together.                                                   *)

\* Each repository's own function is called in its sandbox.  A probe that is
\* cut off, raises or prints something else counts as no shape.
Probe ==
    /\ phase = "next" /\ Remaining = {}
    /\ phase' = "probed"
    /\ shape' \in [repo_ids -> Shapes \cup {NoShape}]
    /\ \E failed \in SUBSET repo_ids :
          schemas' = [r \in repo_ids |-> IF r \in failed THEN NoShape ELSE shape'[r]]
    /\ UNCHANGED <<loopVars, hasParent, repo_ids, current, sandboxes, results, approvals,
                   opened, status, green>>

\* contract_ok: one shape, and no probe without one.
ContractOkOfAnswers == \E s \in Shapes : Range(schemas) \ {NoShape} = {s}

ContractOk == \E s \in Shapes : Range(schemas) = {s}

Verified(r) == results[r].verdict = "VERIFIED_COMPLETE"

AllVerifiedOrPartial ==
    \A r \in DOMAIN results : results[r].verdict # "FAILED_VERIFICATION"

AllVerified == \A r \in DOMAIN results : Verified(r)

\* The gate's answer for a repository's pull request.
Safe(r) ==
    EvaluateMergeAction("prepare_pull_request", results[r].auto_mergeable) = "SAFE_TO_EXECUTE"

CleanUpUnverified ==
    phase' = "closed" /\ sandboxes' = {r \in sandboxes : Verified(r)}

\* Every way to close the task first removes the sandboxes.
CleanUp == phase' = "closed" /\ sandboxes' = {}

\* All pull requests are prepared, each with an approval that is resolved.
AutoMerge ==
    /\ phase = "probed"
    /\ AllVerified /\ ContractOk
    /\ \A r \in DOMAIN results : Safe(r)
    /\ CleanUp
    /\ opened' = DOMAIN results
    /\ approvals' = [r \in DOMAIN results |-> "auto_approved"]
    /\ status' = "VERIFIED_COMPLETE"
    /\ UNCHANGED <<loopVars, hasParent, repo_ids, current, results, schemas, green, shape>>

RequestApprovalsOpeningSafe ==
    /\ phase = "probed"
    /\ AllVerified /\ ContractOk
    /\ \E r \in DOMAIN results : ~Safe(r)
    /\ CleanUp
    /\ opened' = {r \in DOMAIN results : Safe(r)}
    /\ approvals' = [r \in {q \in DOMAIN results : ~Safe(q)} |-> "None"]
    /\ status' = "APPROVAL_REQUIRED"
    /\ UNCHANGED <<loopVars, hasParent, repo_ids, current, results, schemas, green, shape>>

\* Those that are not safe wait for approval; nothing is done about the others.
RequestApprovals ==
    /\ phase = "probed"
    /\ AllVerified /\ ContractOk
    /\ \E r \in DOMAIN results : ~Safe(r)
    /\ CleanUp
    /\ approvals' = [r \in {q \in DOMAIN results : ~Safe(q)} |-> "None"]
    /\ status' = "APPROVAL_REQUIRED"
    /\ UNCHANGED <<loopVars, hasParent, repo_ids, current, results, schemas, opened, green,
                   shape>>

Incomplete ==
    /\ phase = "probed"
    /\ ~(AllVerified /\ ContractOk)
    /\ CleanUp
    /\ status' = IF \E r \in DOMAIN results : Verified(r) THEN "PARTIALLY_COMPLETE"
                 ELSE "FAILED_VERIFICATION"
    /\ UNCHANGED <<loopVars, hasParent, repo_ids, current, results, schemas, approvals,
                   opened, green, shape>>

Next ==
    \/ Identify \/ Provision \/ Investigate \/ Raise \/ NotDone \/ Verify
    \/ Probe \/ AutoMerge \/ RequestApprovals \/ Incomplete

\* One thread, whose commands end by themselves or are cut off.
Spec == Init /\ [][Next]_vars /\ WF_vars(Next)

--------------------------------------------------------------------------
(* Properties.                                                             *)

Statuses == {"RUNNING", "VERIFIED_COMPLETE", "PARTIALLY_COMPLETE",
             "FAILED_VERIFICATION", "APPROVAL_REQUIRED"}

TypeOK ==
    /\ LoopTypeOK
    /\ hasParent \in BOOLEAN
    /\ phase \in {"identify", "next", "investigate", "probed", "closed", "raised"}
    /\ repo_ids \subseteq Repos
    /\ current \in Repos \cup {0}
    /\ sandboxes \subseteq repo_ids
    /\ DOMAIN results \subseteq repo_ids
    /\ \A r \in DOMAIN results :
          /\ results[r].verdict \in {"VERIFIED_COMPLETE", "PARTIALLY_COMPLETE",
                                     "FAILED_VERIFICATION"}
          /\ results[r].auto_mergeable \in BOOLEAN
    /\ DOMAIN schemas \subseteq repo_ids
    /\ DOMAIN approvals \subseteq repo_ids
    /\ opened \subseteq repo_ids
    /\ status \in Statuses
    /\ green \subseteq DOMAIN results

\* The real agreement of the repositories, which the task itself cannot see.
Agree == \E s \in Shapes : \A r \in repo_ids : shape[r] = s

\* A coordinated change: nothing is opened or put to a human unless every
\* repository of the task passes its tests and their error responses really
\* have one shape, whichever runs and probes were cut off.
ProposedTogether ==
    opened # {} \/ DOMAIN approvals # {} => repo_ids \subseteq green /\ Agree

\* "every per-repo merge decision goes through evaluate_merge_action"
\* (runtime.py): pull requests are opened for all repositories, or for none
\* while somebody is asked about the ones that need it.
OpenedTogether ==
    \/ opened = {} /\ \A r \in DOMAIN approvals : approvals[r] = "None" /\ ~Safe(r)
    \/ opened = repo_ids /\ \A r \in repo_ids : approvals[r] = "auto_approved" /\ Safe(r)

\* Closing forgets no repository, and no repository's sandbox, those of failed
\* loops included.
NoneForgotten == phase = "closed" => DOMAIN results = repo_ids /\ sandboxes = {}

\* What the status of a closed task says of the files: complete or waiting,
\* that all pass; partially complete, that some do; and only a task with
\* something to propose leaves approvals.
StatusTrue ==
    /\ status \in {"VERIFIED_COMPLETE", "APPROVAL_REQUIRED"} =>
          repo_ids \subseteq green /\ DOMAIN approvals # {}
    /\ status = "PARTIALLY_COMPLETE" => green # {} /\ approvals = << >>
    /\ status = "FAILED_VERIFICATION" =>
          approvals = << >> /\ \A r \in repo_ids : results[r].verdict # "VERIFIED_COMPLETE"

\* Every task closes or raises.
TaskEnds == <>(phase \in {"closed", "raised"})

=============================================================================

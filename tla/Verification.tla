--------------------------- MODULE Verification ---------------------------
(***************************************************************************)
(* What happens to one repository after its repair loop is done: the fresh *)
(* verification (agent/verifier.py), the diff (tools/git_tools.py), the    *)
(* review of the diff and the merge policy (tools/review.py).              *)
(***************************************************************************)
EXTENDS RepairLoop, Review

VARIABLE
    hasParent      \* whether the sandbox's first HEAD has a parent commit

NoVerdict ==
    [verdict |-> "none", no_new_regression |-> FALSE, reproduction |-> FALSE, full |-> Unlisted]

\* A run of the reproduction test alone.  It is asked for only once the loop
\* is done, when the suite can be collected.
Reproductions ==
    IF target = WholeSuite THEN Runs
    ELSE {Result(target \notin suite.failing, {target} \cap suite.failing)}
         \cup (IF Timeouts THEN {Unlisted} ELSE {})

\* git diff, or else the diff of the last commit.  The files that commit
\* staged and did not commit are in neither.
InspectDiffOfHead ==
    IF tree = "committed" THEN "fix"
    ELSE IF hasParent THEN "parent"
    ELSE IF tree = "modified" THEN "fix" ELSE "none"

InspectDiff ==
    IF tree \in {"modified", "committed"} THEN "fix"
    ELSE IF hasParent THEN "parent" ELSE "none"

\* verify_scoped_fix, from a run of the suite, one of the reproduction test and
\* the diff: failing tests are compared by name with those of the baseline.
VerifyScopedFixByCount(full, repro, change) ==
    LET no_new == Cardinality(full.failing) <= Cardinality(baseline) IN
    [verdict |-> IF change = "none" \/ ~(repro.passed /\ no_new) THEN "FAILED_VERIFICATION"
                 ELSE IF full.passed THEN "VERIFIED_COMPLETE"
                 ELSE "PARTIALLY_COMPLETE",
     no_new_regression |-> no_new, reproduction |-> repro.passed, full |-> full]

VerifyScopedFix(full, repro, change) ==
    LET no_new == full.failing \subseteq baseline IN
    [verdict |-> IF change = "none" \/ ~(repro.passed /\ no_new) THEN "FAILED_VERIFICATION"
                 ELSE IF full.passed THEN "VERIFIED_COMPLETE"
                 ELSE "PARTIALLY_COMPLETE",
     no_new_regression |-> no_new, reproduction |-> repro.passed, full |-> full]

\* The lines of the diff that the review's patterns match: none in no diff.
AddedLines(change) == IF change = "none" THEN {{}} ELSE SUBSET LineKinds

\* quality_checks is empty, and so reports nothing, when the baseline passed.
FailedChecks == IF edited = {} THEN {} ELSE Checks \ quality

\* run_multi_dimensional_review, of the diff's lines and a verdict.
ReviewFindings(lines, v) ==
    Actionable(lines, v.no_new_regression, v.reproduction, FailedChecks)

=============================================================================

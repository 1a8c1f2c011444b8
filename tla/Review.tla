------------------------------- MODULE Review -------------------------------
(***************************************************************************)
(* tools/review.py: the five dimensions that look at a diff, the filter    *)
(* that drops what was found with low confidence, the verdict, and the     *)
(* policy that merges without a human.  A diff is the kinds of added lines *)
(* that some pattern matches.                                              *)
(***************************************************************************)

LineKinds ==
    {"secret",          \* matches a security pattern, outside the tests
     "secret_in_test",  \* the same, in a file of the tests
     "container",       \* a set, dict or list at module level
     "io",              \* opens a file, a connection or a process
     "sentence"}        \* shows an English sentence to the user

Finding(dimension, severity, confidence) ==
    [dimension |-> dimension, severity |-> severity, confidence |-> confidence]

Found(condition, finding) == IF condition THEN {finding} ELSE {}

CheckBugDetection(full_suite_passed, reproduction_passed) ==
    Found(~(full_suite_passed /\ reproduction_passed), Finding("bug_detection", "HIGH", "high"))

CheckSecurityDistrustingAll(lines) ==
    Found(lines \cap {"secret", "secret_in_test"} # {}, Finding("security", "LOW", "low"))

CheckSecurity(lines) ==
    Found("secret" \in lines, Finding("security", "MEDIUM", "high"))
    \cup Found("secret_in_test" \in lines, Finding("security", "LOW", "low"))

\* The checks that failed are among lint and format.
CheckDesignSystem(failed) ==
    Found("lint" \in failed, Finding("design_system", "MEDIUM", "high"))
    \cup Found("format" \in failed, Finding("design_system", "LOW", "high"))

CheckInternationalization(lines) ==
    Found("sentence" \in lines, Finding("internationalization", "LOW", "high"))

CheckPreMortem(lines) ==
    Found("container" \in lines, Finding("pre_mortem", "MEDIUM", "high"))
    \cup Found("io" \in lines, Finding("pre_mortem", "LOW", "high"))

\* actionable_findings: what is left after the filter.
Actionable(lines, full_suite_passed, reproduction_passed, failed) ==
    {f \in CheckBugDetection(full_suite_passed, reproduction_passed)
           \cup CheckSecurity(lines) \cup CheckDesignSystem(failed)
           \cup CheckInternationalization(lines) \cup CheckPreMortem(lines) :
        f.confidence = "high"}

ReviewVerdict(findings) ==
    IF \E f \in findings : f.severity = "HIGH" THEN "BLOCKED"
    ELSE IF \E f \in findings : f.severity = "MEDIUM" THEN "APPROVED_WITH_FINDINGS"
    ELSE "APPROVED"

DecideMergePolicy(verdict, small_scoped) == verdict = "APPROVED" /\ small_scoped

=============================================================================

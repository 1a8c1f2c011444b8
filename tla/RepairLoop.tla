---------------------------- MODULE RepairLoop ----------------------------
(***************************************************************************)
(* The diagnose-edit-test loop, run_general_loop of agent/general_loop.py, *)
(* on the sandboxed copy of one repository.                                *)
(*                                                                         *)
(* What the repository's code says is abstracted to what its test suite    *)
(* does with it, "suite"; an edit may change that to anything.  The tests  *)
(* are deterministic, but every command is cut off after thirty seconds,   *)
(* and a run that is cut off names no test.                                *)
(***************************************************************************)
EXTENDS Naturals, FiniteSets, FiniteSetsExt

CONSTANTS
    NumTests,     \* the suite has the tests 1 .. NumTests, in the order pytest runs them
    MaxAttempts,  \* MAX_ATTEMPTS
    Timeouts      \* whether a run of the suite may be cut off

ASSUME RepairLoopAssumption ==
    /\ NumTests \in Nat \ {0}
    /\ MaxAttempts \in Nat \ {0}
    /\ Timeouts \in BOOLEAN

VARIABLES
    pc,         \* the next command of the loop
    suite,      \* what a full run of the suite gives on the files as they are
    baseline,   \* baseline_failures
    last,       \* last_result
    target,     \* target_node_id: a test, or the whole suite
    attempt,    \* the attempt under way
    bound,      \* whether resolved_bound is set
    edited,     \* code_changes: the attempts that edited a file
    tried,      \* tried_hypotheses: what was logged of each attempt
    guard,      \* the regression test: none, or the result of its run
    quality,    \* the checks of quality_checks that passed, once they were run
    tree,       \* the working tree against HEAD, and whether HEAD is the fix
    done        \* the "done" of the result

loopVars == <<pc, suite, baseline, last, target, attempt, bound, edited, tried,
              guard, quality, tree, done>>

Tests      == 1 .. NumTests
WholeSuite == 0              \* "tests/"
NewTest    == NumTests + 1   \* the regression test the loop writes
Attempts   == 1 .. MaxAttempts

\* run_tests: "passed" is pytest's exit code, "failing" its FAILED lines.  A
\* suite that cannot be collected fails without any.
Result(p, f) == [passed |-> p, failing |-> f]
Green        == Result(TRUE, {})
Unlisted     == Result(FALSE, {})
ResultsOf(S) == {Green} \cup {Result(FALSE, f) : f \in SUBSET S}

\* What a run of the suite may return.
Runs     == {suite} \cup (IF Timeouts THEN {Unlisted} ELSE {})
First(r) == Min(r.failing)

Checks == {"lint", "format"}
Hypotheses == {"none", "no_strategy_matched", "edit_failed", "resolved",
               "resolved_via_self_correction", "still_failing"}

LoopInit ==
    /\ pc = "baseline"
    /\ suite \in ResultsOf(Tests)
    /\ baseline = {}
    /\ last = Unlisted
    /\ target = WholeSuite
    /\ attempt = 1
    /\ bound = FALSE
    /\ edited = {}
    /\ tried = [n \in Attempts |-> "none"]
    /\ guard = "none"
    /\ quality = {}
    /\ tree = "clean"
    /\ done = FALSE

\* The same, as a step: the next call of the function.
LoopStart ==
    /\ pc' = "baseline"
    /\ suite' \in ResultsOf(Tests)
    /\ baseline' = {}
    /\ last' = Unlisted
    /\ target' = WholeSuite
    /\ attempt' = 1
    /\ bound' = FALSE
    /\ edited' = {}
    /\ tried' = [n \in Attempts |-> "none"]
    /\ guard' = "none"
    /\ quality' = {}
    /\ tree' = "clean"
    /\ done' = FALSE

--------------------------------------------------------------------------

\* A green baseline ends the investigation, done, with nothing touched.
BaselinePasses ==
    /\ pc = "baseline"
    /\ Green \in Runs
    /\ pc' = "returned"
    /\ done' = TRUE
    /\ UNCHANGED <<suite, baseline, last, target, attempt, bound, edited, tried,
                   guard, quality, tree>>

\* Otherwise the fix gets a branch and the first failing test is its target;
\* when the red run names none, taking the first one raises.
BaselineFails ==
    \E r \in Runs :
        /\ pc = "baseline"
        /\ ~r.passed
        /\ baseline' = r.failing
        /\ last' = r
        /\ IF r.failing = {} THEN pc' = "raised" /\ UNCHANGED target
           ELSE pc' = "attempt" /\ target' = First(r)
        /\ UNCHANGED <<suite, attempt, bound, edited, tried, guard, quality, tree, done>>

\* The failing test cannot be parsed or uses nothing that it imports.
NothingImplicated ==
    /\ pc = "attempt"
    /\ pc' = "quality"
    /\ UNCHANGED <<suite, baseline, last, target, attempt, bound, edited, tried,
                   guard, quality, tree, done>>

\* What it imports is not a file of the repository: reading it raises.
ImportNotInRepository ==
    /\ pc = "attempt"
    /\ pc' = "raised"
    /\ UNCHANGED <<suite, baseline, last, target, attempt, bound, edited, tried,
                   guard, quality, tree, done>>

NoStrategyMatches ==
    /\ pc = "attempt"
    /\ pc' = "quality"
    /\ tried' = [tried EXCEPT ![attempt] = "no_strategy_matched"]
    /\ UNCHANGED <<suite, baseline, last, target, attempt, bound, edited, guard,
                   quality, tree, done>>

\* A strategy proposes an edit, numeric_bound perhaps with a documented bound,
\* which is remembered whether or not the text to replace is found once.
EditFails ==
    /\ pc = "attempt"
    /\ pc' = "quality"
    /\ bound' \in {bound, TRUE}
    /\ tried' = [tried EXCEPT ![attempt] = "edit_failed"]
    /\ UNCHANGED <<suite, baseline, last, target, attempt, edited, guard, quality,
                   tree, done>>

Edit ==
    /\ pc = "attempt"
    /\ pc' = "retest"
    /\ bound' \in {bound, TRUE}
    /\ edited' = edited \cup {attempt}
    /\ suite' \in ResultsOf(Tests)
    /\ tree' = "modified"
    /\ UNCHANGED <<baseline, last, target, attempt, tried, guard, quality, done>>

\* The next attempt, or the end of the loop after the last one.
NextAttemptPastLast ==
    IF attempt <= MaxAttempts THEN pc' = "attempt" /\ attempt' = attempt + 1
                              ELSE pc' = "quality" /\ UNCHANGED attempt

NextAttemptUncounted == pc' = "attempt" /\ UNCHANGED attempt

NextAttempt ==
    IF attempt < MaxAttempts THEN pc' = "attempt" /\ attempt' = attempt + 1
                             ELSE pc' = "quality" /\ UNCHANGED attempt

RetestPasses ==
    /\ pc = "retest"
    /\ Green \in Runs
    /\ pc' = "quality"
    /\ last' = Green
    /\ tried' = [tried EXCEPT ![attempt] = "resolved"]
    /\ UNCHANGED <<suite, baseline, target, attempt, bound, edited, guard, quality,
                   tree, done>>

\* The target is gone from the failing tests because there are none: taking
\* the first one raises.
RetestNamesNone ==
    /\ pc = "retest"
    /\ Unlisted \in Runs
    /\ pc' = "raised"
    /\ UNCHANGED <<suite, baseline, last, target, attempt, bound, edited, tried,
                   guard, quality, tree, done>>

\* The target still fails.
TargetStillFails ==
    \E r \in Runs :
        /\ pc = "retest"
        /\ target \in r.failing
        /\ NextAttempt
        /\ last' = r
        /\ tried' = [tried EXCEPT ![attempt] = "still_failing"]
        /\ UNCHANGED <<suite, baseline, target, bound, edited, guard, quality, tree, done>>

\* Another test fails instead, and no revision can be made of it: it is the
\* next target.  A revision whose edit failed leaves its bound behind.
Redirected ==
    \E r \in Runs :
        /\ pc = "retest"
        /\ r.failing # {} /\ target \notin r.failing
        /\ NextAttempt
        /\ target' = First(r)
        /\ bound' \in {bound, TRUE}
        /\ last' = r
        /\ tried' = [tried EXCEPT ![attempt] = "still_failing"]
        /\ UNCHANGED <<suite, baseline, edited, guard, quality, tree, done>>

\* What the new failure imports is not a file of the repository.
RevisionRaises ==
    \E r \in Runs :
        /\ pc = "retest"
        /\ r.failing # {} /\ target \notin r.failing
        /\ pc' = "raised"
        /\ UNCHANGED <<suite, baseline, last, target, attempt, bound, edited, tried,
                       guard, quality, tree, done>>

\* The self-correction: numeric_bound, on the new failure, within the attempt.
Revise ==
    \E r \in Runs :
        /\ pc = "retest"
        /\ r.failing # {} /\ target \notin r.failing
        /\ pc' = "retest_revision"
        /\ bound' \in {bound, TRUE}
        /\ edited' = edited \cup {attempt}
        /\ suite' \in ResultsOf(Tests)
        /\ UNCHANGED <<baseline, last, target, attempt, tried, guard, quality, tree, done>>

\* Its outcome is logged as "resolved" whatever the run gave; the target moves
\* to the first test that fails, if any is named.
RetestRevisionUnlogged ==
    \E r \in Runs :
        /\ pc = "retest_revision"
        /\ last' = r
        /\ IF r.passed THEN pc' = "quality" /\ UNCHANGED attempt ELSE NextAttempt
        /\ target' = IF r.failing # {} THEN First(r) ELSE target
        /\ UNCHANGED <<suite, baseline, bound, edited, tried, guard, quality, tree, done>>

RetestRevision ==
    \E r \in Runs :
        /\ pc = "retest_revision"
        /\ last' = r
        /\ tried' = [tried EXCEPT ![attempt] = "resolved_via_self_correction"]
        /\ IF r.passed THEN pc' = "quality" /\ UNCHANGED attempt ELSE NextAttempt
        /\ target' = IF r.failing # {} THEN First(r) ELSE target
        /\ UNCHANGED <<suite, baseline, bound, edited, guard, quality, tree, done>>

\* Once the loop converged on a bound, a new test of that bound is written and
\* run.  Its result is logged; nothing depends on it.
WriteRegressionTest ==
    /\ pc = "quality"
    /\ guard = "none"
    /\ last.passed /\ bound
    /\ guard' \in {"pass", "fail"}
    /\ suite' = IF guard' = "pass" THEN suite ELSE Result(FALSE, suite.failing \cup {NewTest})
    /\ UNCHANGED <<pc, baseline, last, target, attempt, bound, edited, tried, quality,
                   tree, done>>

\* ruff, black in place, black --check, in a loop that converged or not.  The
\* second one may change files that no attempt edited.
CheckQuality ==
    /\ pc = "quality"
    /\ guard = "none" => ~(last.passed /\ bound)
    /\ pc' = "commit"
    /\ quality' \in SUBSET Checks
    /\ tree' \in {tree, "modified"}
    /\ UNCHANGED <<suite, baseline, last, target, attempt, bound, edited, tried,
                   guard, done>>

\* A converged fix that is clean is committed.  Nobody looks at the result: a
\* commit that fails leaves everything staged.
CommitUnchecked ==
    /\ pc = "commit"
    /\ pc' = "returned"
    /\ done' = last.passed
    /\ tree' \in IF quality = Checks THEN {"committed", "staged"} ELSE {tree}
    /\ UNCHANGED <<suite, baseline, last, target, attempt, bound, edited, tried,
                   guard, quality>>

CommitByTarget ==
    /\ pc = "commit"
    /\ pc' = "returned"
    /\ done' = (target \notin last.failing)
    /\ tree' \in IF last.passed /\ quality = Checks THEN {"committed", "staged"} ELSE {tree}
    /\ UNCHANGED <<suite, baseline, last, target, attempt, bound, edited, tried,
                   guard, quality>>

Commit ==
    /\ pc = "commit"
    /\ pc' = "returned"
    /\ done' = last.passed
    /\ tree' \in IF last.passed /\ quality = Checks THEN {"committed", "staged"} ELSE {tree}
    /\ UNCHANGED <<suite, baseline, last, target, attempt, bound, edited, tried,
                   guard, quality>>

LoopNext ==
    \/ BaselinePasses \/ BaselineFails
    \/ NothingImplicated \/ ImportNotInRepository \/ NoStrategyMatches
    \/ EditFails \/ Edit
    \/ RetestPasses \/ RetestNamesNone \/ TargetStillFails
    \/ Redirected \/ RevisionRaises \/ Revise \/ RetestRevision
    \/ WriteRegressionTest \/ CheckQuality \/ Commit

--------------------------------------------------------------------------
(* Properties.                                                             *)

LoopTypeOK ==
    /\ pc \in {"baseline", "attempt", "retest", "retest_revision", "quality",
               "commit", "returned", "raised"}
    /\ suite \in ResultsOf(Tests \cup {NewTest})
    /\ baseline \subseteq Tests
    /\ last \in ResultsOf(Tests)
    /\ target \in Tests \cup {WholeSuite}
    /\ attempt \in Attempts
    /\ bound \in BOOLEAN
    /\ edited \subseteq Attempts
    /\ tried \in [Attempts -> Hypotheses]
    /\ guard \in {"none", "pass", "fail"}
    /\ quality \subseteq Checks
    /\ tree \in {"clean", "modified", "committed", "staged"}
    /\ done \in BOOLEAN

\* "done" is said only of files on which every test that was there at the start
\* passes: no edit, revision or skipped update comes between the run that
\* passed and the return.
DoneIsGreen == done => suite.failing \subseteq {NewTest} /\ suite # Unlisted

\* What is committed is a fix: an edit was made, the run after the last edit
\* passed, and both quality checks did.
CommitsAreFixes ==
    tree \in {"committed", "staged"} =>
        edited # {} /\ last.passed /\ quality = Checks /\ suite.failing \subseteq {NewTest}

\* "with every hypothesis tried logged" (general_loop.py): when the loop
\* returns, each attempt that edited a file is among the hypotheses.
EveryEditLogged ==
    pc = "returned" => \A n \in edited : tried[n] # "none"

=============================================================================

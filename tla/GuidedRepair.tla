---------------------------- MODULE GuidedRepair ----------------------------
(***************************************************************************)
(* The repair loop with the edits that its strategies make: what RepairLoop*)
(* leaves open, the suite after an edit, follows here from the code and    *)
(* the tests.  Every run of the suite ends in time and can be collected.   *)
(***************************************************************************)
EXTENDS RepairLoop, FixStrategies

CONSTANTS
    Suites,       \* the suites of tests that a repository may have
    Repositories  \* the code that it may start with

VARIABLES
    tests,        \* the tests of the repository
    code,         \* its modules
    resolved      \* resolved_bound, with the module it was resolved for

guidedVars == <<loopVars, tests, code, resolved>>

FailingTests(c) == {n \in Tests : ~Passes(tests[n], c)}

SuiteOf(c) == Result(FailingTests(c) = {}, FailingTests(c))

GuidedInit ==
    /\ tests \in Suites
    /\ code \in Repositories
    /\ resolved = NoBound
    /\ LoopInit
    /\ suite = SuiteOf(code)

\* A proposal's bound is remembered whether or not its edit is made.
Remember(p) ==
    /\ resolved' = IF p.bound = NoBound THEN resolved ELSE p.bound
    /\ bound' = (resolved' # NoBound)

Apply(p) ==
    /\ code[p.module].once
    /\ Remember(p)
    /\ code' = [code EXCEPT ![p.module] = p.new]
    /\ suite' = SuiteOf(code')
    /\ UNCHANGED tests

GuidedNothingImplicated ==
    NothingImplicated /\ tests[target].uses = {} /\ UNCHANGED <<tests, code, resolved>>

GuidedNoStrategyMatches ==
    /\ NoStrategyMatches
    /\ tests[target].uses # {} /\ Proposals(tests[target], code) = {}
    /\ UNCHANGED <<tests, code, resolved>>

GuidedEditFails ==
    \E p \in IF pc = "attempt" THEN Proposals(tests[target], code) ELSE {} :
        /\ ~code[p.module].once
        /\ Remember(p)
        /\ EditFails
        /\ UNCHANGED <<tests, code>>

GuidedEdit ==
    \E p \in IF pc = "attempt" THEN Proposals(tests[target], code) ELSE {} : Apply(p) /\ Edit

\* What the new failure's numeric strategy may propose after a retest.
NewProposals ==
    IF pc = "retest" /\ suite.failing # {} THEN Revisions(tests[First(suite)], code) ELSE {}

\* No revision, or one whose edit fails.
GuidedRedirected ==
    /\ \/ NewProposals = {} /\ UNCHANGED <<resolved, bound>>
       \/ \E p \in NewProposals : ~code[p.module].once /\ Remember(p)
    /\ Redirected
    /\ UNCHANGED <<tests, code>>

GuidedRevise == \E p \in NewProposals : Apply(p) /\ Revise

\* The regression test asserts the remembered bound.
InBoundStrictly(b) == b.lo < code[b.module].value /\ code[b.module].value < b.hi

InBound(b) == b.lo <= code[b.module].value /\ code[b.module].value <= b.hi

GuidedRegressionTest ==
    /\ resolved # NoBound
    /\ guard' = IF InBound(resolved) THEN "pass" ELSE "fail"
    /\ WriteRegressionTest
    /\ UNCHANGED <<tests, code, resolved>>

GuidedNext ==
    \/ /\ BaselinePasses \/ BaselineFails \/ RetestPasses \/ TargetStillFails
          \/ RetestRevision \/ CheckQuality \/ Commit
       /\ UNCHANGED <<tests, code, resolved>>
    \/ GuidedNothingImplicated \/ GuidedNoStrategyMatches
    \/ GuidedEditFails \/ GuidedEdit \/ GuidedRedirected \/ GuidedRevise
    \/ GuidedRegressionTest

GuidedSpec == GuidedInit /\ [][GuidedNext]_guidedVars /\ WF_guidedVars(GuidedNext)

--------------------------------------------------------------------------
(* Properties.                                                             *)

GuidedTypeOK ==
    /\ LoopTypeOK
    /\ code \in [Modules -> Codes]
    /\ resolved.module \in Modules \cup {"none"}

\* A test that says bounds when it fails asserts them, and uses no other number.
SayOwnBounds ==
    \A n \in Tests : tests[n].says =>
        /\ tests[n].kind = "range"
        /\ \A s \in tests[n].uses : s[2] = "constant" => s = Tested(tests[n])

\* The regression test that a fix leaves behind passes: the bound remembered
\* from some message is kept by every later edit of a loop that converges.
RegressionTestPasses == guard # "fail"

\* What there is to repair: the tests that fail, and every adjustment.
Adjustments(c) == UNION {{m} \X (1 .. c[m].adjustments) : m \in Modules}

Work(c) == Cardinality(FailingTests(c)) + Cardinality(Adjustments(c))

\* The tests of a module are about one range: those that say it agree and do not
\* mean a single value, and the others accept all of it, and together they
\* accept the number, or a first guess.
OneRange(c, m) ==
    LET ranges == {n \in Tests : tests[n].kind = "range" /\ tests[n].module = m}
        said   == {n \in ranges : tests[n].says}
        in(v, n) == tests[n].lo <= v /\ v <= tests[n].hi
    IN  /\ \A n \in said : tests[n].lo < tests[n].hi
        /\ \A n \in said, k \in ranges : in(tests[n].lo, k) /\ in(tests[n].hi, k)
        /\ \E v \in {c[m].value, Guess(c[m].value)} : \A n \in ranges \ said : in(v, n)

\* Code that the strategies can repair: each test uses just what it asserts, no
\* adjustment is wanted, and the text to replace occurs once.  ShapeMismatch
\* cannot repair a function that is guarded: one with the wrong keys is not, and
\* a test of repeated calls comes after the test of the keys.
Repairable(c) ==
    /\ \A m \in Modules : c[m].once /\ OneRange(c, m)
    /\ \A n \in Tests : tests[n].uses = {Tested(tests[n])} /\ tests[n].need = 0
    /\ \A n \in FailingTests(c) : tests[n].kind = "shape" => ~c[tests[n].module].guarded
    /\ \A n, k \in Tests :
          tests[n].module = tests[k].module /\ tests[n].kind = "shape" /\ tests[k].kind = "repeat"
          => n < k

\* A repository that the loop is made for: repairable, and not more to repair
\* than attempts.
Straightforward == Repairable(code) /\ Work(code) <= MaxAttempts

\* "Tries four general repair strategies, each triggered only by a structural
\* pattern" (README.md): whatever is wrong with such a repository, numbers,
\* adjustments, shapes and guards in any number of its modules, and in whatever
\* order it tries the files, the loop is done within its attempts.
StraightforwardIsFixed == Straightforward => <>done

=============================================================================

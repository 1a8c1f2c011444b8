------------------------ MODULE GuidedRepair_proofs ------------------------
(***************************************************************************)
(* The loop with its strategies takes steps of the loop only, and leaves a *)
(* regression test behind that passes; for any tests and any code.         *)
(***************************************************************************)
EXTENDS GuidedRepair, RepairLoop_proofs, Sequences

\* The value that is picked inside a documented bound lies inside, however
\* narrow it is, unless the two ends are equal (_strategy_numeric_bound).
THEOREM PickedInside ==
    ASSUME NEW lo \in Nat, NEW hi \in Nat, lo < hi
    PROVE  lo <= Within(lo, hi) /\ Within(lo, hi) <= hi
<1> DEFINE cuts == {5000, 5 * (hi - lo)}
<1> DEFINE cut == Min(cuts)
<1>1. cuts \subseteq Nat /\ cuts # {} /\ 5 * (hi - lo) \in cuts
  OBVIOUS
<1>2. cut \in cuts /\ \A y \in cuts : cut <= y
  <2> HIDE DEF cuts
  <2> QED
    BY <1>1, MinMember
<1>3. cut \in Nat /\ cut <= 5 * (hi - lo)
  <2> HIDE DEF cut
  <2> QED
    BY <1>1, <1>2
<1>5. Within(lo, hi) = (100 * hi - cut) \div 100
  BY DEF Within
<1> HIDE DEF cut
<1>6. lo <= (100 * hi - cut) \div 100 /\ (100 * hi - cut) \div 100 <= hi
  BY <1>3
<1> QED
  BY <1>5, <1>6

----------------------------------------------------------------------------
(* Each step is one of the loop.                                           *)

LEMMA GuidedStepIsLoopStep == [GuidedNext]_guidedVars => [LoopNext]_loopVars
<1>1. GuidedNext => LoopNext
  BY DEF GuidedNext, GuidedNothingImplicated, GuidedNoStrategyMatches, GuidedEditFails,
         GuidedEdit, GuidedRedirected, GuidedRevise, GuidedRegressionTest, LoopNext
<1> QED
  BY <1>1 DEF guidedVars

\* Whatever the strategies propose, run_general_loop does what RepairLoop says,
\* and what is proved of the loop holds of it: the invariant LoopInv.
THEOREM GuidedImplementsLoop == GuidedSpec => LoopInit /\ [][LoopNext]_loopVars
<1>1. GuidedInit => LoopInit
  BY DEF GuidedInit
<1> QED
  BY <1>1, GuidedStepIsLoopStep, PTL DEF GuidedSpec

\* The length of run_general_loop (general_loop.py 267-551): whatever tests and
\* strategies make of the attempts, no more than 3 * MaxAttempts + 4 commands
\* are ahead of it, and each step is one less.
THEOREM GuidedStepsAreCounted ==
    GuidedSpec => /\ [](LoopRank \in 0 .. 3 * MaxAttempts + 4)
                  /\ [][LoopRank' < LoopRank]_guidedVars
<1>1. GuidedInit => LoopInv
  BY LoopInitInv DEF GuidedInit
<1>2. LoopInv /\ [GuidedNext]_guidedVars => LoopInv'
  BY GuidedStepIsLoopStep, LoopNextInv
<1>3. LoopInv => LoopRank \in 0 .. 3 * MaxAttempts + 4
  BY LoopRankType
<1>4. GuidedNext => LoopNext
  BY DEF GuidedNext, GuidedNothingImplicated, GuidedNoStrategyMatches, GuidedEditFails,
         GuidedEdit, GuidedRedirected, GuidedRevise, GuidedRegressionTest, LoopNext
<1>5. LoopInv /\ [GuidedNext]_guidedVars => [LoopRank' < LoopRank]_guidedVars
  BY <1>4, LoopRankFalls
<1> QED
  BY <1>1, <1>2, <1>3, <1>5, PTL DEF GuidedSpec

LEMMA TestsStay == [GuidedNext]_guidedVars => tests' = tests
BY DEF GuidedNext, GuidedNothingImplicated, GuidedNoStrategyMatches, GuidedEditFails,
       GuidedEdit, GuidedRedirected, GuidedRevise, GuidedRegressionTest, Apply, guidedVars

----------------------------------------------------------------------------
(* The inductive invariant behind RegressionTestPasses.                    *)

BoundOf(test) == [module |-> test.module, lo |-> test.lo, hi |-> test.hi]

\* An attempt has a test as its target.
TargetIsTest == pc \in {"attempt", "retest", "retest_revision"} => target \in Tests

\* Until the regression test is written the suite is that of the files.
FilesGiveSuite == guard = "none" => suite = SuiteOf(code)

\* A bound that is remembered is one that a test of the suite asserts.
BoundIsAsserted ==
    /\ bound = (resolved # NoBound)
    /\ resolved = NoBound \/ \E n \in Tests : tests[n].says /\ resolved = BoundOf(tests[n])

GuidedInv ==
    /\ LoopInv
    /\ SayOwnBounds
    /\ TargetIsTest
    /\ FilesGiveSuite
    /\ BoundIsAsserted
    /\ RegressionTestPasses

LEMMA NumericBounds ==
    ASSUME NEW test, NEW c, NEW m, NEW p \in NumericBound(test, c, m),
           test.says => \A k : <<k, "constant">> \in test.uses => k = test.module
    PROVE  p.bound = NoBound \/ (test.says /\ p.bound = BoundOf(test))
<1>1. PICK s \in test.uses \cap {<<m, "constant">>} :
        p = IF test.says THEN Proposal(m, [c[m] EXCEPT !.value = Within(test.lo, test.hi)],
                                       [module |-> m, lo |-> test.lo, hi |-> test.hi])
                         ELSE Proposal(m, [c[m] EXCEPT !.value = Guess(@)], NoBound)
  BY DEF NumericBound
<1>2. CASE test.says
  <2>1. m = test.module
    BY <1>1, <1>2
  <2>2. p.bound = [module |-> m, lo |-> test.lo, hi |-> test.hi]
    BY <1>1, <1>2 DEF Proposal
  <2> QED
    BY <1>2, <2>1, <2>2 DEF BoundOf
<1>3. CASE ~test.says
  BY <1>1, <1>3 DEF Proposal
<1> QED
  BY <1>2, <1>3

LEMMA EditsHaveNoBound ==
    ASSUME NEW test, NEW c, NEW m, NEW applies, NEW new, NEW p \in EditOf(test, c, m, applies, new)
    PROVE  p.bound = NoBound
BY DEF EditOf, Proposal

LEMMA ProposedBounds ==
    ASSUME NEW test, NEW c, NEW p \in Proposals(test, c) \cup Revisions(test, c),
           test.says => \A k : <<k, "constant">> \in test.uses => k = test.module
    PROVE  p.bound = NoBound \/ (test.says /\ p.bound = BoundOf(test))
<1>1. CASE p \in Revisions(test, c)
  <2>1. PICK m : p \in NumericBound(test, c, m)
    BY <1>1 DEF Revisions
  <2> QED
    BY <2>1, NumericBounds
<1>2. CASE p \in Proposals(test, c)
  <2>1. PICK m : p \in ProposalsFor(test, c, m)
    BY <1>2 DEF Proposals
  <2>2. CASE p \in NumericBound(test, c, m)
    BY <2>2, NumericBounds
  <2>3. CASE p \in OffByOne(test, c, m) \cup ShapeMismatch(test, c, m) \cup IdempotencyGuard(test, c, m)
    BY <2>3, EditsHaveNoBound DEF OffByOne, ShapeMismatch, IdempotencyGuard
  <2> QED
    BY <2>1, <2>2, <2>3 DEF ProposalsFor, Otherwise
<1> QED
  BY <1>1, <1>2

LEMMA GuidedInitInv == SayOwnBounds /\ GuidedInit => GuidedInv
<1> SUFFICES ASSUME SayOwnBounds, GuidedInit PROVE GuidedInv
  OBVIOUS
<1>1. LoopInv
  BY LoopInitInv DEF GuidedInit
<1>2. pc = "baseline" /\ guard = "none" /\ bound = FALSE
  BY DEF GuidedInit, LoopInit
<1>3. TargetIsTest /\ FilesGiveSuite /\ BoundIsAsserted /\ RegressionTestPasses
  BY <1>2 DEF GuidedInit, TargetIsTest, FilesGiveSuite, BoundIsAsserted, RegressionTestPasses
<1> QED
  BY <1>1, <1>3 DEF GuidedInv

LEMMA TargetsStayTests == LoopInv /\ TargetIsTest /\ [LoopNext]_loopVars => TargetIsTest'
<1> SUFFICES ASSUME LoopInv, TargetIsTest, [LoopNext]_loopVars PROVE TargetIsTest'
  OBVIOUS
<1>1. CASE BaselineFails
  <2>1. PICK r \in Runs : /\ pc = "baseline"
                          /\ IF r.failing = {} THEN pc' = "raised" /\ UNCHANGED target
                             ELSE pc' = "attempt" /\ target' = First(r)
    BY <1>1 DEF BaselineFails
  <2>2. r \in ResultsOf(Tests)
    BY <2>1, RunFacts
  <2> QED
    BY <2>1, <2>2, FirstIsTest DEF TargetIsTest
<1>2. CASE Redirected
  <2>1. PICK r \in Runs : /\ pc = "retest"
                          /\ r.failing # {} /\ target' = First(r)
    BY <1>2 DEF Redirected
  <2>2. r \in ResultsOf(Tests)
    BY <2>1, RunFacts
  <2> QED
    BY <2>1, <2>2, FirstIsTest DEF TargetIsTest
<1>3. CASE RetestRevision
  <2>1. PICK r \in Runs : /\ pc = "retest_revision"
                          /\ target' = IF r.failing # {} THEN First(r) ELSE target
    BY <1>3 DEF RetestRevision
  <2>2. r \in ResultsOf(Tests)
    BY <2>1, RunFacts
  <2> QED
    BY <2>1, <2>2, FirstIsTest DEF TargetIsTest
<1>4. CASE Edit \/ Revise \/ TargetStillFails
  BY <1>4 DEF Edit, Revise, TargetStillFails, TargetIsTest
<1>5. CASE BaselinePasses \/ NothingImplicated \/ ImportNotInRepository \/ NoStrategyMatches
           \/ EditFails \/ RetestPasses \/ RetestNamesNone \/ RevisionRaises
  BY <1>5 DEF BaselinePasses, NothingImplicated, ImportNotInRepository, NoStrategyMatches,
              EditFails, RetestPasses, RetestNamesNone, RevisionRaises, TargetIsTest
<1>6. CASE WriteRegressionTest \/ CheckQuality \/ Commit \/ UNCHANGED loopVars
  BY <1>6 DEF WriteRegressionTest, CheckQuality, Commit, loopVars, TargetIsTest
<1> QED
  BY <1>1, <1>2, <1>3, <1>4, <1>5, <1>6 DEF LoopNext

\* A proposal for a test of the suite leaves an asserted bound behind.
LEMMA RememberedBounds ==
    ASSUME GuidedInv, NEW n \in Tests,
           NEW p \in Proposals(tests[n], code) \cup Revisions(tests[n], code),
           Remember(p), tests' = tests
    PROVE  BoundIsAsserted'
<1>1. tests[n].says => \A k : <<k, "constant">> \in tests[n].uses => k = tests[n].module
  <2> SUFFICES ASSUME tests[n].says, NEW k, <<k, "constant">> \in tests[n].uses
               PROVE  k = tests[n].module
    OBVIOUS
  <2>1. tests[n].kind = "range" /\ <<k, "constant">> = Tested(tests[n])
    BY DEF GuidedInv, SayOwnBounds
  <2> QED
    BY <2>1 DEF Tested
<1>2. p.bound = NoBound \/ (tests[n].says /\ p.bound = BoundOf(tests[n]))
  BY <1>1, ProposedBounds
<1>3. resolved' = IF p.bound = NoBound THEN resolved ELSE p.bound
  BY DEF Remember
<1>4. resolved' = NoBound \/ \E k \in Tests : tests[k].says /\ resolved' = BoundOf(tests[k])
  BY <1>2, <1>3 DEF GuidedInv, BoundIsAsserted
<1> QED
  BY <1>4 DEF Remember, BoundIsAsserted

\* The loop converged, so the suite passes: the remembered bound among its tests.
LEMMA AssertedBoundHolds ==
    ASSUME GuidedInv, GuidedRegressionTest
    PROVE  InBound(resolved)
<1>1. pc = "quality" /\ guard = "none" /\ last.passed /\ resolved # NoBound
  BY DEF GuidedRegressionTest, WriteRegressionTest
<1>2. suite.failing \subseteq {NewTest} /\ suite = SuiteOf(code)
  BY <1>1 DEF GuidedInv, LoopInv, GreenIsCurrent, FilesGiveSuite
<1>3. suite.failing = {n \in Tests : ~Passes(tests[n], code)}
  BY <1>2 DEF SuiteOf, FailingTests, Result
<1>4. NewTest \notin Tests
  BY RepairLoopAssumption DEF NewTest, Tests
<1>5. \A n \in Tests : Passes(tests[n], code)
  BY <1>2, <1>3, <1>4
<1>6. PICK n \in Tests : tests[n].says /\ resolved = BoundOf(tests[n])
  BY <1>1 DEF GuidedInv, BoundIsAsserted
<1>7. tests[n].kind = "range"
  BY <1>6 DEF GuidedInv, SayOwnBounds
<1> QED
  BY <1>5, <1>6, <1>7 DEF Passes, BoundOf, InBound

LEMMA GuidedNextInv == GuidedInv /\ [GuidedNext]_guidedVars => GuidedInv'
<1> SUFFICES ASSUME GuidedInv, [GuidedNext]_guidedVars PROVE GuidedInv'
  OBVIOUS
<1>1. LoopInv' /\ TargetIsTest' /\ tests' = tests
  BY GuidedStepIsLoopStep, LoopNextInv, TargetsStayTests, TestsStay DEF GuidedInv
<1>2. SayOwnBounds'
  BY <1>1 DEF GuidedInv, SayOwnBounds
<1>3. FilesGiveSuite' /\ BoundIsAsserted' /\ RegressionTestPasses'
  <2>1. CASE GuidedRegressionTest
    <3>1. guard' = "pass" /\ UNCHANGED <<resolved, bound>>
      BY <2>1, AssertedBoundHolds DEF GuidedRegressionTest, WriteRegressionTest
    <3> QED
      BY <3>1, <1>1 DEF GuidedInv, FilesGiveSuite, BoundIsAsserted, RegressionTestPasses
  <2>2. CASE GuidedEdit
    <3>1. PICK p \in Proposals(tests[target], code) : pc = "attempt" /\ Apply(p) /\ Edit
      BY <2>2 DEF GuidedEdit
    <3>2. target \in Tests
      BY <3>1 DEF GuidedInv, TargetIsTest
    <3>3. BoundIsAsserted'
      BY <1>1, <3>1, <3>2, RememberedBounds DEF Apply
    <3>4. suite' = SuiteOf(code)' /\ guard' = guard
      BY <1>1, <3>1 DEF Apply, Edit, SuiteOf, FailingTests
    <3> QED
      BY <3>3, <3>4 DEF GuidedInv, FilesGiveSuite, RegressionTestPasses
  <2>3. CASE GuidedRevise
    <3>1. PICK p \in Revisions(tests[First(suite)], code) :
            pc = "retest" /\ suite.failing # {} /\ Apply(p) /\ Revise
      BY <2>3 DEF GuidedRevise, NewProposals
    <3>2. First(suite) \in Tests
      BY <3>1, FirstIsTest DEF GuidedInv, LoopInv, OldTests
    <3>3. BoundIsAsserted'
      BY <1>1, <3>1, <3>2, RememberedBounds DEF Apply
    <3>4. suite' = SuiteOf(code)' /\ guard' = guard
      BY <1>1, <3>1 DEF Apply, Revise, SuiteOf, FailingTests
    <3> QED
      BY <3>3, <3>4 DEF GuidedInv, FilesGiveSuite, RegressionTestPasses
  <2>4. CASE GuidedEditFails
    <3>1. PICK p \in Proposals(tests[target], code) :
            pc = "attempt" /\ Remember(p) /\ EditFails /\ code' = code
      BY <2>4 DEF GuidedEditFails
    <3>2. target \in Tests
      BY <3>1 DEF GuidedInv, TargetIsTest
    <3>3. BoundIsAsserted'
      BY <1>1, <3>1, <3>2, RememberedBounds
    <3>4. UNCHANGED <<suite, guard>>
      BY <3>1 DEF EditFails
    <3> QED
      BY <1>1, <3>1, <3>3, <3>4 DEF GuidedInv, FilesGiveSuite, RegressionTestPasses, SuiteOf, FailingTests
  <2>5. CASE GuidedRedirected
    <3>1. UNCHANGED <<suite, guard, code>>
      BY <2>5 DEF GuidedRedirected, Redirected
    <3>2. BoundIsAsserted'
      <4>1. CASE UNCHANGED <<resolved, bound>>
        BY <1>1, <4>1 DEF GuidedInv, BoundIsAsserted
      <4>2. CASE ~UNCHANGED <<resolved, bound>>
        <5>1. PICK p \in Revisions(tests[First(suite)], code) :
                pc = "retest" /\ suite.failing # {} /\ Remember(p)
          BY <2>5, <4>2 DEF GuidedRedirected, NewProposals
        <5>2. First(suite) \in Tests
          BY <5>1, FirstIsTest DEF GuidedInv, LoopInv, OldTests
        <5> QED
          BY <1>1, <5>1, <5>2, RememberedBounds
      <4> QED
        BY <4>1, <4>2
    <3> QED
      BY <1>1, <3>1, <3>2 DEF GuidedInv, FilesGiveSuite, RegressionTestPasses, SuiteOf, FailingTests
  <2>6. CASE UNCHANGED <<suite, bound, guard, tests, code, resolved>>
    BY <2>6 DEF GuidedInv, FilesGiveSuite, BoundIsAsserted, RegressionTestPasses, SuiteOf, FailingTests
  <2>7. CASE GuidedNothingImplicated \/ GuidedNoStrategyMatches
    BY <2>6, <2>7 DEF GuidedNothingImplicated, GuidedNoStrategyMatches, NothingImplicated,
                      NoStrategyMatches
  <2>8. ASSUME BaselinePasses \/ BaselineFails \/ RetestPasses \/ TargetStillFails
               \/ RetestRevision \/ CheckQuality \/ Commit,
               UNCHANGED <<tests, code, resolved>>
        PROVE  UNCHANGED <<suite, bound, guard, tests, code, resolved>>
    BY <2>8 DEF BaselinePasses, BaselineFails, RetestPasses, TargetStillFails, RetestRevision,
                CheckQuality, Commit
  <2> QED
    BY <2>1, <2>2, <2>3, <2>4, <2>5, <2>6, <2>7, <2>8 DEF GuidedNext, guidedVars, loopVars
<1> QED
  BY <1>1, <1>2, <1>3 DEF GuidedInv

\* The regression test that the loop writes passes (general_loop.py:514), in
\* any repository whose tests say their own bounds.
THEOREM RegressionTestsPass == SayOwnBounds /\ GuidedSpec => []RegressionTestPasses
<1>1. GuidedInv => RegressionTestPasses
  BY DEF GuidedInv
<1> QED
  BY <1>1, GuidedInitInv, GuidedNextInv, PTL DEF GuidedSpec

----------------------------------------------------------------------------
(* Types. That a picked number is a number of a module is a premise about  *)
(* the bounds that the tests say: PickedInside gives it for two ends of    *)
(* that range.                                                             *)

TypedTests ==
    \A n \in Tests :
        /\ tests[n].files \in Seq(Modules)
        /\ tests[n].says => Within(tests[n].lo, tests[n].hi) \in 0 .. MaxValue

GuidedTypeInv ==
    /\ LoopInv
    /\ TargetIsTest
    /\ TypedTests
    /\ GuidedTypeOK

LEMMA GuessInRange == ASSUME NEW value \in 0 .. MaxValue PROVE Guess(value) \in 0 .. MaxValue
<1> DEFINE guesses == {MaxValue, IF value = 0 THEN 5000 ELSE 25 * value}
<1>1. guesses \subseteq Nat /\ guesses # {} /\ MaxValue \in guesses
  BY FixStrategiesAssumption
<1>2. Min(guesses) \in guesses /\ \A y \in guesses : Min(guesses) <= y
  <2> HIDE DEF guesses
  <2> QED
    BY <1>1, MinMember
<1>3. Guess(value) = Min(guesses)
  BY DEF Guess
<1>4. Min(guesses) \in 0 .. MaxValue
  <2> HIDE DEF guesses
  <2>1. Min(guesses) \in Nat /\ Min(guesses) <= MaxValue
    BY <1>1, <1>2
  <2> QED
    BY <2>1, FixStrategiesAssumption
<1> QED
  BY <1>3, <1>4

\* What a strategy may propose: code for a module, with a bound of a module.
IsProposal(p) == p.module \in Modules /\ p.new \in Codes /\ p.bound.module \in Modules \cup {"none"}

LEMMA ProposalFields ==
    ASSUME NEW m, NEW new, NEW b
    PROVE  /\ Proposal(m, new, b).module = m
           /\ Proposal(m, new, b).new = new
           /\ Proposal(m, new, b).bound = b
BY DEF Proposal

LEMMA NumericProposals ==
    ASSUME NEW test, NEW c \in [Modules -> Codes], NEW m \in Modules,
           test.says => Within(test.lo, test.hi) \in 0 .. MaxValue,
           NEW p \in NumericBound(test, c, m)
    PROVE  IsProposal(p)
<1>1. PICK s \in test.uses \cap {<<m, "constant">>} :
        p = IF test.says THEN Proposal(m, [c[m] EXCEPT !.value = Within(test.lo, test.hi)],
                                       [module |-> m, lo |-> test.lo, hi |-> test.hi])
                         ELSE Proposal(m, [c[m] EXCEPT !.value = Guess(@)], NoBound)
  BY DEF NumericBound
<1>2. c[m] \in Codes
  OBVIOUS
<1>3. \A v \in 0 .. MaxValue : [c[m] EXCEPT !.value = v] \in Codes
  BY <1>2 DEF Codes
<1>4. CASE test.says
  <2>1. p = Proposal(m, [c[m] EXCEPT !.value = Within(test.lo, test.hi)],
                     [module |-> m, lo |-> test.lo, hi |-> test.hi])
    BY <1>1, <1>4
  <2> QED
    BY <1>3, <1>4, <2>1, ProposalFields DEF IsProposal
<1>5. CASE ~test.says
  <2>1. p = Proposal(m, [c[m] EXCEPT !.value = Guess(c[m].value)], NoBound)
    BY <1>1, <1>5
  <2>2. Guess(c[m].value) \in 0 .. MaxValue
    BY <1>2, GuessInRange DEF Codes
  <2> QED
    BY <1>3, <2>1, <2>2, ProposalFields DEF IsProposal, NoBound
<1> QED
  BY <1>4, <1>5

LEMMA EditProposals ==
    ASSUME NEW test, NEW c \in [Modules -> Codes], NEW m \in Modules,
           NEW p \in OffByOne(test, c, m) \cup ShapeMismatch(test, c, m)
                     \cup IdempotencyGuard(test, c, m)
    PROVE  IsProposal(p)
<1>1. c[m] \in Codes
  OBVIOUS
<1>2. ASSUME NEW new \in Codes, p = Proposal(m, new, NoBound) PROVE IsProposal(p)
  BY <1>2, ProposalFields DEF IsProposal, NoBound
<1>3. CASE p \in OffByOne(test, c, m)
  <2>1. c[m].adjustments > 0 /\ p = Proposal(m, [c[m] EXCEPT !.adjustments = @ - 1], NoBound)
    BY <1>3 DEF OffByOne, EditOf
  <2>2. [c[m] EXCEPT !.adjustments = @ - 1] \in Codes
    BY <1>1, <2>1 DEF Codes
  <2> QED
    BY <1>2, <2>1, <2>2
<1>4. CASE p \in ShapeMismatch(test, c, m)
  <2>1. p = Proposal(m, [c[m] EXCEPT !.keys = IF c[m].guarded THEN @ ELSE "contract"], NoBound)
    BY <1>4 DEF ShapeMismatch, EditOf
  <2>2. [c[m] EXCEPT !.keys = IF c[m].guarded THEN @ ELSE "contract"] \in Codes
    BY <1>1 DEF Codes
  <2> QED
    BY <1>2, <2>1, <2>2
<1>5. CASE p \in IdempotencyGuard(test, c, m)
  <2>1. p = Proposal(m, [c[m] EXCEPT !.guarded = TRUE], NoBound)
    BY <1>5 DEF IdempotencyGuard, EditOf
  <2>2. [c[m] EXCEPT !.guarded = TRUE] \in Codes
    BY <1>1 DEF Codes
  <2> QED
    BY <1>2, <2>1, <2>2
<1> QED
  BY <1>3, <1>4, <1>5

LEMMA FirstOfIsMember ==
    ASSUME NEW files \in Seq(Modules), NEW S, NEW m \in FirstOf(files, S)
    PROVE  m \in S
<1> DEFINE found == {n \in DOMAIN files : files[n] \in S}
<1>1. found \subseteq Nat
  OBVIOUS
<1>2. found # {} /\ m = files[Min(found)]
  BY DEF FirstOf
<1>3. Min(found) \in found
  <2> HIDE DEF found
  <2> QED
    BY <1>1, <1>2, MinMember
<1> QED
  BY <1>2, <1>3

LEMMA ProposalsTyped ==
    ASSUME NEW test, NEW c \in [Modules -> Codes], test.files \in Seq(Modules),
           test.says => Within(test.lo, test.hi) \in 0 .. MaxValue,
           NEW p \in Proposals(test, c) \cup Revisions(test, c)
    PROVE  IsProposal(p)
<1>1. CASE p \in Revisions(test, c)
  <2>1. PICK m \in FirstOf(test.files, {k \in Modules : <<k, "constant">> \in test.uses}) :
          p \in NumericBound(test, c, m)
    BY <1>1 DEF Revisions
  <2>2. m \in Modules
    BY <2>1, FirstOfIsMember
  <2> QED
    BY <2>1, <2>2, NumericProposals
<1>2. CASE p \in Proposals(test, c)
  <2>1. PICK m \in FirstOf(test.files, {k \in Modules : ProposalsFor(test, c, k) # {}}) :
          p \in ProposalsFor(test, c, m)
    BY <1>2 DEF Proposals
  <2>2. m \in Modules
    BY <2>1, FirstOfIsMember
  <2>3. p \in NumericBound(test, c, m) \cup OffByOne(test, c, m) \cup ShapeMismatch(test, c, m)
              \cup IdempotencyGuard(test, c, m)
    BY <2>1 DEF ProposalsFor, Otherwise
  <2>4. CASE p \in NumericBound(test, c, m)
    BY <2>2, <2>4, NumericProposals
  <2>5. CASE p \notin NumericBound(test, c, m)
    BY <2>2, <2>3, <2>5, EditProposals
  <2> QED
    BY <2>4, <2>5
<1> QED
  BY <1>1, <1>2

\* What is made or remembered of a proposal for a test of the suite has its type.
LEMMA AppliedTyped ==
    ASSUME GuidedTypeInv, NEW n \in Tests,
           NEW p \in Proposals(tests[n], code) \cup Revisions(tests[n], code)
    PROVE  /\ Remember(p) => resolved'.module \in Modules \cup {"none"}
           /\ Apply(p) => code' \in [Modules -> Codes]
<1>1. code \in [Modules -> Codes] /\ resolved.module \in Modules \cup {"none"}
  BY DEF GuidedTypeInv, GuidedTypeOK
<1>2. IsProposal(p)
  BY <1>1, ProposalsTyped DEF GuidedTypeInv, TypedTests
<1>3. Remember(p) => resolved'.module \in Modules \cup {"none"}
  BY <1>1, <1>2 DEF Remember, IsProposal
<1>4. Apply(p) => code' \in [Modules -> Codes]
  BY <1>1, <1>2 DEF Apply, IsProposal
<1> QED
  BY <1>3, <1>4

LEMMA GuidedTypeInit ==
    Repositories \subseteq [Modules -> Codes] /\ TypedTests /\ GuidedInit => GuidedTypeInv
<1> SUFFICES ASSUME Repositories \subseteq [Modules -> Codes], TypedTests, GuidedInit
             PROVE  GuidedTypeInv
  OBVIOUS
<1>1. LoopInv
  BY LoopInitInv DEF GuidedInit
<1>2. TargetIsTest
  BY DEF GuidedInit, LoopInit, TargetIsTest
<1>3. code \in [Modules -> Codes] /\ resolved.module \in Modules \cup {"none"}
  BY DEF GuidedInit, NoBound
<1> QED
  BY <1>1, <1>2, <1>3 DEF GuidedTypeInv, GuidedTypeOK, LoopInv

LEMMA GuidedTypeNext == GuidedTypeInv /\ [GuidedNext]_guidedVars => GuidedTypeInv'
<1> SUFFICES ASSUME GuidedTypeInv, [GuidedNext]_guidedVars PROVE GuidedTypeInv'
  OBVIOUS
<1>1. LoopInv' /\ TargetIsTest' /\ tests' = tests
  BY GuidedStepIsLoopStep, LoopNextInv, TargetsStayTests, TestsStay DEF GuidedTypeInv
<1>2. TypedTests'
  BY <1>1 DEF GuidedTypeInv, TypedTests
<1>3. code \in [Modules -> Codes] /\ resolved.module \in Modules \cup {"none"}
  BY DEF GuidedTypeInv, GuidedTypeOK
<1>4. code' \in [Modules -> Codes] /\ resolved'.module \in Modules \cup {"none"}
  <2>1. CASE GuidedEdit
    <3>1. PICK p \in Proposals(tests[target], code) : pc = "attempt" /\ Apply(p)
      BY <2>1 DEF GuidedEdit
    <3>2. target \in Tests
      BY <3>1 DEF GuidedTypeInv, TargetIsTest
    <3> QED
      BY <3>1, <3>2, AppliedTyped DEF Apply
  <2>2. CASE GuidedRevise
    <3>1. PICK p \in Revisions(tests[First(suite)], code) :
            pc = "retest" /\ suite.failing # {} /\ Apply(p)
      BY <2>2 DEF GuidedRevise, NewProposals
    <3>2. First(suite) \in Tests
      BY <3>1, FirstIsTest DEF GuidedTypeInv, LoopInv, OldTests
    <3> QED
      BY <3>1, <3>2, AppliedTyped DEF Apply
  <2>3. CASE GuidedEditFails
    <3>1. PICK p \in Proposals(tests[target], code) :
            pc = "attempt" /\ Remember(p) /\ code' = code
      BY <2>3 DEF GuidedEditFails
    <3>2. target \in Tests
      BY <3>1 DEF GuidedTypeInv, TargetIsTest
    <3> QED
      BY <1>3, <3>1, <3>2, AppliedTyped
  <2>4. CASE GuidedRedirected
    <3>1. code' = code
      BY <2>4 DEF GuidedRedirected
    <3>2. CASE resolved' = resolved
      BY <1>3, <3>1, <3>2
    <3>3. CASE resolved' # resolved
      <4>1. PICK p \in Revisions(tests[First(suite)], code) :
              pc = "retest" /\ suite.failing # {} /\ Remember(p)
        BY <2>4, <3>3 DEF GuidedRedirected, NewProposals
      <4>2. First(suite) \in Tests
        BY <4>1, FirstIsTest DEF GuidedTypeInv, LoopInv, OldTests
      <4> QED
        BY <1>3, <3>1, <4>1, <4>2, AppliedTyped
    <3> QED
      BY <3>2, <3>3
  <2>5. CASE UNCHANGED <<code, resolved>>
    BY <1>3, <2>5
  <2>6. CASE GuidedNothingImplicated \/ GuidedNoStrategyMatches \/ GuidedRegressionTest
    BY <2>5, <2>6 DEF GuidedNothingImplicated, GuidedNoStrategyMatches, GuidedRegressionTest
  <2> QED
    BY <2>1, <2>2, <2>3, <2>4, <2>5, <2>6 DEF GuidedNext, guidedVars
<1> QED
  BY <1>1, <1>2, <1>4 DEF GuidedTypeInv, GuidedTypeOK, LoopInv

\* Every edit leaves code of the modelled form (the strategies of
\* general_loop.py:50-245), whatever code and tests of that form it starts from.
THEOREM GuidedTypeCorrect ==
    Repositories \subseteq [Modules -> Codes] /\ TypedTests /\ GuidedSpec => []GuidedTypeOK
<1>1. GuidedTypeInv => GuidedTypeOK
  BY DEF GuidedTypeInv
<1> QED
  BY <1>1, GuidedTypeInit, GuidedTypeNext, PTL DEF GuidedSpec

=============================================================================

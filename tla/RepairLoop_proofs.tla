------------------------- MODULE RepairLoop_proofs -------------------------
(***************************************************************************)
(* What every step of the repair loop keeps, for any number of tests and   *)
(* attempts, whether or not runs of the suite are cut off.                 *)
(***************************************************************************)
EXTENDS RepairLoop, WellFoundedInduction, TLAPS

LEMMA LessThanRelated ==
    ASSUME NEW x \in Nat, NEW y \in Nat, x < y
    PROVE  <<x, y>> \in OpToRel(<, Nat)
BY DEF OpToRel

\* The first of some failing tests is one of them, and none is before it.
LEMMA MinMember ==
    ASSUME NEW S, S \subseteq Nat, S # {}
    PROVE  Min(S) \in S /\ \A y \in S : Min(S) <= y
<1>1. PICK x \in S : \A y \in S : ~(<<y, x>> \in OpToRel(<, Nat))
  BY NatLessThanWellFounded, WFMin
<1>2. \A y \in S : ~(y < x)
  BY <1>1, LessThanRelated
<1>3. \A y \in S : x <= y
  BY <1>2
<1> QED
  BY <1>3 DEF Min

----------------------------------------------------------------------------
(* The inductive invariant.                                                *)

\* Only the regression test, written after the last attempt, adds a test.
OldTests ==
    pc \in {"baseline", "attempt", "retest", "retest_revision"} => suite \in ResultsOf(Tests)

\* Until the attempts end, the last run that was looked at is red.
RedWhileRepairing ==
    pc \in {"baseline", "attempt", "retest", "retest_revision"} => ~last.passed

\* A last run that passed is what the suite does now, the regression test
\* aside, and a fix precedes it.
GreenIsCurrent ==
    pc \in {"quality", "commit", "returned"} /\ last.passed =>
        suite.failing \subseteq {NewTest} /\ suite # Unlisted /\ edited # {}

RetestsFollowEdits == pc \in {"retest", "retest_revision"} => edited # {}

\* "done" and a commit are the last things that happen.
EndsAreFinal ==
    /\ done => pc = "returned" /\ suite.failing \subseteq {NewTest} /\ suite # Unlisted
    /\ tree \in {"committed", "staged"} => pc = "returned" /\ last.passed /\ quality = Checks

\* An attempt that edited is logged by the time it is left.
LoggedEdits ==
    /\ pc \in {"attempt", "quality", "commit", "returned"} => \A n \in edited : tried[n] # "none"
    /\ pc \in {"retest", "retest_revision"} => \A n \in edited \ {attempt} : tried[n] # "none"
    /\ pc = "baseline" => edited = {}

LoopInv ==
    /\ LoopTypeOK
    /\ OldTests
    /\ RedWhileRepairing
    /\ GreenIsCurrent
    /\ RetestsFollowEdits
    /\ EndsAreFinal
    /\ LoggedEdits

\* What a result of a suite with the tests in S looks like.
LEMMA ResultFacts ==
    ASSUME NEW S, NEW r \in ResultsOf(S)
    PROVE  /\ r.passed \in BOOLEAN
           /\ r.failing \subseteq S
           /\ r.passed => r = Green
           /\ ~r.passed => r = Result(FALSE, r.failing)
<1>1. CASE r = Green
  BY <1>1 DEF Green, Result
<1>2. CASE r \in {Result(FALSE, f) : f \in SUBSET S}
  <2>1. PICK f \in SUBSET S : r = Result(FALSE, f)
    BY <1>2
  <2> QED
    BY <2>1 DEF Result
<1> QED
  BY <1>1, <1>2 DEF ResultsOf

LEMMA ResultType ==
    ASSUME NEW S, NEW f \in SUBSET S
    PROVE  /\ Green \in ResultsOf(S) /\ Green.passed /\ Green.failing = {}
           /\ Result(FALSE, f) \in ResultsOf(S)
           /\ ~Result(FALSE, f).passed /\ Result(FALSE, f).failing = f
           /\ Unlisted \in ResultsOf(S) /\ ~Unlisted.passed /\ Unlisted.failing = {}
           /\ Unlisted # Green
BY DEF ResultsOf, Green, Unlisted, Result

\* A run that passed shows what the suite does.
LEMMA RunFacts ==
    ASSUME LoopInv, NEW r \in Runs
    PROVE  /\ r \in ResultsOf(Tests \cup {NewTest})
           /\ pc \in {"baseline", "attempt", "retest", "retest_revision"} =>
                r \in ResultsOf(Tests)
           /\ r.passed => r = suite /\ suite = Green
           /\ r.failing # {} => ~r.passed /\ r = suite
           /\ r.passed \in BOOLEAN
<1>1. suite \in ResultsOf(Tests \cup {NewTest})
  BY DEF LoopInv, LoopTypeOK
<1>2. r = suite \/ r = Unlisted
  BY DEF Runs
<1>3. /\ Unlisted \in ResultsOf(Tests) /\ Unlisted \in ResultsOf(Tests \cup {NewTest})
      /\ ~Unlisted.passed /\ Unlisted.failing = {}
  BY ResultType
<1>4. suite.passed \in BOOLEAN /\ (suite.passed => suite = Green /\ suite.failing = {})
  BY <1>1, ResultFacts, ResultType
<1>5. pc \in {"baseline", "attempt", "retest", "retest_revision"} => suite \in ResultsOf(Tests)
  BY DEF LoopInv, OldTests
<1>6. CASE r = suite
  BY <1>1, <1>4, <1>5, <1>6
<1>7. CASE r = Unlisted
  BY <1>3, <1>7, ResultFacts
<1> QED
  BY <1>2, <1>6, <1>7

\* The first failing test of a run is a test that it names.
LEMMA FirstIsTest ==
    ASSUME NEW r \in ResultsOf(Tests), r.failing # {}
    PROVE  First(r) \in Tests
<1>1. r.failing \subseteq Tests
  BY ResultFacts
<1>2. Tests \subseteq Nat
  BY DEF Tests
<1>3. Min(r.failing) \in r.failing
  BY <1>1, <1>2, MinMember
<1> QED
  BY <1>1, <1>3 DEF First

LEMMA LoopInitInv == LoopInit => LoopInv
<1> SUFFICES ASSUME LoopInit PROVE LoopInv
  OBVIOUS
<1> USE RepairLoopAssumption
<1>1. suite \in ResultsOf(Tests) /\ suite \in ResultsOf(Tests \cup {NewTest})
  BY DEF LoopInit, ResultsOf
<1>2. Unlisted \in ResultsOf(Tests) /\ ~Unlisted.passed
  BY ResultType
<1>3. attempt \in Attempts /\ tried \in [Attempts -> Hypotheses]
  BY DEF LoopInit, Attempts, Hypotheses
<1>4. /\ pc \in {"baseline", "attempt", "retest", "retest_revision", "quality",
                "commit", "returned", "raised"}
      /\ guard \in {"none", "pass", "fail"}
      /\ tree \in {"clean", "modified", "committed", "staged"}
      /\ bound \in BOOLEAN /\ done \in BOOLEAN
  BY DEF LoopInit
<1>5. baseline \subseteq Tests /\ edited \subseteq Attempts /\ quality \subseteq Checks
  BY DEF LoopInit
<1>6. target \in Tests \cup {WholeSuite} /\ last \in ResultsOf(Tests)
  BY <1>2 DEF LoopInit
<1>7. LoopTypeOK
  BY <1>1, <1>3, <1>4, <1>5, <1>6 DEF LoopTypeOK
<1> QED
  BY <1>1, <1>2, <1>7 DEF LoopInit, LoopInv, OldTests, RedWhileRepairing, GreenIsCurrent,
     RetestsFollowEdits, EndsAreFinal, LoggedEdits

----------------------------------------------------------------------------
(* Every step of the loop keeps it.                                        *)

\* The attempts are counted up to the last one.
LEMMA NextAttemptFacts ==
    ASSUME LoopInv, NextAttempt
    PROVE  attempt' \in Attempts /\ pc' \in {"attempt", "quality"}
BY RepairLoopAssumption DEF LoopInv, LoopTypeOK, NextAttempt, Attempts

LEMMA LoopStepsBeforeRepair ==
    ASSUME LoopInv, BaselinePasses \/ BaselineFails
    PROVE  LoopInv'
<1> USE RepairLoopAssumption
<1>1. CASE BaselinePasses
  <2>1. suite = Green
    BY <1>1, RunFacts, ResultType DEF BaselinePasses
  <2>2. Green.failing = {} /\ Green # Unlisted
    BY ResultType
  <2>3. LoopTypeOK'
    BY <1>1 DEF BaselinePasses, LoopInv, LoopTypeOK
  <2>4. ~last.passed
    BY <1>1 DEF BaselinePasses, LoopInv, RedWhileRepairing
  <2> QED
    BY <1>1, <2>1, <2>2, <2>3, <2>4 DEF BaselinePasses, LoopInv, OldTests, RedWhileRepairing,
       GreenIsCurrent, RetestsFollowEdits, EndsAreFinal, LoggedEdits
<1>2. ASSUME NEW r \in Runs, pc = "baseline", ~r.passed,
             baseline' = r.failing, last' = r,
             IF r.failing = {} THEN pc' = "raised" /\ UNCHANGED target
             ELSE pc' = "attempt" /\ target' = First(r),
             UNCHANGED <<suite, attempt, bound, edited, tried, guard, quality, tree, done>>
      PROVE  LoopInv'
  <2>1. r \in ResultsOf(Tests)
    BY <1>2, RunFacts
  <2>2. r.failing \subseteq Tests
    BY <2>1, ResultFacts
  <2>3. target' \in Tests \cup {WholeSuite}
    BY <1>2, <2>1, <2>2, FirstIsTest DEF LoopInv, LoopTypeOK
  <2>4. LoopTypeOK'
    BY <1>2, <2>1, <2>2, <2>3 DEF LoopInv, LoopTypeOK
  <2> QED
    BY <1>2, <2>4 DEF LoopInv, OldTests, RedWhileRepairing,
       GreenIsCurrent, RetestsFollowEdits, EndsAreFinal, LoggedEdits
<1> QED
  BY <1>1, <1>2 DEF BaselineFails

LEMMA LoopStepsOfAnAttempt ==
    ASSUME LoopInv,
           NothingImplicated \/ ImportNotInRepository \/ NoStrategyMatches \/ EditFails \/ Edit
    PROVE  LoopInv'
<1>1. CASE NothingImplicated \/ ImportNotInRepository
  BY <1>1 DEF NothingImplicated, ImportNotInRepository, LoopInv, LoopTypeOK, OldTests,
     RedWhileRepairing, GreenIsCurrent, RetestsFollowEdits, EndsAreFinal, LoggedEdits
<1>2. CASE NoStrategyMatches \/ EditFails
  <2>1. LoopTypeOK'
    BY <1>2 DEF NoStrategyMatches, EditFails, LoopInv, LoopTypeOK, Hypotheses
  <2>2. \A n \in edited : tried'[n] # "none"
    BY <1>2 DEF NoStrategyMatches, EditFails, LoopInv, LoopTypeOK, LoggedEdits
  <2>3. /\ pc = "attempt" /\ pc' = "quality"
        /\ UNCHANGED <<suite, last, edited, quality, tree, done>>
    BY <1>2 DEF NoStrategyMatches, EditFails
  <2> QED
    BY <2>1, <2>2, <2>3 DEF LoopInv, OldTests, RedWhileRepairing,
       GreenIsCurrent, RetestsFollowEdits, EndsAreFinal, LoggedEdits
<1>3. CASE Edit
  <2>1. suite' \in ResultsOf(Tests \cup {NewTest})
    BY <1>3 DEF Edit, ResultsOf
  <2>2. LoopTypeOK'
    BY <1>3, <2>1 DEF Edit, LoopInv, LoopTypeOK
  <2> QED
    BY <1>3, <2>2 DEF Edit, LoopInv, LoopTypeOK, OldTests, RedWhileRepairing,
       GreenIsCurrent, RetestsFollowEdits, EndsAreFinal, LoggedEdits
<1> QED
  BY <1>1, <1>2, <1>3

LEMMA LoopStepsOfARetest ==
    ASSUME LoopInv,
           RetestPasses \/ RetestNamesNone \/ TargetStillFails \/ Redirected
           \/ RevisionRaises \/ Revise
    PROVE  LoopInv'
<1>1. CASE RetestPasses
  <2>1. suite = Green
    BY <1>1, RunFacts, ResultType DEF RetestPasses
  <2>2. Green.passed /\ Green.failing = {} /\ Green # Unlisted /\ Green \in ResultsOf(Tests)
    BY ResultType
  <2>3. LoopTypeOK'
    BY <1>1, <2>2 DEF RetestPasses, LoopInv, LoopTypeOK, Hypotheses
  <2>4. \A n \in edited : tried'[n] # "none"
    BY <1>1 DEF RetestPasses, LoopInv, LoopTypeOK, LoggedEdits
  <2> QED
    BY <1>1, <2>1, <2>2, <2>3, <2>4 DEF RetestPasses, LoopInv, OldTests, RedWhileRepairing,
       GreenIsCurrent, RetestsFollowEdits, EndsAreFinal, LoggedEdits
<1>2. CASE RetestNamesNone \/ RevisionRaises
  BY <1>2 DEF RetestNamesNone, RevisionRaises, LoopInv, LoopTypeOK, OldTests,
     RedWhileRepairing, GreenIsCurrent, RetestsFollowEdits, EndsAreFinal, LoggedEdits
<1>3. ASSUME NEW r \in Runs, r.failing # {}, pc = "retest", NextAttempt,
             target' \in {target, First(r)}, bound' \in BOOLEAN,
             last' = r, tried' = [tried EXCEPT ![attempt] = "still_failing"],
             UNCHANGED <<suite, baseline, edited, guard, quality, tree, done>>
      PROVE  LoopInv'
  <2>1. r \in ResultsOf(Tests) /\ ~r.passed
    BY <1>3, RunFacts
  <2>2. target' \in Tests \cup {WholeSuite}
    BY <1>3, <2>1, FirstIsTest DEF LoopInv, LoopTypeOK
  <2>3. LoopTypeOK'
    BY <1>3, <2>1, <2>2, NextAttemptFacts DEF LoopInv, LoopTypeOK, Hypotheses
  <2>4. \A n \in edited : tried'[n] # "none"
    BY <1>3 DEF LoopInv, LoopTypeOK, LoggedEdits
  <2> QED
    BY <1>3, <2>1, <2>3, <2>4, NextAttemptFacts DEF LoopInv, OldTests, RedWhileRepairing,
       GreenIsCurrent, RetestsFollowEdits, EndsAreFinal, LoggedEdits
<1>4. CASE TargetStillFails
  BY <1>3, <1>4 DEF TargetStillFails, LoopInv, LoopTypeOK
<1>5. CASE Redirected
  BY <1>3, <1>5 DEF Redirected, LoopInv, LoopTypeOK
<1>6. CASE Revise
  <2>1. suite' \in ResultsOf(Tests \cup {NewTest})
    BY <1>6 DEF Revise, ResultsOf
  <2>2. LoopTypeOK'
    BY <1>6, <2>1 DEF Revise, LoopInv, LoopTypeOK
  <2> QED
    BY <1>6, <2>2 DEF Revise, LoopInv, LoopTypeOK, OldTests, RedWhileRepairing,
       GreenIsCurrent, RetestsFollowEdits, EndsAreFinal, LoggedEdits
<1> QED
  BY <1>1, <1>2, <1>4, <1>5, <1>6

LEMMA LoopStepsOfARevision ==
    ASSUME LoopInv, RetestRevision
    PROVE  LoopInv'
<1>1. PICK r \in Runs :
        /\ pc = "retest_revision"
        /\ last' = r
        /\ tried' = [tried EXCEPT ![attempt] = "resolved_via_self_correction"]
        /\ IF r.passed THEN pc' = "quality" /\ UNCHANGED attempt ELSE NextAttempt
        /\ target' = IF r.failing # {} THEN First(r) ELSE target
        /\ UNCHANGED <<suite, baseline, bound, edited, guard, quality, tree, done>>
  BY DEF RetestRevision
<1>2. /\ r \in ResultsOf(Tests) /\ r.passed \in BOOLEAN
      /\ r.passed => suite = Green
  BY <1>1, RunFacts
<1>3. attempt' \in Attempts /\ pc' \in {"attempt", "quality"} /\ (r.passed => pc' = "quality")
  BY <1>1, NextAttemptFacts DEF LoopInv, LoopTypeOK
<1>4. Green.failing = {} /\ Green # Unlisted
  BY ResultType
<1>5. target' \in Tests \cup {WholeSuite}
  BY <1>1, <1>2, FirstIsTest DEF LoopInv, LoopTypeOK
<1>6. LoopTypeOK'
  BY <1>1, <1>2, <1>3, <1>5 DEF LoopInv, LoopTypeOK, Hypotheses
<1>7. \A n \in edited : tried'[n] # "none"
  BY <1>1 DEF LoopInv, LoopTypeOK, LoggedEdits
<1> QED
  BY <1>1, <1>2, <1>3, <1>4, <1>6, <1>7 DEF LoopInv, OldTests, RedWhileRepairing,
     GreenIsCurrent, RetestsFollowEdits, EndsAreFinal, LoggedEdits

LEMMA LoopStepsAfterRepair ==
    ASSUME LoopInv, WriteRegressionTest \/ CheckQuality \/ Commit
    PROVE  LoopInv'
<1>1. CASE WriteRegressionTest
  <2>1. /\ suite.failing \subseteq {NewTest} /\ suite # Unlisted /\ edited # {}
        /\ suite \in ResultsOf(Tests \cup {NewTest})
    BY <1>1 DEF WriteRegressionTest, LoopInv, LoopTypeOK, GreenIsCurrent
  <2>2. /\ suite' \in ResultsOf(Tests \cup {NewTest})
        /\ suite'.failing \subseteq {NewTest} /\ suite' # Unlisted
    <3>1. CASE suite' = suite
      BY <2>1, <3>1
    <3>2. CASE suite' = Result(FALSE, suite.failing \cup {NewTest})
      <4>1. suite.failing \cup {NewTest} \in SUBSET (Tests \cup {NewTest})
        BY <2>1
      <4> QED
        BY <2>1, <3>2, <4>1, ResultType
    <3> QED
      BY <1>1, <3>1, <3>2 DEF WriteRegressionTest
  <2>3. LoopTypeOK'
    BY <1>1, <2>2 DEF WriteRegressionTest, LoopInv, LoopTypeOK
  <2> QED
    BY <1>1, <2>1, <2>2, <2>3 DEF WriteRegressionTest, LoopInv, OldTests, RedWhileRepairing,
       GreenIsCurrent, RetestsFollowEdits, EndsAreFinal, LoggedEdits
<1>2. CASE CheckQuality
  <2>1. LoopTypeOK'
    BY <1>2 DEF CheckQuality, LoopInv, LoopTypeOK
  <2> QED
    BY <1>2, <2>1 DEF CheckQuality, LoopInv, OldTests, RedWhileRepairing,
       GreenIsCurrent, RetestsFollowEdits, EndsAreFinal, LoggedEdits
<1>3. CASE Commit
  <2>1. done' \in BOOLEAN
    BY <1>3, ResultFacts DEF Commit, LoopInv, LoopTypeOK
  <2>2. LoopTypeOK'
    BY <1>3, <2>1 DEF Commit, LoopInv, LoopTypeOK
  <2> QED
    BY <1>3, <2>2 DEF Commit, LoopInv, OldTests, RedWhileRepairing,
       GreenIsCurrent, RetestsFollowEdits, EndsAreFinal, LoggedEdits
<1> QED
  BY <1>1, <1>2, <1>3

LEMMA LoopNextInv == LoopInv /\ [LoopNext]_loopVars => LoopInv'
<1> SUFFICES ASSUME LoopInv, [LoopNext]_loopVars PROVE LoopInv'
  OBVIOUS
<1>1. CASE LoopNext
  BY <1>1, LoopStepsBeforeRepair, LoopStepsOfAnAttempt, LoopStepsOfARetest,
     LoopStepsOfARevision, LoopStepsAfterRepair DEF LoopNext
<1>2. CASE UNCHANGED loopVars
  BY <1>2 DEF loopVars, LoopInv, LoopTypeOK, OldTests, RedWhileRepairing, GreenIsCurrent,
     RetestsFollowEdits, EndsAreFinal, LoggedEdits
<1> QED
  BY <1>1, <1>2

\* The invariant gives the loop's properties.
LEMMA LoopInvImplies ==
    ASSUME LoopInv
    PROVE  LoopTypeOK /\ DoneIsGreen /\ CommitsAreFixes /\ EveryEditLogged
BY DEF LoopInv, DoneIsGreen, CommitsAreFixes, EveryEditLogged, GreenIsCurrent,
       EndsAreFinal, LoggedEdits

----------------------------------------------------------------------------
(* What the working tree says of the edits.                                *)

\* The tree is clean no longer once there was an edit, and in a loop that is
\* done nothing but an edit changed it (the formatter runs in a loop that gave
\* up as well); a loop that is done without one found every test passing.
ChangeInv ==
    /\ edited # {} => tree # "clean"
    /\ done => (tree = "clean" <=> edited = {})
    /\ pc = "baseline" => baseline = {} /\ edited = {} /\ tree = "clean"
    /\ done /\ edited = {} => baseline = {} /\ suite = Green

LEMMA ChangeInitInv == LoopInit => ChangeInv
BY DEF LoopInit, ChangeInv

LEMMA ChangeNextInv ==
    ASSUME LoopInv, ChangeInv, [LoopNext]_loopVars
    PROVE  ChangeInv'
<1>1. CASE BaselinePasses
  <2>1. suite = Green
    BY <1>1, RunFacts, ResultType DEF BaselinePasses
  <2> QED
    BY <1>1, <2>1 DEF BaselinePasses, ChangeInv
<1>2. CASE /\ pc # "baseline" /\ pc' # "baseline" /\ pc # "returned"
           /\ UNCHANGED <<edited, done>> /\ tree' \in {tree, "modified"}
  BY <1>2 DEF LoopInv, EndsAreFinal, ChangeInv
<1>3. CASE /\ pc = "baseline" /\ pc' # "baseline"
           /\ UNCHANGED <<edited, tree, done>>
  BY <1>3 DEF LoopInv, EndsAreFinal, ChangeInv
<1>4. CASE Edit \/ Revise
  <2>1. edited' # {} /\ pc' # "baseline" /\ tree' # "clean"
    BY <1>4 DEF Edit, Revise, ChangeInv, LoopInv, RetestsFollowEdits
  <2> QED
    BY <2>1 DEF ChangeInv
<1>5. CASE Commit
  <2>1. /\ pc = "commit" /\ pc' = "returned" /\ done' = last.passed /\ edited' = edited
        /\ tree' = tree \/ (last.passed /\ tree' \in {"committed", "staged"})
    BY <1>5 DEF Commit
  <2>2. last.passed => edited # {}
    BY <2>1 DEF LoopInv, GreenIsCurrent
  <2> QED
    BY <2>1, <2>2 DEF ChangeInv
<1>6. CASE UNCHANGED loopVars
  BY <1>6 DEF loopVars, ChangeInv
<1>7. ASSUME NextAttempt PROVE pc' # "baseline"
  BY <1>7 DEF NextAttempt
<1>8. CASE LoopNext /\ ~(BaselinePasses \/ Edit \/ Revise \/ Commit)
  <2>1. CASE BaselineFails
    BY <1>3, <2>1 DEF BaselineFails
  <2>2. CASE NothingImplicated \/ ImportNotInRepository \/ NoStrategyMatches \/ EditFails
    BY <1>2, <2>2 DEF NothingImplicated, ImportNotInRepository, NoStrategyMatches, EditFails
  <2>3. CASE RetestPasses \/ RetestNamesNone \/ RevisionRaises
    BY <1>2, <2>3 DEF RetestPasses, RetestNamesNone, RevisionRaises
  <2>4. CASE TargetStillFails \/ Redirected
    BY <1>2, <1>7, <2>4 DEF TargetStillFails, Redirected
  <2>5. CASE RetestRevision
    BY <1>2, <1>7, <2>5 DEF RetestRevision
  <2>6. CASE WriteRegressionTest \/ CheckQuality
    BY <1>2, <2>6 DEF WriteRegressionTest, CheckQuality
  <2> QED
    BY <1>8, <2>1, <2>2, <2>3, <2>4, <2>5, <2>6 DEF LoopNext
<1> QED
  BY <1>1, <1>4, <1>5, <1>6, <1>8

\* On files of a loop that is done, the failures of a run say nothing only if
\* it was cut off: those that it names are the new test's, which is not among
\* the failures of the baseline.
LEMMA CutOffRun ==
    ASSUME LoopInv, done, NEW full \in Runs, ~full.passed, full.failing \subseteq baseline
    PROVE  Timeouts /\ full = Unlisted
<1>1. suite.failing \subseteq {NewTest} /\ suite # Unlisted
  BY DEF LoopInv, EndsAreFinal
<1>2. suite \in ResultsOf(Tests \cup {NewTest}) /\ baseline \subseteq Tests
  BY DEF LoopInv, LoopTypeOK
<1>3. NewTest \notin Tests
  BY RepairLoopAssumption DEF Tests, NewTest
<1>4. full # suite
  <2> SUFFICES ASSUME full = suite PROVE FALSE
    OBVIOUS
  <2>1. suite.failing = {}
    BY <1>1, <1>2, <1>3
  <2>2. suite = Result(FALSE, {})
    BY <1>2, <2>1, ResultFacts
  <2> QED
    BY <1>1, <2>2 DEF Unlisted
<1> QED
  BY <1>4 DEF Runs

----------------------------------------------------------------------------
(* The commands that the loop may still run.                               *)

\* No attempt takes more than an edit, a revision and their two runs; the
\* regression test is written once.
LoopRank ==
    CASE pc = "baseline"        -> 3 * MaxAttempts + 4
      [] pc = "attempt"         -> 3 * (MaxAttempts - attempt) + 6
      [] pc = "retest"          -> 3 * (MaxAttempts - attempt) + 5
      [] pc = "retest_revision" -> 3 * (MaxAttempts - attempt) + 4
      [] pc = "quality"         -> IF guard = "none" THEN 3 ELSE 2
      [] pc = "commit"          -> 1
      [] OTHER                  -> 0

\* The rank of each place, one by one.
LEMMA RankAt ==
    /\ pc = "baseline" => LoopRank = 3 * MaxAttempts + 4
    /\ pc = "attempt" => LoopRank = 3 * (MaxAttempts - attempt) + 6
    /\ pc = "retest" => LoopRank = 3 * (MaxAttempts - attempt) + 5
    /\ pc = "retest_revision" => LoopRank = 3 * (MaxAttempts - attempt) + 4
    /\ pc = "quality" => LoopRank = IF guard = "none" THEN 3 ELSE 2
    /\ pc = "commit" => LoopRank = 1
    /\ pc \in {"returned", "raised"} => LoopRank = 0
BY DEF LoopRank

LEMMA LoopRankType ==
    ASSUME LoopInv
    PROVE  LoopRank \in 0 .. 3 * MaxAttempts + 4
<1>1. /\ attempt \in 1 .. MaxAttempts /\ MaxAttempts \in Nat
      /\ pc \in {"baseline", "attempt", "retest", "retest_revision", "quality", "commit",
                 "returned", "raised"}
  BY RepairLoopAssumption DEF LoopInv, LoopTypeOK, Attempts
<1>2. pc = "attempt" => LoopRank \in 0 .. 3 * MaxAttempts + 4
  BY <1>1, RankAt
<1>3. pc = "retest" => LoopRank \in 0 .. 3 * MaxAttempts + 4
  BY <1>1, RankAt
<1>4. pc = "retest_revision" => LoopRank \in 0 .. 3 * MaxAttempts + 4
  BY <1>1, RankAt
<1>5. pc \in {"baseline", "quality", "commit", "returned", "raised"} =>
        LoopRank \in 0 .. 3 * MaxAttempts + 4
  BY <1>1, RankAt
<1> QED
  BY <1>1, <1>2, <1>3, <1>4, <1>5

LEMMA RankAtNext ==
    /\ pc' = "attempt" => LoopRank' = 3 * (MaxAttempts - attempt') + 6
    /\ pc' = "retest" => LoopRank' = 3 * (MaxAttempts - attempt') + 5
    /\ pc' = "retest_revision" => LoopRank' = 3 * (MaxAttempts - attempt') + 4
    /\ pc' = "quality" => LoopRank' = IF guard' = "none" THEN 3 ELSE 2
    /\ pc' = "commit" => LoopRank' = 1
    /\ pc' \in {"returned", "raised"} => LoopRank' = 0
BY DEF LoopRank

\* Another attempt is worth less than the run it follows.
LEMMA NextAttemptFalls ==
    ASSUME LoopInv, NextAttempt, pc \in {"retest", "retest_revision"}
    PROVE  LoopRank' < LoopRank
<1>1. attempt \in 1 .. MaxAttempts /\ MaxAttempts \in Nat
  BY RepairLoopAssumption DEF LoopInv, LoopTypeOK, Attempts
<1>2. LoopRank \in Nat /\ LoopRank >= 3 * (MaxAttempts - attempt) + 4
  BY <1>1, RankAt
<1>3. CASE attempt < MaxAttempts
  <2>1. pc' = "attempt" /\ attempt' = attempt + 1
    BY <1>3 DEF NextAttempt
  <2> QED
    BY <1>1, <1>2, <2>1, RankAtNext
<1>4. CASE ~(attempt < MaxAttempts)
  <2>1. pc' = "quality"
    BY <1>4 DEF NextAttempt
  <2>2. LoopRank' \in {2, 3}
    BY <2>1, RankAtNext
  <2> QED
    BY <1>1, <1>2, <2>2
<1> QED
  BY <1>3, <1>4

LEMMA LoopRankFalls ==
    ASSUME LoopInv, LoopNext
    PROVE  LoopRank' < LoopRank
<1>1. attempt \in 1 .. MaxAttempts /\ MaxAttempts \in Nat /\ MaxAttempts > 0
  BY RepairLoopAssumption DEF LoopInv, LoopTypeOK, Attempts
<1>2. CASE BaselinePasses \/ BaselineFails
  <2>1. pc = "baseline" /\ pc' \in {"attempt", "returned", "raised"} /\ attempt' = attempt
    BY <1>2 DEF BaselinePasses, BaselineFails
  <2> QED
    BY <1>1, <2>1, RankAt, RankAtNext
<1>3. CASE NothingImplicated \/ ImportNotInRepository \/ NoStrategyMatches \/ EditFails \/ Edit
  <2>1. pc = "attempt" /\ pc' \in {"retest", "quality", "raised"} /\ attempt' = attempt
    BY <1>3 DEF NothingImplicated, ImportNotInRepository, NoStrategyMatches, EditFails, Edit
  <2> QED
    BY <1>1, <2>1, RankAt, RankAtNext
<1>4. CASE RetestPasses \/ RetestNamesNone \/ RevisionRaises \/ Revise
  <2>1. pc = "retest" /\ pc' \in {"retest_revision", "quality", "raised"} /\ attempt' = attempt
    BY <1>4 DEF RetestPasses, RetestNamesNone, RevisionRaises, Revise
  <2> QED
    BY <1>1, <2>1, RankAt, RankAtNext
<1>5. CASE TargetStillFails \/ Redirected
  BY <1>5, NextAttemptFalls DEF TargetStillFails, Redirected
<1>6. CASE RetestRevision
  <2>1. pc = "retest_revision" /\ (pc' = "quality" \/ NextAttempt)
    BY <1>6 DEF RetestRevision
  <2>2. ASSUME pc' = "quality" PROVE LoopRank' < LoopRank
    BY <1>1, <2>1, <2>2, RankAt, RankAtNext
  <2> QED
    BY <2>1, <2>2, NextAttemptFalls
<1>7. CASE WriteRegressionTest
  <2>1. pc = "quality" /\ guard = "none" /\ pc' = "quality" /\ guard' # "none"
    BY <1>7 DEF WriteRegressionTest
  <2> QED
    BY <2>1, RankAt, RankAtNext
<1>8. CASE CheckQuality \/ Commit
  <2>1. \/ pc = "quality" /\ pc' = "commit"
        \/ pc = "commit" /\ pc' = "returned"
    BY <1>8 DEF CheckQuality, Commit
  <2> QED
    BY <2>1, RankAt, RankAtNext
<1> QED
  BY <1>2, <1>3, <1>4, <1>5, <1>6, <1>7, <1>8 DEF LoopNext

=============================================================================

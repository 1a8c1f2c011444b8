--------------------- MODULE StraightforwardRepair_proofs ---------------------
(***************************************************************************)
(* The strategies finish what they are made for: the loop never gives up   *)
(* on a repository that is repairable within its attempts, for any number  *)
(* of tests, modules and attempts.                                         *)
(***************************************************************************)
EXTENDS GuidedRepair_proofs, FiniteSetTheorems

\* The tests are of the modelled form, and the file that a test is about is one
\* of those that it uses.
WellFormedTests ==
    /\ TypedTests
    /\ \A n \in Tests :
          /\ tests[n].kind \in Kinds
          /\ tests[n].module \in Modules
          /\ tests[n].lo \in Nat /\ tests[n].hi \in Nat
          /\ tests[n].says \in BOOLEAN
          /\ \E k \in DOMAIN tests[n].files : tests[n].files[k] = tests[n].module

----------------------------------------------------------------------------
(* The measure.                                                            *)

LEMMA TestsFinite ==
    ASSUME NEW c
    PROVE  IsFiniteSet(FailingTests(c))
<1>1. IsFiniteSet(Tests)
  BY FS_Interval, RepairLoopAssumption DEF Tests
<1>2. FailingTests(c) \in SUBSET Tests
  BY DEF FailingTests
<1> QED
  BY <1>1, <1>2, FS_Subset

LEMMA AdjustmentsFinite ==
    ASSUME NEW c \in [Modules -> Codes]
    PROVE  IsFiniteSet(Adjustments(c))
<1> DEFINE of == [m \in Modules |-> {m} \X (1 .. c[m].adjustments)]
<1> DEFINE all == {{m} \X (1 .. c[m].adjustments) : m \in Modules}
<1>1. of \in Surjection(Modules, all)
  BY DEF Surjection
<1>2. IsFiniteSet(all)
  <2> HIDE DEF of, all
  <2> QED
    BY <1>1, FixStrategiesAssumption, FS_Surjection
<1>3. ASSUME NEW m \in Modules PROVE IsFiniteSet({m} \X (1 .. c[m].adjustments))
  <2>1. c[m].adjustments \in Nat
    BY DEF Codes
  <2>2. IsFiniteSet(1 .. c[m].adjustments)
    BY <2>1, FS_Interval
  <2>3. IsFiniteSet({m})
    BY FS_Singleton
  <2> QED
    BY <2>2, <2>3, FS_Product
<1>4. \A T \in all : IsFiniteSet(T)
  BY <1>3
<1>5. IsFiniteSet(UNION all)
  <2> HIDE DEF all
  <2> QED
    BY <1>2, <1>4, FS_UNION
<1> QED
  BY <1>5 DEF Adjustments

LEMMA WorkType ==
    ASSUME NEW c \in [Modules -> Codes]
    PROVE  Work(c) \in Nat /\ (FailingTests(c) # {} => Work(c) >= 1)
<1>1. /\ Cardinality(FailingTests(c)) \in Nat
      /\ Cardinality(Adjustments(c)) \in Nat
  BY TestsFinite, AdjustmentsFinite, FS_CardinalityType
<1>2. FailingTests(c) # {} => Cardinality(FailingTests(c)) # 0
  BY TestsFinite, FS_EmptySet
<1> QED
  BY <1>1, <1>2 DEF Work

\* Nothing new to repair, and something less.
Improves(c, d) ==
    /\ FailingTests(d) \subseteq FailingTests(c)
    /\ Adjustments(d) \subseteq Adjustments(c)
    /\ FailingTests(d) # FailingTests(c) \/ Adjustments(d) # Adjustments(c)

LEMMA WorkDecreases ==
    ASSUME NEW c \in [Modules -> Codes], NEW d \in [Modules -> Codes], Improves(c, d)
    PROVE  Work(d) + 1 <= Work(c)
<1>1. /\ Cardinality(FailingTests(c)) \in Nat /\ Cardinality(FailingTests(d)) \in Nat
      /\ Cardinality(Adjustments(c)) \in Nat /\ Cardinality(Adjustments(d)) \in Nat
  BY TestsFinite, AdjustmentsFinite, FS_CardinalityType
<1>2. /\ Cardinality(FailingTests(d)) <= Cardinality(FailingTests(c))
      /\ Cardinality(FailingTests(d)) = Cardinality(FailingTests(c)) =>
            FailingTests(d) = FailingTests(c)
  BY TestsFinite, FS_Subset DEF Improves
<1>3. /\ Cardinality(Adjustments(d)) <= Cardinality(Adjustments(c))
      /\ Cardinality(Adjustments(d)) = Cardinality(Adjustments(c)) =>
            Adjustments(d) = Adjustments(c)
  BY AdjustmentsFinite, FS_Subset DEF Improves
<1> QED
  BY <1>1, <1>2, <1>3 DEF Work, Improves

----------------------------------------------------------------------------
(* What an edit of one module does to the tests.                           *)

Accepts(n, v) == tests[n].lo <= v /\ v <= tests[n].hi

RangesOf(m) == {n \in Tests : tests[n].kind = "range" /\ tests[n].module = m}

LEMMA OneRangeFacts ==
    ASSUME NEW c, NEW m
    PROVE  OneRange(c, m) <=>
             /\ \A n \in RangesOf(m) : tests[n].says => tests[n].lo < tests[n].hi
             /\ \A n, k \in RangesOf(m) :
                   tests[n].says => Accepts(k, tests[n].lo) /\ Accepts(k, tests[n].hi)
             /\ \E v \in {c[m].value, Guess(c[m].value)} :
                   \A n \in RangesOf(m) : ~tests[n].says => Accepts(n, v)
BY DEF OneRange, RangesOf, Accepts

\* The parts of Repairable that an edit has to keep.
LEMMA StaysRepairable ==
    ASSUME NEW c, NEW d, Repairable(c),
           \A m \in Modules : d[m].once /\ OneRange(d, m),
           FailingTests(d) \subseteq FailingTests(c),
           \A n \in FailingTests(d) :
              tests[n].kind = "shape" /\ ~c[tests[n].module].guarded => ~d[tests[n].module].guarded
    PROVE  Repairable(d)
BY DEF Repairable

\* A number that every test accepts which accepted the old one or is silent.
LEMMA ValueEdit ==
    ASSUME WellFormedTests, NEW c \in [Modules -> Codes], Repairable(c),
           NEW m \in Modules, NEW v \in 0 .. MaxValue, NEW n \in RangesOf(m),
           ~Accepts(n, c[m].value), Accepts(n, v),
           \A k \in RangesOf(m) : ~tests[k].says \/ Accepts(k, c[m].value) => Accepts(k, v),
           NEW d, d = [c EXCEPT ![m] = [c[m] EXCEPT !.value = v]]
    PROVE  Improves(c, d) /\ Repairable(d)
<1>1. c[m] \in Codes /\ d[m] = [c[m] EXCEPT !.value = v] /\ \A k \in Modules \ {m} : d[k] = c[k]
  OBVIOUS
<1>2. /\ d[m].value = v
      /\ \A k \in Modules : /\ d[k].adjustments = c[k].adjustments
                            /\ d[k].keys = c[k].keys
                            /\ d[k].guarded = c[k].guarded
                            /\ d[k].once = c[k].once
  BY <1>1 DEF Codes
<1>3. Adjustments(d) = Adjustments(c)
  BY <1>2 DEF Adjustments
<1>4. ASSUME NEW k \in Tests, Passes(tests[k], c) PROVE Passes(tests[k], d)
  <2>1. tests[k].module \in Modules /\ tests[k].kind \in Kinds
    BY DEF WellFormedTests
  <2>2. CASE tests[k].kind = "range" /\ tests[k].module = m
    BY <1>2, <1>4, <2>2 DEF RangesOf, Passes, Accepts
  <2>3. CASE tests[k].kind = "range" /\ tests[k].module # m
    BY <1>1, <1>4, <2>1, <2>3 DEF Passes
  <2>4. CASE tests[k].kind \in {"boundary", "shape", "repeat"}
    BY <1>2, <1>4, <2>1, <2>4 DEF Passes
  <2> QED
    BY <2>1, <2>2, <2>3, <2>4 DEF Kinds
<1>5. FailingTests(d) \subseteq FailingTests(c)
  BY <1>4 DEF FailingTests
<1>6. n \in FailingTests(c) /\ n \notin FailingTests(d)
  BY <1>2 DEF FailingTests, RangesOf, Passes, Accepts
<1>7. ASSUME NEW k \in Modules PROVE d[k].once /\ OneRange(d, k)
  <2>1. c[k].once /\ OneRange(c, k)
    BY DEF Repairable
  <2>2. CASE k = m
    BY <1>2, <2>1, <2>2, OneRangeFacts
  <2>3. CASE k # m
    BY <1>1, <2>1, <2>3, OneRangeFacts
  <2> QED
    BY <1>2, <2>1, <2>2, <2>3
<1>8. \A k \in FailingTests(d) :
         tests[k].kind = "shape" /\ ~c[tests[k].module].guarded => ~d[tests[k].module].guarded
  BY <1>2 DEF FailingTests, WellFormedTests
<1>9. Repairable(d)
  BY <1>5, <1>7, <1>8, StaysRepairable
<1> QED
  BY <1>3, <1>5, <1>6, <1>9 DEF Improves

\* Fewer adjustments, the keys of the contract or a guard: what passed goes on
\* passing, and a guard comes after the keys.
LEMMA FunctionEdit ==
    ASSUME WellFormedTests, NEW c \in [Modules -> Codes], Repairable(c),
           NEW m \in Modules, NEW new \in Codes,
           new.value = c[m].value, new.once = c[m].once,
           new.adjustments <= c[m].adjustments,
           c[m].keys = "contract" => new.keys = "contract",
           c[m].guarded => new.guarded,
           new.guarded /\ ~c[m].guarded =>
              \A k \in FailingTests(c) : ~(tests[k].kind = "shape" /\ tests[k].module = m),
           NEW d, d = [c EXCEPT ![m] = new],
           new.adjustments < c[m].adjustments \/ \E n \in FailingTests(c) : Passes(tests[n], d)
    PROVE  Improves(c, d) /\ Repairable(d)
<1>1. c[m] \in Codes /\ d[m] = new /\ \A k \in Modules \ {m} : d[k] = c[k]
  OBVIOUS
<1>2. \A k \in Modules : /\ d[k].value = c[k].value
                         /\ d[k].once = c[k].once
                         /\ d[k].adjustments \in Nat /\ c[k].adjustments \in Nat
                         /\ d[k].adjustments <= c[k].adjustments
                         /\ c[k].keys = "contract" => d[k].keys = "contract"
                         /\ c[k].guarded => d[k].guarded
  BY <1>1 DEF Codes
<1>3. Adjustments(d) \subseteq Adjustments(c)
  <2> SUFFICES ASSUME NEW k \in Modules, NEW x \in {k} \X (1 .. d[k].adjustments)
               PROVE  x \in {k} \X (1 .. c[k].adjustments)
    BY DEF Adjustments
  <2> QED
    BY <1>2
<1>4. ASSUME NEW k \in Tests, Passes(tests[k], c) PROVE Passes(tests[k], d)
  <2>1. tests[k].module \in Modules /\ tests[k].kind \in Kinds
    BY DEF WellFormedTests
  <2>2. CASE tests[k].kind = "boundary"
    <3>1. c[tests[k].module].adjustments = 0
      BY <1>4, <2>2 DEF Passes, Repairable
    <3>2. d[tests[k].module].adjustments = 0
      BY <1>2, <2>1, <3>1
    <3> QED
      BY <2>2, <3>2 DEF Passes, Repairable
  <2>3. CASE tests[k].kind \in {"range", "shape", "repeat"}
    BY <1>2, <1>4, <2>1, <2>3 DEF Passes
  <2> QED
    BY <2>1, <2>2, <2>3 DEF Kinds
<1>5. FailingTests(d) \subseteq FailingTests(c)
  BY <1>4 DEF FailingTests
<1>6. FailingTests(d) # FailingTests(c) \/ Adjustments(d) # Adjustments(c)
  <2>1. CASE new.adjustments < c[m].adjustments
    <3> DEFINE x == <<m, c[m].adjustments>>
    <3>1. x \in {m} \X (1 .. c[m].adjustments)
      BY <1>2, <2>1 DEF Codes
    <3>2. ASSUME NEW k \in Modules PROVE x \notin {k} \X (1 .. d[k].adjustments)
      BY <1>1, <1>2, <2>1
    <3>3. x \in Adjustments(c) /\ x \notin Adjustments(d)
      BY <3>1, <3>2 DEF Adjustments
    <3> QED
      BY <3>3
  <2>2. CASE \E n \in FailingTests(c) : Passes(tests[n], d)
    BY <2>2 DEF FailingTests
  <2> QED
    BY <2>1, <2>2
<1>7. ASSUME NEW k \in Modules PROVE d[k].once /\ OneRange(d, k)
  <2>1. c[k].once /\ OneRange(c, k)
    BY DEF Repairable
  <2> QED
    BY <1>2, <2>1, OneRangeFacts
<1>8. \A k \in FailingTests(d) :
         tests[k].kind = "shape" /\ ~c[tests[k].module].guarded => ~d[tests[k].module].guarded
  <2> SUFFICES ASSUME NEW k \in FailingTests(d), tests[k].kind = "shape",
                      ~c[tests[k].module].guarded
               PROVE  ~d[tests[k].module].guarded
    OBVIOUS
  <2>1. k \in FailingTests(c) /\ tests[k].module \in Modules
    BY <1>5 DEF FailingTests, WellFormedTests
  <2> QED
    BY <1>1, <2>1
<1>9. Repairable(d)
  BY <1>5, <1>7, <1>8, StaysRepairable
<1> QED
  BY <1>3, <1>5, <1>6, <1>9 DEF Improves

----------------------------------------------------------------------------
(* What the strategies propose for a failing test.                         *)

\* The code after a proposal is made is repairable, with less to repair.
Repairs(c, p) ==
    LET d == [c EXCEPT ![p.module] = p.new]
    IN  Improves(c, d) /\ Repairable(d)

\* A test that states the range gives a number that every test accepts; the
\* first guess is made when only silent tests could have failed before.
LEMMA NumericRepairs ==
    ASSUME WellFormedTests, NEW c \in [Modules -> Codes], Repairable(c),
           NEW n \in FailingTests(c), NEW m \in Modules, NEW p \in NumericBound(tests[n], c, m)
    PROVE  Repairs(c, p)
<1>1. n \in Tests /\ tests[n].uses = {Tested(tests[n])} /\ <<m, "constant">> \in tests[n].uses
  BY DEF FailingTests, Repairable, NumericBound
<1>2. n \in RangesOf(m)
  BY <1>1 DEF Tested, RangesOf
<1>3. ~Accepts(n, c[m].value)
  BY <1>2 DEF FailingTests, RangesOf, Passes, Accepts
<1>4. /\ \A i \in RangesOf(m) : tests[i].says => tests[i].lo < tests[i].hi
      /\ \A i, k \in RangesOf(m) :
            tests[i].says => Accepts(k, tests[i].lo) /\ Accepts(k, tests[i].hi)
      /\ \E v \in {c[m].value, Guess(c[m].value)} :
            \A i \in RangesOf(m) : ~tests[i].says => Accepts(i, v)
  BY OneRangeFacts DEF Repairable
<1>5. c[m] \in Codes /\ c[m].value \in 0 .. MaxValue
  BY DEF Codes
<1>6. \A i \in RangesOf(m) : tests[i].lo \in Nat /\ tests[i].hi \in Nat /\ tests[i].says \in BOOLEAN
  BY DEF RangesOf, WellFormedTests
<1> DEFINE v == IF tests[n].says THEN Within(tests[n].lo, tests[n].hi) ELSE Guess(c[m].value)
<1>7. p.module = m /\ p.new = [c[m] EXCEPT !.value = v]
  <2>1. p = IF tests[n].says THEN Proposal(m, [c[m] EXCEPT !.value = Within(tests[n].lo, tests[n].hi)],
                                         [module |-> m, lo |-> tests[n].lo, hi |-> tests[n].hi])
                             ELSE Proposal(m, [c[m] EXCEPT !.value = Guess(c[m].value)], NoBound)
    BY DEF NumericBound
  <2> QED
    BY <2>1, ProposalFields
<1>8. v \in 0 .. MaxValue
  BY <1>1, <1>5, GuessInRange DEF WellFormedTests, TypedTests
<1>9. /\ Accepts(n, v)
      /\ \A k \in RangesOf(m) : ~tests[k].says \/ Accepts(k, c[m].value) => Accepts(k, v)
  <2>1. CASE tests[n].says
    <3>1. tests[n].lo <= v /\ v <= tests[n].hi
      BY <1>2, <1>4, <1>6, <2>1, PickedInside
    <3>2. ASSUME NEW k \in RangesOf(m) PROVE Accepts(k, v)
      <4>1. Accepts(k, tests[n].lo) /\ Accepts(k, tests[n].hi)
        BY <1>2, <1>4, <2>1
      <4> QED
        BY <1>2, <1>6, <1>8, <3>1, <4>1 DEF Accepts
    <3> QED
      BY <1>2, <3>2
  <2>2. CASE ~tests[n].says
    <3>1. v = Guess(c[m].value) /\ \A k \in RangesOf(m) : ~tests[k].says => Accepts(k, v)
      BY <1>2, <1>3, <1>4, <2>2
    <3>2. ASSUME NEW k \in RangesOf(m), tests[k].says PROVE ~Accepts(k, c[m].value)
      <4>1. Accepts(n, tests[k].lo) /\ Accepts(n, tests[k].hi)
        BY <1>2, <1>4, <3>2
      <4> QED
        BY <1>2, <1>3, <1>5, <1>6, <4>1 DEF Accepts
    <3> QED
      BY <1>2, <1>6, <2>2, <3>1, <3>2
  <2> QED
    BY <2>1, <2>2
<1> HIDE DEF v
<1> DEFINE d == [c EXCEPT ![m] = [c[m] EXCEPT !.value = v]]
<1>10. Improves(c, d) /\ Repairable(d)
  <2>1. d = [c EXCEPT ![m] = [c[m] EXCEPT !.value = v]]
    OBVIOUS
  <2> HIDE DEF d
  <2> QED
    BY <1>2, <1>3, <1>8, <1>9, <2>1, ValueEdit
<1> QED
  BY <1>7, <1>10 DEF Repairs

\* The first test that fails, when no number is what it asserts.
LEMMA FunctionRepairs ==
    ASSUME WellFormedTests, NEW c \in [Modules -> Codes], Repairable(c),
           NEW n \in FailingTests(c), \A k \in FailingTests(c) : n <= k,
           NEW m \in Modules, NEW p \in ProposalsFor(tests[n], c, m),
           NumericBound(tests[n], c, m) = {}
    PROVE  Repairs(c, p)
<1>1. n \in Tests /\ tests[n].uses = {Tested(tests[n])} /\ c[m] \in Codes
  BY DEF FailingTests, Repairable
<1>2. \/ p \in OffByOne(tests[n], c, m)
      \/ OffByOne(tests[n], c, m) = {} /\ p \in ShapeMismatch(tests[n], c, m)
      \/ OffByOne(tests[n], c, m) = {} /\ p \in IdempotencyGuard(tests[n], c, m)
  BY DEF ProposalsFor, Otherwise
<1>3. <<m, "function">> \in tests[n].uses
  BY <1>2 DEF OffByOne, ShapeMismatch, IdempotencyGuard, EditOf
<1>4. tests[n].module = m /\ tests[n].kind # "range"
  BY <1>1, <1>3 DEF Tested
<1>5. CASE p \in OffByOne(tests[n], c, m)
  <2> DEFINE new == [c[m] EXCEPT !.adjustments = @ - 1]
  <2>1. c[m].adjustments > 0 /\ p = Proposal(m, new, NoBound)
    BY <1>5 DEF OffByOne, EditOf
  <2>2. /\ new \in Codes /\ new.adjustments < c[m].adjustments
        /\ new.value = c[m].value /\ new.once = c[m].once
        /\ new.keys = c[m].keys /\ new.guarded = c[m].guarded
    BY <1>1, <2>1 DEF Codes
  <2>3. new.adjustments <= c[m].adjustments
    BY <1>1, <2>2 DEF Codes
  <2>4. p.module = m /\ p.new = new
    BY <2>1, ProposalFields
  <2> HIDE DEF new
  <2> QED
    BY <2>2, <2>3, <2>4, FunctionEdit DEF Repairs
<1>6. CASE p \in ShapeMismatch(tests[n], c, m)
  <2>1. tests[n].kind = "shape"
    BY <1>6 DEF ShapeMismatch, EditOf
  <2>2. ~c[m].guarded
    BY <1>4, <2>1 DEF Repairable
  <2> DEFINE new == [c[m] EXCEPT !.keys = "contract"]
  <2>3. p = Proposal(m, new, NoBound)
    BY <1>6, <2>2 DEF ShapeMismatch, EditOf
  <2>4. /\ new \in Codes /\ new.adjustments <= c[m].adjustments
        /\ new.value = c[m].value /\ new.once = c[m].once
        /\ new.keys = "contract" /\ new.guarded = c[m].guarded
    BY <1>1 DEF Codes
  <2>5. p.module = m /\ p.new = new
    BY <2>3, ProposalFields
  <2>6. Passes(tests[n], [c EXCEPT ![m] = new])
    BY <1>4, <2>1, <2>4 DEF Passes
  <2> HIDE DEF new
  <2> QED
    BY <2>4, <2>5, <2>6, FunctionEdit DEF Repairs
<1>7. CASE p \in IdempotencyGuard(tests[n], c, m)
  <2> DEFINE new == [c[m] EXCEPT !.guarded = TRUE]
  <2>1. tests[n].kind = "repeat" /\ p = Proposal(m, new, NoBound)
    BY <1>7 DEF IdempotencyGuard, EditOf
  <2>2. /\ new \in Codes /\ new.adjustments <= c[m].adjustments
        /\ new.value = c[m].value /\ new.once = c[m].once
        /\ new.keys = c[m].keys /\ new.guarded
    <3>1. new \in Codes
      BY <1>1 DEF Codes
    <3>2. /\ new.value = c[m].value /\ new.once = c[m].once /\ new.keys = c[m].keys
          /\ new.adjustments = c[m].adjustments /\ c[m].adjustments <= c[m].adjustments
      BY <1>1 DEF Codes
    <3>3. new.guarded
      BY <1>1, Zenon DEF Codes
    <3> QED
      BY <3>1, <3>2, <3>3
  <2>3. p.module = m /\ p.new = new
    BY <2>1, ProposalFields
  <2>4. Passes(tests[n], [c EXCEPT ![m] = new])
    BY <1>4, <2>1, <2>2 DEF Passes
  <2>5. ASSUME NEW k \in FailingTests(c), tests[k].kind = "shape", tests[k].module = m
        PROVE  FALSE
    <3>1. k \in Tests /\ k \in Nat /\ n \in Nat
      BY <1>1 DEF FailingTests, Tests
    <3>2. k < n
      BY <1>1, <1>4, <2>1, <2>5, <3>1 DEF Repairable
    <3> QED
      BY <3>1, <3>2
  <2> HIDE DEF new
  <2> QED
    BY <2>2, <2>3, <2>4, <2>5, FunctionEdit DEF Repairs
<1> QED
  BY <1>2, <1>5, <1>6, <1>7

\* So every edit that an attempt or a revision makes repairs something.
LEMMA ProposalsRepair ==
    ASSUME WellFormedTests, NEW c \in [Modules -> Codes], Repairable(c), NEW n \in FailingTests(c),
           NEW p \in Proposals(tests[n], c) \cup Revisions(tests[n], c),
           p \in Proposals(tests[n], c) => \A k \in FailingTests(c) : n <= k
    PROVE  /\ p.module \in Modules /\ c[p.module].once
           /\ [c EXCEPT ![p.module] = p.new] \in [Modules -> Codes]
           /\ Repairs(c, p)
<1>1. n \in Tests
  BY DEF FailingTests
<1>2. /\ tests[n].files \in Seq(Modules)
      /\ tests[n].says => Within(tests[n].lo, tests[n].hi) \in 0 .. MaxValue
  BY <1>1 DEF WellFormedTests, TypedTests
<1>3. p.module \in Modules /\ p.new \in Codes
  BY <1>2, ProposalsTyped DEF IsProposal
<1>4. c[p.module].once
  BY <1>3 DEF Repairable
<1>5. Repairs(c, p)
  <2>1. CASE p \in Revisions(tests[n], c)
    <3>1. PICK m \in FirstOf(tests[n].files, {k \in Modules : <<k, "constant">> \in tests[n].uses}) :
            p \in NumericBound(tests[n], c, m)
      BY <2>1 DEF Revisions
    <3>2. m \in Modules
      BY <1>2, <3>1, FirstOfIsMember
    <3> QED
      BY <3>1, <3>2, NumericRepairs
  <2>2. CASE p \in Proposals(tests[n], c)
    <3>1. PICK m \in FirstOf(tests[n].files, {k \in Modules : ProposalsFor(tests[n], c, k) # {}}) :
            p \in ProposalsFor(tests[n], c, m)
      BY <2>2 DEF Proposals
    <3>2. m \in Modules
      BY <1>2, <3>1, FirstOfIsMember
    <3>3. CASE NumericBound(tests[n], c, m) = {}
      BY <2>2, <3>1, <3>2, <3>3, FunctionRepairs
    <3>4. CASE NumericBound(tests[n], c, m) # {}
      <4>1. p \in NumericBound(tests[n], c, m)
        BY <3>1, <3>4 DEF ProposalsFor, Otherwise
      <4> QED
        BY <3>2, <4>1, NumericRepairs
    <3> QED
      BY <3>3, <3>4
  <2> QED
    BY <2>1, <2>2
<1> QED
  BY <1>3, <1>4, <1>5

\* And an attempt has one to make.
LEMMA ProposalExists ==
    ASSUME WellFormedTests, NEW c \in [Modules -> Codes], Repairable(c), NEW n \in FailingTests(c)
    PROVE  Proposals(tests[n], c) # {}
<1> DEFINE m == tests[n].module
<1> DEFINE S == {k \in Modules : ProposalsFor(tests[n], c, k) # {}}
<1> DEFINE found == {k \in DOMAIN tests[n].files : tests[n].files[k] \in S}
<1>1. /\ n \in Tests /\ m \in Modules /\ tests[n].kind \in Kinds
      /\ tests[n].files \in Seq(Modules)
      /\ tests[n].uses = {Tested(tests[n])} /\ tests[n].need = 0
      /\ ~Passes(tests[n], c) /\ c[m] \in Codes
  BY DEF FailingTests, WellFormedTests, TypedTests, Repairable
<1>2. /\ tests[n].kind = "range" => NumericBound(tests[n], c, m) # {}
      /\ tests[n].kind = "boundary" => OffByOne(tests[n], c, m) # {}
      /\ tests[n].kind = "shape" => ShapeMismatch(tests[n], c, m) # {}
      /\ tests[n].kind = "repeat" => IdempotencyGuard(tests[n], c, m) # {}
  <2>1. CASE tests[n].kind = "range"
    <3>1. <<m, "constant">> \in tests[n].uses
      BY <1>1, <2>1 DEF Tested
    <3> QED
      BY <2>1, <3>1 DEF NumericBound
  <2>2. CASE tests[n].kind # "range"
    <3>1. <<m, "function">> \in tests[n].uses
      BY <1>1, <2>2 DEF Tested
    <3>2. tests[n].kind = "boundary" => c[m].adjustments > 0
      BY <1>1 DEF Passes, Codes
    <3>3. tests[n].kind = "repeat" => ~c[m].guarded
      BY <1>1 DEF Passes
    <3> QED
      BY <2>2, <3>1, <3>2, <3>3 DEF OffByOne, ShapeMismatch, IdempotencyGuard, EditOf
  <2> QED
    BY <2>1, <2>2
<1>3. ProposalsFor(tests[n], c, m) # {}
  BY <1>1, <1>2 DEF ProposalsFor, Otherwise, Kinds
<1>4. found \subseteq Nat /\ found # {}
  <2>1. PICK k \in DOMAIN tests[n].files : tests[n].files[k] = m
    BY <1>1 DEF WellFormedTests
  <2>2. k \in found
    BY <1>1, <1>3, <2>1
  <2> QED
    BY <1>1, <2>2
<1>5. FirstOf(tests[n].files, S) = {tests[n].files[Min(found)]} /\ Min(found) \in found
  <2>1. Min(found) \in found
    <3> HIDE DEF found
    <3> QED
      BY <1>4, MinMember
  <2> QED
    BY <1>4, <2>1 DEF FirstOf
<1>6. PICK k \in S : k \in FirstOf(tests[n].files, S)
  BY <1>5
<1>7. PICK p : p \in ProposalsFor(tests[n], c, k)
  BY <1>6
<1> QED
  BY <1>6, <1>7 DEF Proposals

----------------------------------------------------------------------------
(* The inductive invariant: there is never more to repair than attempts to *)
(* do it in.                                                               *)

TargetIsFirst == \A n \in FailingTests(code) : target <= n

Progress ==
    /\ pc # "raised"
    /\ pc \in {"baseline", "attempt", "retest", "retest_revision"} => guard = "none"
    /\ pc = "baseline" => attempt = 1 /\ Work(code) <= MaxAttempts
    /\ pc = "attempt" =>
          /\ target \in FailingTests(code) /\ TargetIsFirst
          /\ attempt + Work(code) <= MaxAttempts + 1
    /\ pc \in {"retest", "retest_revision"} => attempt + Work(code) <= MaxAttempts
    /\ pc = "retest" => TargetIsFirst
    /\ pc \in {"quality", "commit"} => last.passed
    /\ pc = "returned" => done

RepairInv ==
    /\ GuidedTypeInv
    /\ WellFormedTests
    /\ FilesGiveSuite
    /\ Repairable(code)
    /\ Progress

\* Until the attempts end a run of the suite shows what there is to repair.
LEMMA SuiteShowsWork ==
    ASSUME RepairInv, ~Timeouts, guard = "none"
    PROVE  /\ Runs = {suite}
           /\ suite.failing = FailingTests(code)
           /\ suite.passed <=> FailingTests(code) = {}
           /\ FailingTests(code) # {} =>
                /\ First(suite) \in FailingTests(code)
                /\ \A n \in FailingTests(code) : First(suite) <= n
<1>1. suite = Result(FailingTests(code) = {}, FailingTests(code))
  BY DEF RepairInv, FilesGiveSuite, SuiteOf
<1>2. suite.failing = FailingTests(code) /\ (suite.passed <=> FailingTests(code) = {})
  BY <1>1 DEF Result
<1>3. FailingTests(code) \subseteq Nat
  BY DEF FailingTests, Tests
<1>4. Runs = {suite}
  BY DEF Runs
<1> QED
  BY <1>2, <1>3, <1>4, MinMember DEF First

\* The tests stay, so what is said of the code next is said of the next code.
LEMMA NextCode ==
    ASSUME tests' = tests
    PROVE  /\ FailingTests(code)' = FailingTests(code')
           /\ Work(code)' = Work(code')
           /\ Repairable(code)' <=> Repairable(code')
<1>1. FailingTests(code)' = FailingTests(code')
  BY DEF FailingTests
<1>2. Work(code)' = Work(code')
  BY <1>1 DEF Work, Adjustments
<1>3. \A m : OneRange(code, m)' <=> OneRange(code', m)
  BY DEF OneRange
<1>4. Repairable(code)' <=> Repairable(code')
  BY <1>1, <1>3 DEF Repairable
<1> QED
  BY <1>1, <1>2, <1>4

\* The steps that leave the code alone.
LEMMA ProgressOnSameCode ==
    ASSUME RepairInv, ~Timeouts, code' = code, tests' = tests,
           \/ BaselinePasses \/ BaselineFails \/ RetestPasses \/ TargetStillFails \/ Redirected
           \/ RetestRevision \/ WriteRegressionTest \/ CheckQuality \/ Commit
    PROVE  Progress'
<1> DEFINE F == FailingTests(code)
<1> DEFINE W == Work(code)
<1>1. FailingTests(code)' = F /\ Work(code)' = W
  BY NextCode
<1>2. W \in Nat /\ (F # {} => W >= 1)
  BY WorkType DEF RepairInv, GuidedTypeInv, GuidedTypeOK
<1>3. attempt \in Nat /\ attempt <= MaxAttempts /\ MaxAttempts \in Nat
  BY RepairLoopAssumption DEF RepairInv, GuidedTypeInv, LoopInv, LoopTypeOK, Attempts
<1>4. TargetIsFirst' <=> \A n \in F : target' <= n
  BY <1>1 DEF TargetIsFirst
<1>5. guard = "none" =>
        /\ Runs = {suite} /\ suite.failing = F /\ (suite.passed <=> F = {})
        /\ F # {} => First(suite) \in F /\ \A n \in F : First(suite) <= n
  BY SuiteShowsWork
<1> HIDE DEF F, W
<1>6. ASSUME F # {}, attempt + W <= MaxAttempts, NextAttempt, target' \in F,
             \A n \in F : target' <= n, guard = "none", guard' = guard
      PROVE  Progress'
  <2>1. attempt < MaxAttempts
    BY <1>2, <1>3, <1>6
  <2>2. pc' = "attempt" /\ attempt' = attempt + 1
    BY <1>6, <2>1 DEF NextAttempt
  <2>3. attempt' + W <= MaxAttempts + 1
    BY <1>2, <1>3, <1>6, <2>2
  <2> QED
    BY <1>1, <1>4, <1>6, <2>2, <2>3 DEF Progress
<1>7. CASE BaselinePasses
  BY <1>7 DEF BaselinePasses, Progress
<1>8. CASE BaselineFails
  <2>1. guard = "none" /\ attempt = 1 /\ W <= MaxAttempts
    BY <1>8 DEF BaselineFails, RepairInv, Progress, W
  <2>2. /\ ~suite.passed /\ UNCHANGED <<attempt, guard>>
        /\ IF suite.failing = {} THEN pc' = "raised" /\ UNCHANGED target
           ELSE pc' = "attempt" /\ target' = First(suite)
    BY <1>5, <1>8, <2>1 DEF BaselineFails
  <2>3. F # {} /\ pc' = "attempt" /\ target' = First(suite)
    BY <1>5, <2>1, <2>2
  <2>4. attempt' + W <= MaxAttempts + 1
    BY <1>2, <1>3, <2>1, <2>2
  <2> QED
    BY <1>1, <1>4, <1>5, <2>1, <2>2, <2>3, <2>4 DEF Progress
<1>9. CASE RetestPasses
  BY <1>9, ResultType DEF RetestPasses, Progress
<1>10. CASE TargetStillFails
  <2>1. guard = "none" /\ attempt + W <= MaxAttempts /\ \A n \in F : target <= n
    BY <1>10 DEF TargetStillFails, RepairInv, Progress, TargetIsFirst, W, F
  <2>2. target \in F /\ NextAttempt /\ UNCHANGED <<target, guard>>
    BY <1>5, <1>10, <2>1 DEF TargetStillFails
  <2> QED
    BY <1>6, <2>1, <2>2
<1>11. CASE Redirected
  <2>1. guard = "none" /\ attempt + W <= MaxAttempts
    BY <1>11 DEF Redirected, RepairInv, Progress, W
  <2>2. F # {} /\ NextAttempt /\ target' = First(suite) /\ guard' = guard
    BY <1>5, <1>11, <2>1 DEF Redirected
  <2> QED
    BY <1>5, <1>6, <2>1, <2>2
<1>12. CASE RetestRevision
  <2>1. guard = "none" /\ attempt + W <= MaxAttempts
    BY <1>12 DEF RetestRevision, RepairInv, Progress, W
  <2>2. /\ last' = suite /\ guard' = guard
        /\ IF suite.passed THEN pc' = "quality" /\ UNCHANGED attempt ELSE NextAttempt
        /\ target' = IF suite.failing # {} THEN First(suite) ELSE target
    BY <1>5, <1>12, <2>1 DEF RetestRevision
  <2>3. CASE suite.passed
    BY <2>2, <2>3 DEF Progress
  <2>4. CASE ~suite.passed
    <3>1. F # {} /\ NextAttempt /\ target' = First(suite)
      BY <1>5, <2>1, <2>2, <2>4
    <3> QED
      BY <1>5, <1>6, <2>1, <2>2, <3>1
  <2> QED
    BY <2>3, <2>4
<1>13. CASE WriteRegressionTest \/ CheckQuality
  <2>1. pc = "quality" /\ pc' \in {"quality", "commit"} /\ last' = last /\ last.passed
    BY <1>13 DEF WriteRegressionTest, CheckQuality, RepairInv, Progress
  <2> QED
    BY <2>1 DEF Progress
<1>14. CASE Commit
  BY <1>14 DEF Commit, RepairInv, Progress
<1> QED
  BY <1>7, <1>8, <1>9, <1>10, <1>11, <1>12, <1>13, <1>14

\* The steps that edit.
LEMMA EditsProgress ==
    ASSUME RepairInv, ~Timeouts, GuidedEdit \/ GuidedRevise
    PROVE  Repairable(code)' /\ Progress'
<1> DEFINE F == FailingTests(code)
<1>1. /\ code \in [Modules -> Codes] /\ WellFormedTests /\ Repairable(code)
      /\ attempt \in Nat /\ MaxAttempts \in Nat
  BY RepairLoopAssumption
     DEF RepairInv, GuidedTypeInv, GuidedTypeOK, LoopInv, LoopTypeOK, Attempts
<1>2. ASSUME NEW n \in F, NEW p \in Proposals(tests[n], code) \cup Revisions(tests[n], code),
             p \in Proposals(tests[n], code) => \A k \in F : n <= k, Apply(p)
      PROVE  /\ Repairable(code)'
             /\ FailingTests(code)' \subseteq F
             /\ Work(code) \in Nat /\ Work(code)' \in Nat
             /\ Work(code)' + 1 <= Work(code)
  <2>1. /\ code' \in [Modules -> Codes]
        /\ Improves(code, code') /\ Repairable(code')
    BY <1>1, <1>2, ProposalsRepair DEF Apply, Repairs
  <2>2. Work(code) \in Nat /\ Work(code') \in Nat /\ Work(code') + 1 <= Work(code)
    BY <1>1, <2>1, WorkType, WorkDecreases
  <2>3. tests' = tests
    BY <1>2 DEF Apply
  <2> QED
    BY <2>1, <2>2, <2>3, NextCode DEF Improves
<1>3. CASE GuidedEdit
  <2>1. PICK p \in Proposals(tests[target], code) : pc = "attempt" /\ Apply(p) /\ Edit
    BY <1>3 DEF GuidedEdit
  <2>2. /\ guard = "none" /\ target \in F /\ (\A k \in F : target <= k)
        /\ attempt + Work(code) <= MaxAttempts + 1
    BY <2>1 DEF RepairInv, Progress, TargetIsFirst
  <2>3. /\ Repairable(code)'
        /\ FailingTests(code)' \subseteq F
        /\ Work(code) \in Nat /\ Work(code)' \in Nat
        /\ Work(code)' + 1 <= Work(code)
    BY <1>2, <2>1, <2>2
  <2>4. pc' = "retest" /\ UNCHANGED <<attempt, target, guard>>
    BY <2>1 DEF Edit
  <2>5. attempt' + Work(code)' <= MaxAttempts
    <3> HIDE DEF F
    <3> QED
      BY <1>1, <2>2, <2>3, <2>4
  <2>6. TargetIsFirst'
    BY <2>2, <2>3, <2>4 DEF TargetIsFirst
  <2> QED
    BY <2>2, <2>3, <2>4, <2>5, <2>6 DEF Progress
<1>4. CASE GuidedRevise
  <2>1. PICK p \in Revisions(tests[First(suite)], code) :
          pc = "retest" /\ suite.failing # {} /\ Apply(p) /\ Revise
    BY <1>4 DEF GuidedRevise, NewProposals
  <2>2. guard = "none" /\ attempt + Work(code) <= MaxAttempts
    BY <2>1 DEF RepairInv, Progress
  <2>3. First(suite) \in F /\ \A k \in F : First(suite) <= k
    BY <2>1, <2>2, SuiteShowsWork
  <2>4. Repairable(code)' /\ Work(code) \in Nat /\ Work(code)' \in Nat /\ Work(code)' + 1 <= Work(code)
    BY <1>2, <2>1, <2>3
  <2>5. pc' = "retest_revision" /\ UNCHANGED <<attempt, guard>>
    BY <2>1 DEF Revise
  <2>6. attempt' + Work(code)' <= MaxAttempts
    BY <1>1, <2>2, <2>4, <2>5
  <2> QED
    BY <2>2, <2>4, <2>5, <2>6 DEF Progress
<1> QED
  BY <1>3, <1>4

\* An attempt proposes something, and its edit succeeds.
LEMMA NoAttemptFails ==
    ASSUME RepairInv
    PROVE  ~GuidedNothingImplicated /\ ~GuidedNoStrategyMatches /\ ~GuidedEditFails
<1> SUFFICES ASSUME pc = "attempt"
             PROVE  /\ tests[target].uses # {} /\ Proposals(tests[target], code) # {}
                    /\ \A p \in Proposals(tests[target], code) : code[p.module].once
  BY DEF GuidedNothingImplicated, NothingImplicated, GuidedNoStrategyMatches, NoStrategyMatches,
         GuidedEditFails
<1>1. /\ code \in [Modules -> Codes] /\ WellFormedTests /\ Repairable(code)
      /\ target \in FailingTests(code) /\ \A n \in FailingTests(code) : target <= n
  BY DEF RepairInv, GuidedTypeInv, GuidedTypeOK, Progress, TargetIsFirst
<1>2. tests[target].uses # {}
  BY <1>1 DEF Repairable, FailingTests
<1> QED
  BY <1>1, <1>2, ProposalExists, ProposalsRepair

LEMMA RepairInit ==
    ASSUME Repositories \subseteq [Modules -> Codes], WellFormedTests, Straightforward, GuidedInit
    PROVE  RepairInv
<1>1. GuidedTypeInv
  BY GuidedTypeInit DEF WellFormedTests
<1>2. pc = "baseline" /\ attempt = 1 /\ guard = "none"
  BY DEF GuidedInit, LoopInit
<1>3. FilesGiveSuite
  BY DEF GuidedInit, FilesGiveSuite
<1>4. Progress
  BY <1>2 DEF Straightforward, Progress
<1> QED
  BY <1>1, <1>3, <1>4 DEF RepairInv, Straightforward

LEMMA RepairNext ==
    ASSUME ~Timeouts, RepairInv, [GuidedNext]_guidedVars
    PROVE  RepairInv'
<1>1. GuidedTypeInv' /\ tests' = tests
  BY GuidedTypeNext, TestsStay DEF RepairInv
<1>2. WellFormedTests'
  BY <1>1 DEF RepairInv, GuidedTypeInv, WellFormedTests
<1>3. FilesGiveSuite'
  <2>1. CASE GuidedEdit \/ GuidedRevise
    BY <1>1, <2>1 DEF GuidedEdit, GuidedRevise, Apply, FilesGiveSuite, SuiteOf, FailingTests
  <2>2. CASE UNCHANGED <<suite, guard, code>>
    BY <1>1, <2>2 DEF RepairInv, FilesGiveSuite, SuiteOf, FailingTests
  <2>3. CASE GuidedRegressionTest
    BY <2>3 DEF GuidedRegressionTest, FilesGiveSuite
  <2>4. CASE GuidedNext /\ ~(GuidedEdit \/ GuidedRevise \/ GuidedRegressionTest)
    <3>1. UNCHANGED <<suite, guard, code>>
      BY <2>4 DEF GuidedNext, BaselinePasses, BaselineFails, RetestPasses, TargetStillFails,
         RetestRevision, CheckQuality, Commit, GuidedNothingImplicated, NothingImplicated,
         GuidedNoStrategyMatches, NoStrategyMatches, GuidedEditFails, EditFails,
         GuidedRedirected, Redirected
    <3> QED
      BY <2>2, <3>1
  <2> QED
    BY <2>1, <2>2, <2>3, <2>4 DEF guidedVars, loopVars
<1>4. Repairable(code)' /\ Progress'
  <2>1. CASE GuidedEdit \/ GuidedRevise
    BY <2>1, EditsProgress
  <2>2. ASSUME code' = code PROVE Repairable(code)'
    BY <1>1, <2>2, NextCode DEF RepairInv
  <2>3. CASE \/ BaselinePasses \/ BaselineFails \/ RetestPasses \/ TargetStillFails
             \/ RetestRevision \/ CheckQuality \/ Commit
    <3>1. CASE code' = code
      BY <1>1, <2>2, <2>3, <3>1, ProgressOnSameCode
    <3>2. CASE code' # code
      BY <2>1, <2>3, <3>2, NoAttemptFails DEF GuidedNext, GuidedRedirected, GuidedRegressionTest,
         guidedVars
    <3> QED
      BY <3>1, <3>2
  <2>4. CASE GuidedRedirected
    BY <1>1, <2>2, <2>4, ProgressOnSameCode DEF GuidedRedirected
  <2>5. CASE GuidedRegressionTest
    BY <1>1, <2>2, <2>5, ProgressOnSameCode DEF GuidedRegressionTest
  <2>6. CASE UNCHANGED guidedVars
    <3>1. code' = code
      BY <2>6 DEF guidedVars
    <3>2. FailingTests(code)' = FailingTests(code) /\ Work(code)' = Work(code)
      BY <1>1, <3>1, NextCode
    <3>3. Progress'
      BY <2>6, <3>2 DEF guidedVars, loopVars, RepairInv, Progress, TargetIsFirst
    <3> QED
      BY <2>2, <3>1, <3>3
  <2> QED
    BY <2>1, <2>3, <2>4, <2>5, <2>6, NoAttemptFails DEF GuidedNext
<1> QED
  BY <1>1, <1>2, <1>3, <1>4 DEF RepairInv

\* "Tries four general repair strategies, each triggered only by a structural
\* pattern" (README.md): on a straightforward repository, with any number of
\* tests and modules and in whatever order the files are tried, run_general_loop
\* never gives up and never raises.
THEOREM StraightforwardNeverGivesUp ==
    ASSUME ~Timeouts, Repositories \subseteq [Modules -> Codes]
    PROVE  WellFormedTests /\ Straightforward /\ GuidedSpec =>
              [](pc \in {"returned", "raised"} => done)
<1>1. WellFormedTests /\ Straightforward /\ GuidedInit => RepairInv
  BY RepairInit
<1>2. RepairInv /\ [GuidedNext]_guidedVars => RepairInv'
  BY RepairNext
<1>3. RepairInv => (pc \in {"returned", "raised"} => done)
  BY DEF RepairInv, Progress
<1> QED
  BY <1>1, <1>2, <1>3, PTL DEF GuidedSpec

=============================================================================

------------------------ MODULE MultiRepoTask_proofs ------------------------
(***************************************************************************)
(* Proofs about a task on several repositories, for any number of them, of *)
(* tests and of attempts, whichever runs and probes are cut off.           *)
(***************************************************************************)
EXTENDS MultiRepoTask, RepairLoop_proofs, FiniteSetTheorems

----------------------------------------------------------------------------
(* The inductive invariant.                                                *)

MultiTypes ==
    /\ hasParent \in BOOLEAN
    /\ phase \in {"identify", "next", "investigate", "probed", "closed", "raised"}
    /\ repo_ids \subseteq Repos
    /\ current \in Repos \cup {0}
    /\ sandboxes \subseteq repo_ids
    /\ green \subseteq DOMAIN results

\* Each repository of the task has an entry once its turn is over, and turns
\* come one at a time.
Turns ==
    /\ DOMAIN results \subseteq repo_ids
    /\ phase = "identify" => repo_ids = {}
    /\ phase = "investigate" => current \in repo_ids /\ current \notin DOMAIN results
    /\ phase \in {"probed", "closed"} => DOMAIN results = repo_ids
    /\ phase = "closed" => sandboxes = {}

EntryOK(e) ==
    /\ e.verdict \in {"VERIFIED_COMPLETE", "PARTIALLY_COMPLETE", "FAILED_VERIFICATION"}
    /\ e.auto_mergeable \in BOOLEAN

\* A repository called verified was left with every test passing.
Entries ==
    \A r \in DOMAIN results :
        EntryOK(results[r]) /\ (results[r].verdict = "VERIFIED_COMPLETE" => r \in green)

\* A probe that returned a shape returned the real one.
ProbesTrue ==
    IF phase \in {"probed", "closed"}
    THEN /\ DOMAIN schemas = repo_ids
         /\ \A r \in repo_ids : schemas[r] # NoShape => schemas[r] = shape[r]
    ELSE DOMAIN schemas = {}

NothingProposed == opened = {} /\ approvals = << >>

\* The three ways to close.
Merged ==
    /\ status = "VERIFIED_COMPLETE"
    /\ AllVerified /\ ContractOk
    /\ opened = repo_ids /\ DOMAIN approvals = repo_ids
    /\ \A r \in repo_ids : approvals[r] = "auto_approved" /\ Safe(r)

Waiting ==
    /\ status = "APPROVAL_REQUIRED"
    /\ AllVerified /\ ContractOk
    /\ opened = {} /\ DOMAIN approvals \subseteq repo_ids
    /\ DOMAIN approvals # {}
    /\ \A r \in DOMAIN approvals : approvals[r] = "None" /\ ~Safe(r)

GivenUp ==
    /\ NothingProposed
    /\ \/ status = "PARTIALLY_COMPLETE" /\ (\E r \in repo_ids : Verified(r))
       \/ status = "FAILED_VERIFICATION" /\ (\A r \in repo_ids : ~Verified(r))

Closings ==
    IF phase = "closed" THEN Merged \/ Waiting \/ GivenUp
    ELSE status = "RUNNING" /\ NothingProposed

MultiInv ==
    /\ LoopInv
    /\ MultiTypes
    /\ Turns
    /\ Entries
    /\ ProbesTrue
    /\ Closings

----------------------------------------------------------------------------
(* Lemmas.                                                                 *)

LEMMA EmptyDomain ==
    ASSUME NEW v
    PROVE  [r \in {} |-> v] = << >> /\ DOMAIN << >> = {}
OBVIOUS

LEMMA MultiInitInv == Init => MultiInv
<1> SUFFICES ASSUME Init PROVE MultiInv
  OBVIOUS
<1>1. LoopInv
  BY LoopInitInv DEF Init
<1>2. /\ phase = "identify" /\ repo_ids = {} /\ DOMAIN results = {} /\ DOMAIN schemas = {}
      /\ NothingProposed /\ status = "RUNNING"
  BY EmptyDomain DEF Init, NothingProposed
<1>3. MultiTypes
  BY <1>2 DEF Init, MultiTypes
<1>4. Turns /\ Entries /\ ProbesTrue /\ Closings
  BY <1>2 DEF Turns, Entries, ProbesTrue, Closings
<1> QED
  BY <1>1, <1>3, <1>4 DEF MultiInv

\* A loop that starts afresh satisfies the loop's invariant again.
LEMMA FreshLoop == LoopStart => LoopInv'
<1>1. LoopStart => LoopInit'
  BY DEF LoopStart, LoopInit
<1>2. LoopInit => LoopInv
  BY LoopInitInv
<1> QED
  BY <1>1, <1>2, PTL

\* The entry that a turn records.
LEMMA EntryFacts ==
    ASSUME NEW v \in {"VERIFIED_COMPLETE", "PARTIALLY_COMPLETE", "FAILED_VERIFICATION"},
           NEW a \in BOOLEAN
    PROVE  EntryOK(Entry(v, a)) /\ Entry(v, a).verdict = v
BY DEF Entry, EntryOK

\* The verdict is one of three, and complete only after a run that passed.
LEMMA VerdictIsTrue ==
    ASSUME LoopInv, NEW full \in Runs, NEW repro, NEW change
    PROVE  LET v == VerifyScopedFix(full, repro, change).verdict
           IN  /\ v \in {"VERIFIED_COMPLETE", "PARTIALLY_COMPLETE", "FAILED_VERIFICATION"}
               /\ v = "VERIFIED_COMPLETE" => suite = Green
<1>1. full.passed => suite = Green
  BY RunFacts
<1> QED
  BY <1>1 DEF VerifyScopedFix

----------------------------------------------------------------------------
(* Every step keeps it.                                                    *)

\* The end of a turn, with an entry that tells the truth.
LEMMA TurnEnds ==
    ASSUME MultiInv, phase = "investigate", phase' = "next",
           NEW e, Record(e), EntryOK(e),
           e.verdict = "VERIFIED_COMPLETE" => current \in green',
           green' = green \/ green' = green \cup {current},
           UNCHANGED <<repo_ids, current, sandboxes, schemas, approvals, opened, status>>
    PROVE  MultiInv'
<1>1. /\ DOMAIN results' = DOMAIN results \cup {current}
      /\ results'[current] = e
      /\ \A r \in DOMAIN results \ {current} : results'[r] = results[r]
  BY DEF Record
<1>2. current \in repo_ids /\ current \notin DOMAIN results
  BY DEF MultiInv, Turns
<1>3. LoopInv' /\ hasParent' \in BOOLEAN
  BY FreshLoop DEF Record
<1>4. MultiTypes'
  BY <1>1, <1>2, <1>3 DEF MultiInv, MultiTypes
<1>5. Turns'
  BY <1>1, <1>2 DEF MultiInv, Turns
<1>6. Entries'
  BY <1>1, <1>2 DEF MultiInv, Entries
<1>7. ProbesTrue' /\ Closings'
  BY DEF MultiInv, ProbesTrue, Closings, NothingProposed
<1> QED
  BY <1>3, <1>4, <1>5, <1>6, <1>7 DEF MultiInv

LEMMA VerifyKeeps ==
    ASSUME MultiInv, Verify
    PROVE  MultiInv'
<1>1. PICK full \in Runs, repro \in Reproductions, lines \in AddedLines(InspectDiff),
           small_scoped \in BOOLEAN :
         LET verdict == VerifyScopedFix(full, repro, InspectDiff)
             review  == ReviewVerdict(ReviewFindings(lines, verdict))
         IN  Record(Entry(verdict.verdict, DecideMergePolicy(review, small_scoped)))
  BY Zenon DEF Verify
<1> DEFINE verdict == VerifyScopedFix(full, repro, InspectDiff)
           v == verdict.verdict
           a == DecideMergePolicy(ReviewVerdict(ReviewFindings(lines, verdict)), small_scoped)
<1>2. /\ v \in {"VERIFIED_COMPLETE", "PARTIALLY_COMPLETE", "FAILED_VERIFICATION"}
      /\ v = "VERIFIED_COMPLETE" => suite = Green
  BY VerdictIsTrue DEF MultiInv
<1>3. a \in BOOLEAN
  BY Zenon DEF DecideMergePolicy
<1> HIDE DEF v, a
<1>4. EntryOK(Entry(v, a)) /\ Entry(v, a).verdict = v
  BY <1>2, <1>3, EntryFacts
<1>5. /\ phase = "investigate" /\ phase' = "next"
      /\ green' = IF suite = Green THEN green \cup {current} ELSE green
      /\ UNCHANGED <<repo_ids, current, sandboxes, schemas, approvals, opened, status>>
  BY DEF Verify
<1>6. Record(Entry(v, a))
  BY <1>1 DEF v, a
<1> QED
  BY <1>2, <1>4, <1>5, <1>6, TurnEnds

LEMMA EarlyStepsKeep ==
    ASSUME MultiInv, Identify \/ Provision \/ Investigate \/ Raise \/ NotDone
    PROVE  MultiInv'
<1>1. CASE Identify
  <2>1. LoopInv'
    BY <1>1, LoopNextInv DEF Identify, MultiInv
  <2>2. /\ phase = "identify" /\ phase' = "next" /\ repo_ids' \subseteq Repos
        /\ UNCHANGED <<hasParent, current, sandboxes, results, schemas, approvals, opened,
                       status, green, shape>>
    BY <1>1 DEF Identify
  <2>3. repo_ids = {} /\ sandboxes = {} /\ DOMAIN results = {}
    BY <2>2 DEF MultiInv, Turns, MultiTypes
  <2> QED
    BY <2>1, <2>2, <2>3 DEF MultiInv, MultiTypes, Turns, Entries, ProbesTrue, Closings,
       NothingProposed
<1>2. CASE Provision
  <2>1. LoopInv'
    BY <1>2, LoopNextInv DEF Provision, MultiInv
  <2>2. /\ phase = "next" /\ phase' = "investigate" /\ current' = Min(Remaining)
        /\ Remaining # {} /\ sandboxes' = sandboxes \cup {current'}
        /\ UNCHANGED <<hasParent, repo_ids, results, schemas, approvals, opened, status,
                       green, shape>>
    BY <1>2 DEF Provision
  <2>3. Remaining \subseteq Nat /\ Remaining \subseteq Repos
    <3>1. Repos \subseteq Nat
      BY MultiRepoAssumption DEF Repos
    <3>2. Remaining \subseteq Repos
      BY DEF MultiInv, MultiTypes, Remaining
    <3> QED
      BY <3>1, <3>2
  <2>4. current' \in Remaining
    BY <2>2, <2>3, MinMember
  <2> QED
    BY <2>1, <2>2, <2>3, <2>4 DEF MultiInv, MultiTypes, Turns, Entries, ProbesTrue, Closings,
       NothingProposed, Remaining
<1>3. CASE Investigate
  <2>1. LoopInv'
    BY <1>3, LoopNextInv DEF Investigate, MultiInv
  <2>2. phase = "investigate" /\ UNCHANGED <<hasParent, runVars>>
    BY <1>3 DEF Investigate
  <2> QED
    BY <2>1, <2>2 DEF MultiInv, MultiTypes, Turns, Entries, ProbesTrue, Closings,
       NothingProposed, runVars
<1>4. CASE Raise
  <2>1. LoopInv'
    BY <1>4, LoopNextInv DEF Raise, MultiInv
  <2>2. /\ phase = "investigate" /\ phase' = "raised"
        /\ UNCHANGED <<hasParent, repo_ids, current, sandboxes, results, schemas, approvals,
                       opened, status, green, shape>>
    BY <1>4 DEF Raise
  <2> QED
    BY <2>1, <2>2 DEF MultiInv, MultiTypes, Turns, Entries, ProbesTrue, Closings,
       NothingProposed
<1>5. CASE NotDone
  <2> DEFINE e == Entry("FAILED_VERIFICATION", FALSE)
  <2>1. EntryOK(e) /\ e.verdict = "FAILED_VERIFICATION"
    BY EntryFacts
  <2>2. /\ phase = "investigate" /\ phase' = "next" /\ Record(e) /\ green' = green
        /\ UNCHANGED <<repo_ids, current, sandboxes, schemas, approvals, opened, status>>
    BY <1>5 DEF NotDone
  <2> HIDE DEF e
  <2> QED
    BY <2>1, <2>2, TurnEnds
<1> QED
  BY <1>1, <1>2, <1>3, <1>4, <1>5

LEMMA ProbeKeeps ==
    ASSUME MultiInv, Probe
    PROVE  MultiInv'
<1>1. LoopInv'
  BY LoopNextInv DEF Probe, MultiInv
<1>2. /\ phase = "next" /\ phase' = "probed" /\ Remaining = {}
      /\ shape' \in [repo_ids -> Shapes \cup {NoShape}]
      /\ UNCHANGED <<hasParent, repo_ids, current, sandboxes, results, approvals, opened,
                     status, green>>
  BY DEF Probe
<1>3. PICK failed \in SUBSET repo_ids :
         schemas' = [r \in repo_ids |-> IF r \in failed THEN NoShape ELSE shape'[r]]
  BY DEF Probe
<1>4. DOMAIN results = repo_ids
  BY <1>2 DEF MultiInv, Turns, Remaining
<1>5. ProbesTrue'
  BY <1>2, <1>3 DEF ProbesTrue
<1>6. MultiTypes' /\ Turns' /\ Entries' /\ Closings'
  BY <1>2, <1>4 DEF MultiInv, MultiTypes, Turns, Entries, Closings, NothingProposed
<1> QED
  BY <1>1, <1>5, <1>6 DEF MultiInv

\* A step that closes the task and leaves what was found of the repositories.
LEMMA ClosingKeeps ==
    ASSUME MultiInv, phase = "probed", CleanUp,
           UNCHANGED <<loopVars, hasParent, repo_ids, current, results, schemas, green, shape>>,
           Merged' \/ Waiting' \/ GivenUp'
    PROVE  MultiInv'
<1>1. LoopInv'
  BY LoopNextInv DEF MultiInv
<1>2. phase' = "closed" /\ sandboxes' = {}
  BY DEF CleanUp
<1> QED
  BY <1>1, <1>2 DEF MultiInv, MultiTypes, Turns, Entries, ProbesTrue, Closings

LEMMA ClosingStepsKeep ==
    ASSUME MultiInv, AutoMerge \/ RequestApprovals \/ Incomplete
    PROVE  MultiInv'
<1>1. /\ phase = "probed" /\ CleanUp
      /\ UNCHANGED <<loopVars, hasParent, repo_ids, current, results, schemas, green, shape>>
  BY DEF AutoMerge, RequestApprovals, Incomplete
<1>2. DOMAIN results = repo_ids /\ NothingProposed
  BY <1>1 DEF MultiInv, Turns, Closings
<1>3. /\ AllVerified => AllVerified'
      /\ ContractOk => ContractOk'
      /\ \A r : (Safe(r) <=> Safe(r)') /\ (Verified(r) <=> Verified(r)')
  BY <1>1 DEF AllVerified, ContractOk, Safe, Verified
<1>4. CASE AutoMerge
  BY <1>1, <1>2, <1>3, <1>4, ClosingKeeps DEF AutoMerge, Merged
<1>5. CASE RequestApprovals
  <2>1. /\ status' = "APPROVAL_REQUIRED" /\ opened' = opened
        /\ approvals' = [r \in {q \in DOMAIN results : ~Safe(q)} |-> "None"]
        /\ AllVerified /\ ContractOk
        /\ \E r \in DOMAIN results : ~Safe(r)
    BY <1>5 DEF RequestApprovals
  <2>2. /\ DOMAIN approvals' = {q \in DOMAIN results : ~Safe(q)}
        /\ \A r \in DOMAIN approvals' : approvals'[r] = "None" /\ ~Safe(r)'
    BY <1>3, <2>1
  <2>3. Waiting'
    BY <1>1, <1>2, <1>3, <2>1, <2>2 DEF Waiting, NothingProposed
  <2> QED
    BY <1>1, <2>3, ClosingKeeps
<1>6. CASE Incomplete
  <2>1. /\ status' = IF \E r \in DOMAIN results : Verified(r) THEN "PARTIALLY_COMPLETE"
                      ELSE "FAILED_VERIFICATION"
        /\ opened' = opened /\ approvals' = approvals
    BY <1>6 DEF Incomplete
  <2>2. GivenUp'
    BY <1>1, <1>2, <1>3, <2>1 DEF GivenUp, NothingProposed
  <2> QED
    BY <1>1, <2>2, ClosingKeeps
<1> QED
  BY <1>4, <1>5, <1>6

LEMMA MultiNextInv == MultiInv /\ [Next]_vars => MultiInv'
<1> SUFFICES ASSUME MultiInv, [Next]_vars PROVE MultiInv'
  OBVIOUS
<1>1. CASE Next
  BY <1>1, EarlyStepsKeep, VerifyKeeps, ProbeKeeps, ClosingStepsKeep DEF Next
<1>2. CASE UNCHANGED vars
  <2>1. LoopInv'
    BY <1>2, LoopNextInv DEF vars, MultiInv
  <2> QED
    BY <1>2, <2>1 DEF vars, runVars, MultiInv, MultiTypes, Turns, Entries, ProbesTrue, Closings,
       NothingProposed, Merged, Waiting, GivenUp, AllVerified, Verified, ContractOk, Safe
<1> QED
  BY <1>1, <1>2

LEMMA MultiInvariant == Spec => []MultiInv
BY MultiInitInv, MultiNextInv, PTL DEF Spec

----------------------------------------------------------------------------
(* What follows.                                                           *)

\* The gate's answer for a pull request.
LEMMA ProposedFacts ==
    ASSUME MultiInv, opened # {} \/ DOMAIN approvals # {}
    PROVE  phase = "closed" /\ (Merged \/ Waiting)
BY EmptyDomain DEF MultiInv, Closings, GivenUp, NothingProposed

\* When every entry says verified and the probes agree, the files do.
LEMMA VerifiedMeansGreen ==
    ASSUME MultiInv, phase = "closed", AllVerified
    PROVE  repo_ids \subseteq green
BY DEF MultiInv, Turns, Entries, AllVerified, Verified

LEMMA AgreeingProbes ==
    ASSUME MultiInv, phase = "closed", ContractOk
    PROVE  Agree
<1>1. PICK s \in Shapes : Range(schemas) = {s}
  BY DEF ContractOk
<1>2. \A r \in repo_ids : schemas[r] = s
  BY <1>1 DEF Range, MultiInv, ProbesTrue
<1>3. \A r \in repo_ids : shape[r] = s
  BY <1>2, MultiRepoAssumption DEF MultiInv, ProbesTrue
<1> QED
  BY <1>3 DEF Agree

\* TypeOK: the whole task keeps its types.
THEOREM TypeCorrect == Spec => []TypeOK
<1>1. MultiInv => TypeOK
  <2> SUFFICES ASSUME MultiInv PROVE TypeOK
    OBVIOUS
  <2>1. LoopTypeOK
    BY LoopInvImplies DEF MultiInv
  <2>2. \A r \in DOMAIN results : EntryOK(results[r])
    BY DEF MultiInv, Entries
  <2>3. DOMAIN schemas \subseteq repo_ids
    BY DEF MultiInv, ProbesTrue
  <2>4. DOMAIN approvals \subseteq repo_ids /\ opened \subseteq repo_ids /\ status \in Statuses
    BY EmptyDomain DEF MultiInv, Closings, Merged, Waiting, GivenUp, NothingProposed, Statuses
  <2> QED
    BY <2>1, <2>2, <2>3, <2>4 DEF MultiInv, MultiTypes, Turns, TypeOK, EntryOK
<1> QED
  BY <1>1, MultiInvariant, PTL

\* ProposedTogether, of the decision on all_verified and contract_ok (runtime.py
\* 515-517): what is proposed passes everywhere and really agrees.
THEOREM ProposalsAgree == Spec => []ProposedTogether
<1>1. MultiInv => ProposedTogether
  BY ProposedFacts, VerifiedMeansGreen, AgreeingProbes DEF ProposedTogether, Merged, Waiting
<1> QED
  BY <1>1, MultiInvariant, PTL

\* OpenedTogether, of the gate's answers (runtime.py 522-577): all pull requests
\* are opened, or none.
THEOREM AllOpenedOrNone == Spec => []OpenedTogether
<1>1. MultiInv => OpenedTogether
  BY EmptyDomain DEF MultiInv, Closings, Merged, Waiting, GivenUp, NothingProposed, OpenedTogether
<1> QED
  BY <1>1, MultiInvariant, PTL

\* NoneForgotten, of the loop over the repositories with its continue (runtime.py
\* 399-448) and of the clean-up (512-513).
THEOREM NoRepositoryForgotten == Spec => []NoneForgotten
<1>1. MultiInv => NoneForgotten
  BY DEF MultiInv, Turns, NoneForgotten
<1> QED
  BY <1>1, MultiInvariant, PTL

\* StatusTrue, of the status of a closed task (runtime.py 531, 559, 579-583).
THEOREM StatusesTellTheTruth == Spec => []StatusTrue
<1>1. MultiInv => StatusTrue
  <2> SUFFICES ASSUME MultiInv PROVE StatusTrue
    OBVIOUS
  <2>1. CASE phase # "closed"
    BY <2>1 DEF MultiInv, Closings, StatusTrue
  <2>2. CASE phase = "closed" /\ Merged
    <3>1. repo_ids \subseteq green /\ repo_ids # {}
      BY <2>2, VerifiedMeansGreen DEF Merged, MultiInv, ProbesTrue, ContractOk, Range
    <3> QED
      BY <2>2, <3>1 DEF Merged, StatusTrue
  <2>3. CASE phase = "closed" /\ Waiting
    BY <2>3, VerifiedMeansGreen DEF Waiting, StatusTrue
  <2>4. CASE phase = "closed" /\ GivenUp
    BY <2>4 DEF GivenUp, NothingProposed, StatusTrue, MultiInv, Turns, Entries, Verified
  <2> QED
    BY <2>1, <2>2, <2>3, <2>4 DEF MultiInv, Closings
<1> QED
  BY <1>1, MultiInvariant, PTL

----------------------------------------------------------------------------
(* Partial results.                                                        *)

PartialIsCutOff ==
    \A r \in DOMAIN results : results[r].verdict = "PARTIALLY_COMPLETE" => Timeouts

\* An entry that a turn adds.
LEMMA PartialTurn ==
    ASSUME MultiInv, PartialIsCutOff, NEW e, Record(e),
           e.verdict = "PARTIALLY_COMPLETE" => Timeouts
    PROVE  PartialIsCutOff'
<1>1. /\ DOMAIN results' = DOMAIN results \cup {current}
      /\ results'[current] = e
      /\ \A r \in DOMAIN results \ {current} : results'[r] = results[r]
  BY DEF Record
<1> QED
  BY <1>1 DEF PartialIsCutOff

LEMMA PartialVerify ==
    ASSUME MultiInv, PartialIsCutOff, Verify
    PROVE  PartialIsCutOff'
<1>1. PICK full \in Runs, repro \in Reproductions, lines \in AddedLines(InspectDiff),
           small_scoped \in BOOLEAN :
         LET verdict == VerifyScopedFix(full, repro, InspectDiff)
             review  == ReviewVerdict(ReviewFindings(lines, verdict))
         IN  Record(Entry(verdict.verdict, DecideMergePolicy(review, small_scoped)))
  BY Zenon DEF Verify
<1> DEFINE verdict == VerifyScopedFix(full, repro, InspectDiff)
           v == verdict.verdict
           a == DecideMergePolicy(ReviewVerdict(ReviewFindings(lines, verdict)), small_scoped)
<1>2. ASSUME v = "PARTIALLY_COMPLETE" PROVE Timeouts
  <2>1. ~full.passed /\ full.failing \subseteq baseline
    BY <1>2 DEF VerifyScopedFix
  <2> QED
    BY <2>1, CutOffRun DEF MultiInv, Verify
<1>3. Record(Entry(v, a))
  BY <1>1
<1> HIDE DEF v, a
<1>4. Entry(v, a).verdict = v
  BY DEF Entry
<1> QED
  BY <1>2, <1>3, <1>4, PartialTurn

LEMMA PartialNextInv ==
    ASSUME MultiInv, PartialIsCutOff, [Next]_vars
    PROVE  PartialIsCutOff'
<1>1. CASE NotDone
  <2> DEFINE e == Entry("FAILED_VERIFICATION", FALSE)
  <2>1. Record(e) /\ e.verdict # "PARTIALLY_COMPLETE"
    BY <1>1 DEF NotDone, Entry
  <2> HIDE DEF e
  <2> QED
    BY <2>1, PartialTurn
<1>2. CASE ~NotDone /\ ~Verify
  <2>1. results' = results
    BY <1>2 DEF Next, Identify, Provision, Investigate, Raise, Probe, AutoMerge,
       RequestApprovals, Incomplete, vars, runVars
  <2> QED
    BY <2>1 DEF PartialIsCutOff
<1> QED
  BY <1>1, <1>2, PartialVerify

\* The per-repository verdicts of _run_multi_repo_engineering_task (runtime.py
\* 425-448): a partial one, which keeps every repository of the task from being
\* proposed, is given only when the full run of its suite was cut off.
THEOREM PartialResultsAreCutOff == Spec => []PartialIsCutOff
<1>1. Init => PartialIsCutOff
  BY EmptyDomain DEF Init, PartialIsCutOff
<1>2. MultiInv /\ PartialIsCutOff /\ [Next]_vars => PartialIsCutOff'
  BY PartialNextInv
<1> QED
  BY <1>1, <1>2, MultiInvariant, PTL DEF Spec

----------------------------------------------------------------------------
(* Each repository has a turn of its own.                                  *)

\* The turn under way takes a step of the loop, or ends: with an entry for its
\* repository, which had none, and a loop that starts afresh.
EndsTurn ==
    /\ phase = "investigate" /\ pc = "returned"
    /\ LoopStart
    /\ current \notin DOMAIN results
    /\ DOMAIN results' = DOMAIN results \cup {current}

TurnsAreSeparate ==
    /\ \/ phase = "investigate" /\ LoopNext /\ UNCHANGED runVars
       \/ UNCHANGED loopVars /\ UNCHANGED results
       \/ EndsTurn
    /\ \A r \in DOMAIN results : r \in DOMAIN results' /\ results'[r] = results[r]

LEMMA TurnsStep ==
    ASSUME MultiInv, [Next]_vars
    PROVE  TurnsAreSeparate
<1>1. ASSUME NEW e, Record(e), phase = "investigate", pc = "returned" PROVE TurnsAreSeparate
  <2>1. current \notin DOMAIN results
    BY <1>1 DEF MultiInv, Turns
  <2>2. DOMAIN results' = DOMAIN results \cup {current} /\ LoopStart
    BY <1>1 DEF Record
  <2>3. \A r \in DOMAIN results : results'[r] = results[r]
    BY <1>1, <2>1 DEF Record
  <2> QED
    BY <1>1, <2>1, <2>2, <2>3 DEF TurnsAreSeparate, EndsTurn
<1>2. CASE NotDone
  BY <1>1, <1>2 DEF NotDone
<1>3. CASE Verify
  BY <1>1, <1>3 DEF Verify
<1>4. CASE Investigate
  BY <1>4 DEF Investigate, TurnsAreSeparate, runVars
<1>5. CASE UNCHANGED loopVars /\ UNCHANGED results
  BY <1>5 DEF TurnsAreSeparate
<1> QED
  BY <1>2, <1>3, <1>4, <1>5 DEF Next, vars, runVars, Identify, Provision, Raise, Probe,
                                AutoMerge, RequestApprovals, Incomplete

\* "Fix, test, and review each repository independently" (runtime.py 397-448):
\* every turn is a behaviour of the repair loop from its start, a repository
\* has one turn, and nothing later changes the entry it left.
THEOREM TurnsRunTheLoop == Spec => LoopInit /\ [][TurnsAreSeparate]_vars
<1>1. Init => LoopInit
  BY DEF Init
<1>2. MultiInv /\ [Next]_vars => TurnsAreSeparate
  BY TurnsStep
<1> QED
  BY <1>1, <1>2, MultiInvariant, PTL DEF Spec

----------------------------------------------------------------------------
(* Every step uses up one of finitely many.                                *)

\* A turn: the sandbox, the loop, the entry.
TurnSteps == 3 * MaxAttempts + 6

TurnsLeft == Cardinality(Remaining)

TaskRank ==
    CASE phase = "identify"    -> NumRepos * TurnSteps + 3
      [] phase = "next"        -> TurnsLeft * TurnSteps + 2
      [] phase = "investigate" -> (TurnsLeft - 1) * TurnSteps + LoopRank + 3
      [] phase = "probed"      -> 1
      [] OTHER                 -> 0

MaxTaskSteps == NumRepos * TurnSteps + 3

LEMMA TaskRankAt ==
    /\ phase = "identify" => TaskRank = MaxTaskSteps
    /\ phase = "next" => TaskRank = TurnsLeft * TurnSteps + 2
    /\ phase = "investigate" => TaskRank = (TurnsLeft - 1) * TurnSteps + LoopRank + 3
    /\ phase = "probed" => TaskRank = 1
    /\ phase \in {"closed", "raised"} => TaskRank = 0
BY DEF TaskRank, MaxTaskSteps

LEMMA TaskRankAtNext ==
    /\ phase' = "next" => TaskRank' = TurnsLeft' * TurnSteps + 2
    /\ phase' = "investigate" => TaskRank' = (TurnsLeft' - 1) * TurnSteps + LoopRank' + 3
    /\ phase' = "probed" => TaskRank' = 1
    /\ phase' \in {"closed", "raised"} => TaskRank' = 0
BY DEF TaskRank, TurnSteps

\* The arithmetic of turns.
LEMMA OneTurnLess ==
    ASSUME NEW c \in Nat, c > 0, NEW k \in Nat
    PROVE  (c - 1) * k \in Nat /\ (c - 1) * k + k = c * k
OBVIOUS

LEMMA NoMoreTurns ==
    ASSUME NEW c \in Nat, NEW n \in Nat, c <= n, NEW k \in Nat
    PROVE  c * k \in Nat /\ n * k \in Nat /\ c * k <= n * k
<1>1. PICK d \in Nat : n = c + d
  <2>1. n - c \in Nat /\ n = c + (n - c)
    OBVIOUS
  <2> QED
    BY <2>1
<1>2. n * k = c * k + d * k /\ d * k \in Nat /\ c * k \in Nat
  BY <1>1
<1> QED
  BY <1>2

LEMMA TurnStepsType == TurnSteps \in Nat /\ TurnSteps = 3 * MaxAttempts + 6
BY RepairLoopAssumption DEF TurnSteps

\* The repositories that remain are finitely many, and one while there is one.
LEMMA RemainingFacts ==
    ASSUME MultiInv
    PROVE  /\ IsFiniteSet(Remaining)
           /\ TurnsLeft \in Nat /\ TurnsLeft <= NumRepos
           /\ phase = "investigate" => current \in Remaining
           /\ Remaining # {} => TurnsLeft > 0
<1>1. IsFiniteSet(Repos) /\ Cardinality(Repos) = NumRepos
  BY MultiRepoAssumption, FS_Interval DEF Repos
<1>2. Remaining \subseteq Repos
  BY DEF MultiInv, MultiTypes, Remaining
<1>3. IsFiniteSet(Remaining) /\ Cardinality(Remaining) <= NumRepos
  BY <1>1, <1>2, FS_Subset
<1>4. Cardinality(Remaining) \in Nat
  BY <1>3, FS_CardinalityType
<1>5. Remaining # {} => Cardinality(Remaining) # 0
  BY <1>3, FS_EmptySet
<1>6. phase = "investigate" => current \in Remaining
  BY DEF MultiInv, Turns, Remaining
<1> QED
  BY <1>3, <1>4, <1>5, <1>6 DEF TurnsLeft

RemainingCounted == TurnsLeft \in Nat /\ TurnsLeft <= NumRepos

LEMMA RemainingTypes == MultiInv => RemainingCounted
BY RemainingFacts DEF RemainingCounted

LEMMA TaskRankType ==
    ASSUME MultiInv
    PROVE  TaskRank \in 0 .. MaxTaskSteps
<1>1. /\ TurnsLeft \in Nat /\ TurnsLeft <= NumRepos
      /\ phase = "investigate" => TurnsLeft > 0
  BY RemainingFacts
<1>2. /\ TurnsLeft * TurnSteps \in Nat /\ NumRepos * TurnSteps \in Nat
      /\ TurnsLeft * TurnSteps <= NumRepos * TurnSteps
  BY <1>1, TurnStepsType, MultiRepoAssumption, NoMoreTurns
<1>3. phase \in {"identify", "next", "investigate", "probed", "closed", "raised"}
  BY DEF MultiInv, MultiTypes
<1>4. CASE phase = "investigate"
  <2>1. /\ (TurnsLeft - 1) * TurnSteps \in Nat
        /\ (TurnsLeft - 1) * TurnSteps + TurnSteps = TurnsLeft * TurnSteps
    BY <1>1, <1>4, TurnStepsType, OneTurnLess
  <2>2. LoopRank \in 0 .. 3 * MaxAttempts + 4
    BY LoopRankType DEF MultiInv
  <2> QED
    BY <1>2, <1>4, <2>1, <2>2, TurnStepsType, TaskRankAt, RepairLoopAssumption DEF MaxTaskSteps
<1>5. CASE phase # "investigate"
  BY <1>2, <1>3, <1>5, TaskRankAt DEF MaxTaskSteps
<1> QED
  BY <1>4, <1>5

\* The end of a turn takes its repository from those that remain.
LEMMA TurnsFall ==
    ASSUME MultiInv, phase = "investigate", NEW e, Record(e), repo_ids' = repo_ids
    PROVE  TurnsLeft' = TurnsLeft - 1
<1>1. current \in Remaining /\ IsFiniteSet(Remaining)
  BY RemainingFacts
<1>2. Remaining' = Remaining \ {current}
  BY DEF Record, Remaining
<1>3. Cardinality(Remaining \ {current}) = Cardinality(Remaining) - 1
  BY <1>1, FS_RemoveElement
<1> QED
  BY <1>2, <1>3 DEF TurnsLeft

LEMMA TurnRankFalls ==
    ASSUME MultiInv, NotDone \/ Verify
    PROVE  TaskRank' < TaskRank
<1>1. phase = "investigate" /\ phase' = "next" /\ repo_ids' = repo_ids
  BY DEF NotDone, Verify
<1>2. \E e : Record(e)
  <2>1. CASE NotDone
    BY <2>1, Zenon DEF NotDone
  <2>2. CASE Verify
    BY <2>2, Zenon DEF Verify
  <2> QED
    BY <2>1, <2>2
<1>3. TurnsLeft' = TurnsLeft - 1
  BY <1>1, <1>2, TurnsFall
<1>4. TaskRank' = (TurnsLeft - 1) * TurnSteps + 2
  BY <1>1, <1>3, TaskRankAtNext
<1>5. TaskRank = (TurnsLeft - 1) * TurnSteps + LoopRank + 3
  BY <1>1, TaskRankAt
<1>6. LoopRank \in Nat /\ (TurnsLeft - 1) * TurnSteps \in Nat
  <2>1. TurnsLeft \in Nat /\ TurnsLeft > 0
    BY <1>1, RemainingFacts
  <2>2. LoopRank \in 0 .. 3 * MaxAttempts + 4
    BY LoopRankType DEF MultiInv
  <2> QED
    BY <2>1, <2>2, OneTurnLess, TurnStepsType, RepairLoopAssumption
<1> QED
  BY <1>4, <1>5, <1>6

LoopCounted == LoopRank \in 0 .. 3 * MaxAttempts + 4

LEMMA LoopTypes == LoopInv => LoopCounted
BY LoopRankType DEF LoopCounted

LEMMA LoopTurnFalls ==
    ASSUME MultiInv, Investigate
    PROVE  TaskRank' < TaskRank
<1>1. phase = "investigate" /\ phase' = "investigate" /\ LoopNext
  BY DEF Investigate, runVars
<1>2. LoopRank' < LoopRank
  BY <1>1, LoopRankFalls DEF MultiInv
<1>3. TurnsLeft' = TurnsLeft
  BY DEF Investigate, runVars, TurnsLeft, Remaining
<1>4. /\ TaskRank = (TurnsLeft - 1) * TurnSteps + LoopRank + 3
      /\ TaskRank' = (TurnsLeft - 1) * TurnSteps + LoopRank' + 3
  BY <1>1, <1>3, TaskRankAt, TaskRankAtNext
<1>5. LoopRank \in 0 .. 3 * MaxAttempts + 4
  BY LoopRankType DEF MultiInv
<1>6. LoopCounted'
  <2>1. LoopInv'
    BY MultiNextInv DEF MultiInv, Next
  <2> QED
    BY <2>1, LoopTypes, PTL
<1>7. (TurnsLeft - 1) * TurnSteps \in Nat
  BY <1>1, RemainingFacts, OneTurnLess, TurnStepsType
<1> QED
  BY <1>2, <1>4, <1>5, <1>6, <1>7, RepairLoopAssumption DEF LoopCounted

LEMMA ProvisionFalls ==
    ASSUME MultiInv, Provision
    PROVE  TaskRank' < TaskRank
<1>1. /\ phase = "next" /\ phase' = "investigate" /\ Remaining # {}
      /\ UNCHANGED <<repo_ids, results, loopVars>>
  BY DEF Provision
<1>2. TurnsLeft' = TurnsLeft /\ LoopRank' = LoopRank
  BY <1>1 DEF TurnsLeft, Remaining, loopVars, LoopRank
<1>3. TurnsLeft \in Nat /\ TurnsLeft > 0
  BY <1>1, RemainingFacts
<1>4. /\ (TurnsLeft - 1) * TurnSteps \in Nat
      /\ (TurnsLeft - 1) * TurnSteps + TurnSteps = TurnsLeft * TurnSteps
  BY <1>3, TurnStepsType, OneTurnLess
<1>5. LoopRank \in 0 .. 3 * MaxAttempts + 4
  BY LoopRankType DEF MultiInv
<1>6. /\ TaskRank = TurnsLeft * TurnSteps + 2
      /\ TaskRank' = (TurnsLeft - 1) * TurnSteps + LoopRank + 3
  BY <1>1, <1>2, TaskRankAt, TaskRankAtNext
<1> QED
  BY <1>4, <1>5, <1>6, TurnStepsType, RepairLoopAssumption

LEMMA OtherRanksFall ==
    ASSUME MultiInv, Identify \/ Raise \/ Probe \/ AutoMerge \/ RequestApprovals \/ Incomplete
    PROVE  TaskRank' < TaskRank
<1>1. MultiInv'
  BY MultiNextInv DEF Next
<1>2. CASE Identify
  <2>1. phase = "identify" /\ phase' = "next"
    BY <1>2 DEF Identify
  <2>2. TurnsLeft' \in Nat /\ TurnsLeft' <= NumRepos
    <3>1. RemainingCounted'
      BY <1>1, RemainingTypes, PTL
    <3> QED
      BY <3>1 DEF RemainingCounted
  <2>3. /\ TurnsLeft' * TurnSteps \in Nat /\ NumRepos * TurnSteps \in Nat
        /\ TurnsLeft' * TurnSteps <= NumRepos * TurnSteps
    BY <2>2, TurnStepsType, MultiRepoAssumption, NoMoreTurns
  <2> QED
    BY <2>1, <2>3, TaskRankAt, TaskRankAtNext DEF MaxTaskSteps
<1>3. CASE Raise
  <2>1. phase = "investigate" /\ phase' = "raised"
    BY <1>3 DEF Raise
  <2>2. LoopRank \in 0 .. 3 * MaxAttempts + 4
    BY LoopRankType DEF MultiInv
  <2>3. (TurnsLeft - 1) * TurnSteps \in Nat
    BY <2>1, RemainingFacts, OneTurnLess, TurnStepsType
  <2> QED
    BY <2>1, <2>2, <2>3, TaskRankAt, TaskRankAtNext, RepairLoopAssumption
<1>4. CASE Probe
  <2>1. phase = "next" /\ phase' = "probed"
    BY <1>4 DEF Probe
  <2>2. TurnsLeft * TurnSteps \in Nat
    BY RemainingFacts, TurnStepsType, NoMoreTurns
  <2> QED
    BY <2>1, <2>2, TaskRankAt, TaskRankAtNext
<1>5. CASE AutoMerge \/ RequestApprovals \/ Incomplete
  <2>1. phase = "probed" /\ phase' = "closed"
    BY <1>5 DEF AutoMerge, RequestApprovals, Incomplete, CleanUp
  <2> QED
    BY <2>1, TaskRankAt, TaskRankAtNext
<1> QED
  BY <1>2, <1>3, <1>4, <1>5

\* The bound on the steps of _run_multi_repo_engineering_task and its loops
\* (runtime.py 371-590, general_loop.py 267-551): a task has at most MaxTaskSteps
\* steps ahead of it, for any number of repositories, and each one uses up at
\* least one, so that no repository's turn comes twice.
THEOREM StepsAreCounted ==
    Spec => [](TaskRank \in 0 .. MaxTaskSteps) /\ [][TaskRank' < TaskRank]_vars
<1>1. MultiInv => TaskRank \in 0 .. MaxTaskSteps
  BY TaskRankType
<1>2. MultiInv /\ [Next]_vars => [TaskRank' < TaskRank]_vars
  BY TurnRankFalls, LoopTurnFalls, ProvisionFalls, OtherRanksFall DEF Next
<1> QED
  BY <1>1, <1>2, MultiInvariant, PTL DEF Spec

=============================================================================

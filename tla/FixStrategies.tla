---------------------------- MODULE FixStrategies ----------------------------
(***************************************************************************)
(* What the repair loop edits: the four strategies of                      *)
(* agent/general_loop.py, from what agent/failure_analysis.py finds out    *)
(* about a failing test.                                                   *)
(*                                                                         *)
(* A module of the repository has one number at module level and one       *)
(* function; its code is the number's value, how many " - 1" or " + 1"     *)
(* stand in the function, the keys of the dictionary it returns, whether   *)
(* it is guarded against a repeated call, and whether the text that an     *)
(* edit replaces occurs once.  A test asserts one of the four, uses some   *)
(* of the names that it imports, from some files, and may say its bounds   *)
(* when it fails.                                                          *)
(* Numbers are natural, bounds whole; the function has a parameter, one    *)
(* call that changes something, and a truth value in its dictionary.       *)
(***************************************************************************)
EXTENDS Integers, FiniteSets, FiniteSetsExt

CONSTANTS
    Modules,
    MaxValue   \* a bound on the numbers: every larger one is taken for it

ASSUME FixStrategiesAssumption == MaxValue \in Nat /\ IsFiniteSet(Modules)

Kinds   == {"range", "boundary", "shape", "repeat"}
Symbols == Modules \X {"constant", "function"}

Codes == [value : 0 .. MaxValue, adjustments : Nat, keys : {"own", "contract"}, guarded : BOOLEAN,
          once : BOOLEAN]

Passes(test, code) ==
    LET c == code[test.module] IN
    CASE test.kind = "range"    -> test.lo <= c.value /\ c.value <= test.hi
      [] test.kind = "boundary" -> c.adjustments = test.need
      [] test.kind = "shape"    -> c.keys = "contract"
      [] test.kind = "repeat"   -> c.guarded

\* The symbol that a test asserts something of.
Tested(test) == <<test.module, IF test.kind = "range" THEN "constant" ELSE "function">>

NoBound == [module |-> "none"]

\* An edit: the module, its code afterwards, and the bound to remember.
Proposal(m, new, bound) == [module |-> m, new |-> new, bound |-> bound]

\* Five hundredths of the span, at most fifty, below the upper bound, without
\* the fraction.
WithinByFifty(lo, hi) == hi - 50

Within(lo, hi) ==
    LET span == IF hi > lo THEN hi - lo ELSE 1
    IN  (100 * hi - Min({5000, 5 * span})) \div 100

\* Without a bound in the message, something much larger.
Guess(value) == Min({MaxValue, IF value = 0 THEN 5000 ELSE 25 * value})

NumericBound(test, code, m) ==
    {IF test.says THEN Proposal(m, [code[m] EXCEPT !.value = Within(test.lo, test.hi)],
                                [module |-> m, lo |-> test.lo, hi |-> test.hi])
                  ELSE Proposal(m, [code[m] EXCEPT !.value = Guess(@)], NoBound) :
        s \in test.uses \cap {<<m, "constant">>}}

\* The three others edit a function that the test uses.
EditOf(test, code, m, applies, new) ==
    IF <<m, "function">> \in test.uses /\ applies THEN {Proposal(m, new, NoBound)} ELSE {}

OffByOne(test, code, m) ==
    EditOf(test, code, m, code[m].adjustments > 0, [code[m] EXCEPT !.adjustments = @ - 1])

\* The first dictionary that a guarded function returns is that of a repeated
\* call: the other one keeps its keys.
ShapeMismatch(test, code, m) ==
    EditOf(test, code, m, test.kind = "shape",
           [code[m] EXCEPT !.keys = IF code[m].guarded THEN @ ELSE "contract"])

IdempotencyGuard(test, code, m) ==
    EditOf(test, code, m, test.kind = "repeat" /\ test.module = m /\ ~code[m].guarded,
           [code[m] EXCEPT !.guarded = TRUE])

\* In one file the first strategy that matches proposes the edit.
Otherwise(S, T) == IF S # {} THEN S ELSE T

ProposalsFor(test, code, m) ==
    Otherwise(NumericBound(test, code, m),
    Otherwise(OffByOne(test, code, m),
    Otherwise(ShapeMismatch(test, code, m), IdempotencyGuard(test, code, m))))

\* The files that a test uses are tried in turn: those of the names it uses, in
\* the order of a Python set, which is any order and the same at each attempt.
FirstOf(files, S) ==
    LET found == {n \in DOMAIN files : files[n] \in S}
    IN  IF found = {} THEN {} ELSE {files[Min(found)]}

Proposals(test, code) ==
    UNION {ProposalsFor(test, code, m) :
              m \in FirstOf(test.files, {k \in Modules : ProposalsFor(test, code, k) # {}})}

Revisions(test, code) ==
    UNION {NumericBound(test, code, m) :
              m \in FirstOf(test.files, {k \in Modules : <<k, "constant">> \in test.uses})}

=============================================================================

--------------------------- MODULE MCGuidedRepair ---------------------------
(***************************************************************************)
(* Small repositories for GuidedRepair.                                    *)
(***************************************************************************)
EXTENDS GuidedRepair, TLC

CONSTANTS a, b

\* Bounds that are said, wide, narrow or empty, or not said and open upwards.
Ranges ==
    {[lo |-> 6, hi |-> 1400, says |-> TRUE], [lo |-> 9, hi |-> 10, says |-> TRUE],
     [lo |-> 9, hi |-> 9, says |-> TRUE], [lo |-> 6, hi |-> MaxValue, says |-> FALSE]}

NoRange == [lo |-> 0, hi |-> 0, says |-> FALSE]

Test(kind, m, range, need, uses, files) ==
    [kind |-> kind, module |-> m, lo |-> range.lo, hi |-> range.hi, says |-> range.says,
     need |-> need, uses |-> uses, files |-> files]

Asserting(m, uses, files) ==
    {Test("range", m, r, 0, uses, files) : r \in Ranges}
    \cup {Test("boundary", m, NoRange, need, uses, files) : need \in {0, 1}}
    \cup {Test(kind, m, NoRange, 0, uses, files) : kind \in {"shape", "repeat"}}

\* A test uses just what it asserts, everything in its module, both numbers, or
\* nothing by name.
Uses == {{<<a, "constant">>}, {<<a, "function">>}, {<<a, "constant">>, <<a, "function">>},
         {<<a, "constant">>, <<b, "constant">>}, {<<b, "constant">>}, {<<b, "function">>}}

MCTests ==
    {t \in UNION {Asserting(m, u, f) : m \in {a, b}, u \in Uses,
                                       f \in {<<a>>, <<b>>, <<a, b>>, <<b, a>>}} :
        Tested(t) \in t.uses /\ {t.files[n] : n \in DOMAIN t.files} = {symbol[1] : symbol \in t.uses}}
    \cup {Test("shape", a, NoRange, 0, {}, <<>>)}

MCSuites == [1 .. NumTests -> MCTests]

\* Module a: a number that is nothing, too small or right; an adjustment or
\* two, or none.  In b, the function may be guarded from the start and the text
\* to replace may occur twice.
MCRepositories ==
    LET own(v, n, g, o) == [value |-> v, adjustments |-> n, keys |-> "own", guarded |-> g,
                            once |-> o]
    IN  {(a :> own(v, n, FALSE, TRUE)) @@ (b :> own(1, 0, g, o)) :
            v \in {0, 1, 7}, n \in 0 .. 2, g \in BOOLEAN, o \in BOOLEAN}
=============================================================================

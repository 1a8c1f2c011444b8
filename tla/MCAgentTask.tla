--------------------------- MODULE MCAgentTask ---------------------------
(***************************************************************************)
(* Small instances of AgentTask for TLC.                                   *)
(***************************************************************************)
EXTENDS AgentTask

\* A seed that draws five deployments and has a PR-118; one that draws the
\* deployment of the regression twice; one that shares ids with each of them and
\* has no PR-118.
Seed(deployments, prs, offset) ==
    [deployments |-> deployments, prs |-> prs, offset |-> offset]

MCSeeds == {Seed(<<10, 11, 12, 13, 14>>, <<115, 116, 118, 121, 122>>, 0),
            Seed(<<20, 21, 21, 23, 24>>, <<115, 116, 118, 121, 122>>, 1),
            Seed(<<11, 10, 12, 98, 99>>, <<119, 120, 123, 124, 125>>, 1)}

MCFocuses == {<<"Incident", 400>>, <<"Incident", 401>>, Checkout, <<"Message", 4>>,
              <<"thread", 2>>}

Text(question, action, several, names) ==
    [ticket |-> NoEntity, question |-> question, action |-> action, multi |-> several,
     names |-> names]

MCObjectives ==
    {[ticket |-> <<"Ticket", n>>] : n \in {1000, 2000, 2001, 3000}} \cup
    {Text(TRUE, FALSE, FALSE, {}), Text(TRUE, TRUE, FALSE, {Payment, Checkout}),
     Text(FALSE, FALSE, TRUE, {})}

==========================================================================

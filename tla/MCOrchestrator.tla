--------------------------- MODULE MCOrchestrator ---------------------------
(* Instances of Orchestrator for TLC. *)
EXTENDS Orchestrator

CONSTANTS p, q, x, y, a, b, c, some

\* p first offers one tool and later both; q offers one that p may have too.
MCManuals ==
  { [provider |-> p, tools |-> {x}],
    [provider |-> p, tools |-> {x, y}],
    [provider |-> q, tools |-> {y}] }

\* Two calls of one tool and one of the other.
MCToolOf == [k \in Calls |-> IF k = c THEN y ELSE x]

\* The tool y of q takes other arguments than the tool y of p.
MCMisfits == { <<c, [provider |-> q, tools |-> {y}]>> }

\* The tool y may answer None.
MCMayGive == [k \in Calls |-> IF k = c THEN {some, Null} ELSE {some}]

MCPlan == <<a, c>>
=============================================================================

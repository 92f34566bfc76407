------------------------------ MODULE MCFindPlans ------------------------------
(* Six plans: p1 has the operators of p2 but one, p3, p4 and p5 are          *)
(* reorderings of each other.  All costs up to MaxCost that this allows.     *)
EXTENDS FindPlans

CONSTANTS p1, p2, p3, p4, p5, p6, MaxCost

MCPlan == {p1, p2, p3, p4, p5, p6}
MCCosts == {c \in [MCPlan -> 0 .. MaxCost] :
                c[p1] <= c[p2] /\ c[p3] = c[p4] /\ c[p4] = c[p5]}
MCLength == [p \in MCPlan |-> IF p = p1 THEN 1 ELSE 2]
MCReorderings == [p \in MCPlan |->
    IF p \in {p3, p4, p5} THEN {p3, p4, p5} ELSE {p}]

(* A multiset reformulation excludes the reorderings and the submultisets. *)
MCForbiddenBy == [p \in MCPlan |->
    MCReorderings[p] \cup (IF p = p2 THEN {p1} ELSE {})]

NoFilesLeft == {<<>>}

Quality(planner, halves) ==
    [planner |-> planner, number_of_plans |-> 0, quality_bound |-> halves]
Number(planner, k) ==
    [planner |-> planner, number_of_plans |-> k, quality_bound |-> 0]

NumberWithin(planner, k, halves) ==
    [planner |-> planner, number_of_plans |-> k, quality_bound |-> halves]

TopK == {Number("topk", 4), NumberWithin("topk", 4, 3)}
TopKExtending == {Number("topk_via_unordered_topq", 5)}
TopQuality == {Quality("unordered_topq", 3), NumberWithin("unordered_topq", 2, 3)}
TopQualityViaTopK == {Quality("topq_via_topk", 4)}
TopQualityExtending == {Quality("topq_via_unordered_topq", 3)}

MCArguments == TopK \cup TopKExtending \cup TopQuality \cup TopQualityViaTopK
                    \cup TopQualityExtending
===============================================================================

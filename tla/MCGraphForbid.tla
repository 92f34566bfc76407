------------------------------ MODULE MCGraphForbid ------------------------------
(* Every graph over two nodes (any partial edge function for two of the       *)
(* three operators, the third one removed or never added), and one larger     *)
(* graph with a branch and a join.                                            *)
EXTENDS GraphForbid

CONSTANTS a, b, c, n1, n2, n3, n4

MCOp == {a, b, c}
MCNode == {n1, n2, n3, n4}
MCState == 0 .. 2
MCGoal == {2}
MCSucc == [p \in (MCState \X {a, b}) \cup {<<0, c>>} |->
              CASE p[2] = a -> (p[1] + 1) % 3
                [] p[2] = b -> (p[1] + 2) % 3
                [] OTHER -> 2]

Graph(edge, ops) ==
    [init |-> n1, edge |-> edge,
     origins |-> [o \in ops |-> {n \in MCNode : <<n, o>> \in DOMAIN edge}]]

SmallGraphs ==
    UNION {{Graph(edge, {e[2] : e \in d} \cup removed) :
                edge \in [d -> {n1, n2}], removed \in {{}, {c}}} :
            d \in SUBSET ({n1, n2} \X {a, b})}

Diamond == Graph([e \in {<<n1, a>>, <<n1, b>>, <<n2, b>>, <<n3, a>>} |->
                    CASE e = <<n1, a>> -> n2
                      [] e = <<n1, b>> -> n3
                      [] OTHER -> n4], {a, b})

MCInputGraphs == SmallGraphs \cup {Diamond}
==================================================================================

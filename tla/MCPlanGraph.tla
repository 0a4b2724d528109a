---------------------------- MODULE MCPlanGraph ----------------------------
(* Plans of three nodes out of five names: a source a, a template or writer *)
(* t, the id t.0 that t's first child would take, the pattern t.*, which a  *)
(* plan may also use as a template's id, and a last node z. A node has up   *)
(* to two dependencies on the plan's names and on t.*, itself included, so  *)
(* that some dangle, some close a cycle, and some only look as if. The      *)
(* sixth name is that of the first child of t.*.                            *)
EXTENDS PlanGraph

Six == {"a", "t", "t.0", "t.*", "t.*.0", "z"}
Stars == [d \in {"t.*"} |-> "t"]
Children == [n \in {"t", "t.*"} |-> <<IF n = "t" THEN "t.0" ELSE "t.*.0">>]

Shapes(n) ==
  CASE n = "a"   -> {<<"Explore", FALSE>>, <<"Analyse", FALSE>>}
    [] n = "t"   -> {<<"Write", TRUE>>, <<"Write", FALSE>>}
    [] n = "t.*" -> {<<"Write", TRUE>>}
    [] n = "t.0" -> {<<"Write", FALSE>>}
    [] n = "z"   -> {<<"Gate", FALSE>>, <<"Verify", FALSE>>}

NodesOf(n, ids) ==
  {[op |-> s[1], template |-> s[2], deps |-> ds] :
     s \in Shapes(n), ds \in {d \in SUBSET (ids \cup {"t.*"}) : Cardinality(d) <= 2}}

PlansOver(ids) ==
  FoldSet(LAMBDA n, plans : {[m \in DOMAIN p \cup {n} |-> IF m = n THEN node ELSE p[m]] :
                               p \in plans, node \in NodesOf(n, ids)},
          {None}, ids)

Plans == PlansOver({"a", "t", "z"}) \cup PlansOver({"a", "t", "t.0"})
           \cup PlansOver({"a", "t.*", "z"}) \cup PlansOver({"t", "t.*", "z"})
TwoOrFour == {2, 4}
=============================================================================

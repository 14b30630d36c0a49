------------------------------ MODULE Dominators ------------------------------
(***************************************************************************)
(* ir_func_compute_dominators (src/src/middleend/ir_analysis.c): immediate *)
(* dominators by the iterative algorithm over the reverse postorder, and   *)
(* dominance frontiers.                                                    *)
(***************************************************************************)
EXTENDS IR

\* ir_dfs_postorder: s holds the blocks seen and those finished, in order.
RECURSIVE Dfs(_, _, _)
Dfs(f, s, b) ==
    LET seen == [s EXCEPT !.seen = @ \cup {b}]
        t == FoldLeft(LAMBDA u, c : Dfs(f, u, c), seen, Succs(f, b))
    IN  IF b \in s.seen THEN s ELSE [t EXCEPT !.post = Append(@, b)]
Rpo(f) == Reverse(Dfs(f, [seen |-> {}, post |-> <<>>], Entry(f)).post)
RpoNum(rpo) == [b \in ToSet(rpo) |-> CHOOSE k \in DOMAIN rpo : rpo[k] = b]

NoBlock == 0

\* Up the tree d from both, always from the one further from the entry.
IntersectOneSided(d, num, a, b) == a
RECURSIVE Intersect(_, _, _, _)
Intersect(d, num, a, b) ==
    CASE a = b -> a
      [] a # b /\ num[a] > num[b] -> Intersect(d, num, d[a], b)
      [] OTHER -> Intersect(d, num, a, d[b])
Meet(d, num, a, b) == Intersect(d, num, a, b)

\* The new dominator of b; predecessors without one yet do not count.
NewIDom(f, d, num, b) ==
    LET known == {p \in Preds(f, b) : d[p] # NoBlock}
        Nearest(p, a) == IF a = NoBlock THEN p ELSE Meet(d, num, p, a)
    IN  FoldSet(Nearest, NoBlock, known)

RECURSIVE DomSweeps(_, _, _)
DomSweeps(f, d, rpo) ==
    LET Visit(e, b) ==
            LET new == NewIDom(f, e, RpoNum(rpo), b)
            IN  IF new = NoBlock THEN e ELSE [e EXCEPT ![b] = new]
        e == FoldLeft(Visit, d, Tail(rpo))
    IN  IF e = d THEN d ELSE DomSweeps(f, e, rpo)

\* idom of every block; the entry is its own, unreachable blocks have none.
IDoms(f) ==
    DomSweeps(f, [b \in Blocks(f) |-> IF b = Entry(f) THEN b ELSE NoBlock], Rpo(f))

\* What the result must be: the strict dominator that all others dominate.
ImmediateDominator(f, b) ==
    CHOOSE a \in Reachable(f) \ {b} :
        /\ Dominates(f, a, b)
        /\ \A c \in Reachable(f) \ {b} : Dominates(f, c, b) => Dominates(f, c, a)

\* Blocks reached from below b where b stops dominating.
Frontier(f, b) ==
    {y \in Reachable(f) :
        /\ Cardinality(PredEdges(f, y)) >= 2
        /\ \E p \in Preds(f, y) : Dominates(f, b, p)
        /\ ~(b # y /\ Dominates(f, b, y))}
=============================================================================

------------------------------ MODULE MCOutSSA ------------------------------
(***************************************************************************)
(* Control-flow graphs with the edges the pass has to treat specially: a   *)
(* critical edge into a join, a back edge from the block itself (branching *)
(* and not), a BR_COND with two equal targets, an irreducible loop; on     *)
(* each, all choices of what the phis read on each edge.  And an edge with *)
(* every list of copies over all the registers, in one order of the        *)
(* destinations: the others are renamings of it.                           *)
(***************************************************************************)
EXTENDS OutSSA

MCVal == 0 .. NumRegs
Regs == {RegSrc(r) : r \in 0 .. 2}
Sources == Regs \cup {ConstSrc(NumRegs)}
AllSources == {RegSrc(r) : r \in Reg} \cup {ConstSrc(NumRegs)}

\* All lists of phis with the given destinations over the predecessors ps.
Phis(dests, ps, srcs) ==
    {[i \in DOMAIN dests |-> [dest |-> dests[i], in |-> f[i]]] :
        f \in [DOMAIN dests -> [ps -> srcs]]}

SelfLoop == {<<Block(<<>>, <<2>>), Block(x, <<2, 3>>), Block(<<>>, <<>>)>> :
                x \in Phis(<<0, 1, 2>>, {1, 2}, Sources)}
Join == {<<Block(<<>>, <<2, 3>>), Block(<<>>, <<3>>), Block(x, <<>>)>> :
                x \in Phis(<<0, 1>>, {1, 2}, Sources)}
SameTarget == {<<Block(<<>>, <<2, 2>>), Block(x, <<>>)>> :
                x \in Phis(<<0, 1>>, {1}, Sources)}
While == {<<Block(<<>>, <<2>>), Block(x, <<3, 4>>), Block(<<>>, <<2>>), Block(y, <<>>)>> :
                x \in Phis(<<0, 1>>, {1, 3}, Regs), y \in Phis(<<2>>, {2}, Regs)}
Irreducible == {<<Block(<<>>, <<2, 3>>), Block(x, <<3, 2>>), Block(y, <<2>>)>> :
                x \in Phis(<<0>>, {1, 2, 3}, Regs), y \in Phis(<<1>>, {1, 2}, Regs)}
Missing == {<<Block(<<>>, <<2, 3>>), Block(x, <<3>>), Block(y, <<>>)>> :
                x \in Phis(<<0>>, {1}, Regs), y \in Phis(<<1>>, {2}, Regs)}

Edge(dests) == {<<Block(<<>>, <<2>>), Block(x, <<>>)>> : x \in Phis(dests, {1}, AllSources)}
EveryEdge == UNION {Edge([i \in 1 .. n |-> i - 1]) : n \in 1 .. MaxCopies}

MCFunctions == EveryEdge \cup SelfLoop \cup Join \cup SameTarget \cup While \cup Irreducible \cup Missing
=============================================================================

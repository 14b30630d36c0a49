------------------------------- MODULE OutSSA -------------------------------
(***************************************************************************)
(* ir_outssa_func (src/src/middleend/ir_outssa.c): replacing the phi nodes *)
(* of a function by copies on the incoming edges.  The emission of the     *)
(* copies of one edge is the loop of module ParallelCopy, whose state this *)
(* module drives.  When the pass has ended, the phase "run" executes the   *)
(* function with its phis and the rewritten function side by side along    *)
(* the same branch decisions.                                              *)
(*                                                                         *)
(* Block bodies are empty: the pass neither reads nor moves them.  A block *)
(* is its phis, the copies placed before its terminator, and the targets   *)
(* of that terminator (none: RET, one: BR, two: BR_COND).                  *)
(***************************************************************************)
EXTENDS ParallelCopy

CONSTANT Functions0      \* functions to transform: sequences of blocks

\* What the IR verifier lets through: a terminator has at most two targets,
\* blocks of the function; the phis of a block write different registers and
\* read, per predecessor, a register of the function or a constant.
Phi(f) == [dest : Reg, in : UNION {[P -> Source] : P \in SUBSET (DOMAIN f)}]
ASSUME FunctionsAssumption ==
    \A f \in Functions0 :
        /\ f # <<>>
        /\ f \in Seq([phis : Seq(Phi(f)), copies : {<<>>}, targets : Seq(DOMAIN f)])
        /\ \A x \in DOMAIN f :
             /\ Len(f[x].targets) <= 2
             /\ \A i, j \in DOMAIN f[x].phis : f[x].phis[i].dest = f[x].phis[j].dest => i = j

VARIABLES
    func0,      \* the function before the pass
    func,       \* the function, a sequence of blocks in layout order
    preds,      \* preds[b]: predecessor list, one entry per edge
    b,          \* block the outer loop is at
    p,          \* index into preds[b]
    ins,        \* block the copies of the current edge are placed in
    status,     \* where ir_outssa_func is; "fail" = return -1
    sat, senv,  \* "run": block and register file of the original function
    tat, tenv   \* "run": block and register file of the rewritten one

runvars == <<sat, senv, tat, tenv>>
ovars == <<func0, func, preds, b, p, ins, status, runvars>>
vars == <<ovars, pcvars>>

NoPhis == <<>>
Block(phis, targets) == [phis |-> phis, copies |-> <<>>, targets |-> targets]

\* ir_func_rebuild_preds: blocks in layout order, their targets in operand
\* order, one entry per edge.  A BR_COND with equal targets counts twice.
InEdges(f, x) ==
    {e \in (DOMAIN f) \X {1, 2} : e[2] \in DOMAIN f[e[1]].targets /\ f[e[1]].targets[e[2]] = x}
EarlierEdge(d, e) == d[1] < e[1] \/ (d[1] = e[1] /\ d[2] < e[2])
InEdge(f, x, i) ==
    CHOOSE e \in InEdges(f, x) :
        Cardinality({d \in InEdges(f, x) : EarlierEdge(d, e)}) = i - 1
RebuildPreds(f) ==
    [x \in DOMAIN f |-> [i \in 1 .. Cardinality(InEdges(f, x)) |-> InEdge(f, x, i)[1]]]

SuccCount(f, x) == Len(f[x].targets)

ReplaceEveryTarget(blk, old, new) ==
    [blk EXCEPT !.targets = [k \in DOMAIN blk.targets |-> new]]

\* ir_term_replace_target: every target equal to old becomes new.
ReplaceTarget(blk, old, new) ==
    [blk EXCEPT !.targets =
        [k \in DOMAIN blk.targets |->
            IF blk.targets[k] = old THEN new ELSE blk.targets[k]]]

Init ==
    /\ func0 \in Functions0
    /\ func = func0
    /\ preds = RebuildPreds(func0)
    /\ b = 1 /\ p = 1 /\ ins = 0
    /\ status = "blocks"
    /\ sat = 1 /\ tat = 1
    /\ senv = [r \in Reg |-> r] /\ tenv = senv
    /\ BeginCopies(<<>>, [r \in Reg |-> r], NumRegs)

HasIncoming(phi, x) == x \in DOMAIN phi.in

\* The block has no phis, or nothing is left to do for it.
SkipBlock ==
    /\ status = "blocks" /\ b <= Len(func)
    /\ func[b].phis = NoPhis
    /\ b' = b + 1
    /\ UNCHANGED <<func0, func, preds, p, ins, status, runvars, pcvars>>

\* Pre-check: a phi lacks an entry for a predecessor; the pass fails before
\* it has touched this block.
MissingIncoming ==
    /\ status = "blocks" /\ b <= Len(func)
    /\ \E i \in DOMAIN func[b].phis, q \in DOMAIN preds[b] :
         ~HasIncoming(func[b].phis[i], preds[b][q])
    /\ status' = "fail"
    /\ UNCHANGED <<func0, func, preds, b, p, ins, runvars, pcvars>>

EnterBlock ==
    /\ status = "blocks" /\ b <= Len(func)
    /\ func[b].phis # NoPhis
    /\ \A i \in DOMAIN func[b].phis, q \in DOMAIN preds[b] :
         HasIncoming(func[b].phis[i], preds[b][q])
    /\ p' = 1
    /\ status' = "edges"
    /\ UNCHANGED <<func0, func, preds, b, ins, runvars, pcvars>>

\* ir_outssa_split_edge: a new block at the end of the function, holding a
\* jump to the successor; the predecessor's terminator is retargeted.
SplitEdge(f, pred, succ) ==
    Append([f EXCEPT ![pred] = ReplaceTarget(f[pred], succ, Len(f) + 1)],
           Block(NoPhis, <<succ>>))

\* The copies of the edge preds[b][p] -> b are collected from the phis, and
\* the place for them is chosen: before the predecessor's terminator if that
\* is its only successor, in a new block on the edge otherwise.  succ_count
\* is the one computed before the pass changed any terminator.  On entry
\* every register holds a value of its own, so that no two are confused; a
\* temporary of an edge before holds anything.
StartEdge ==
    /\ status = "edges" /\ p <= Len(preds[b])
    /\ LET pred == preds[b][p]
           phis == func[b].phis
       IN  /\ copies0' = [i \in DOMAIN phis |->
                            [dest |-> phis[i].dest, src |-> phis[i].in[pred]]]
           /\ copies' = copies0'
           /\ IF SuccCount(func0, pred) = 1
                THEN ins' = pred /\ UNCHANGED <<func, preds>>
                ELSE /\ ins' = Len(func) + 1
                     /\ func' = SplitEdge(func, pred, b)
                     /\ preds' = Append(preds, <<>>)
    /\ env0' = [r \in Reg |-> r]
    /\ env' = [r \in 0 .. nextReg - 1 |-> IF r \in Reg THEN r ELSE 0]
    /\ done' = {} /\ scan' = 1 /\ progress' = FALSE /\ code' = <<>>
    /\ mode' = "scan"
    /\ status' = "emit"
    /\ UNCHANGED <<func0, b, p, runvars, nextReg>>

EmitStep ==
    /\ status = "emit"
    /\ PCNext
    /\ UNCHANGED ovars

FinishEdge ==
    /\ status = "emit" /\ mode = "done"
    /\ func' = [func EXCEPT ![ins].copies = @ \o code]
    /\ p' = p + 1
    /\ status' = "edges"
    /\ UNCHANGED <<func0, preds, b, ins, runvars, pcvars>>

RemovePhis ==
    /\ status = "edges" /\ p > Len(preds[b])
    /\ func' = [func EXCEPT ![b].phis = NoPhis]
    /\ b' = b + 1
    /\ status' = "blocks"
    /\ UNCHANGED <<func0, preds, p, ins, runvars, pcvars>>

FinishFunc ==
    /\ status = "blocks" /\ b > Len(func)
    /\ preds' = RebuildPreds(func)
    /\ status' = "run"
    /\ UNCHANGED <<func0, func, b, p, ins, runvars, pcvars>>

\* Running: both functions take the k-th branch of the block they are in.
\* The original evaluates all phis of the target at once; the rewritten one
\* runs the copies before its terminator and those of a block on the edge.
Assign(e, c) == [r \in DOMAIN e \cup {c.dest} |-> IF r = c.dest THEN Eval(c.src, e) ELSE e[r]]
RunCopies(cs, e) ==
    LET at[k \in 0 .. Len(cs)] == IF k = 0 THEN e ELSE Assign(at[k - 1], cs[k])
    IN  at[Len(cs)]
RunPhis(phis, from, e) ==
    [r \in DOMAIN e |->
        IF \E i \in DOMAIN phis : phis[i].dest = r
          THEN Eval(phis[CHOOSE i \in DOMAIN phis : phis[i].dest = r].in[from], e)
          ELSE e[r]]

Branch ==
    /\ status = "run"
    /\ \E k \in DOMAIN func0[sat].targets :
         LET succ == func0[sat].targets[k]
             next == func[tat].targets[k]
             onEdge == next > Len(func0)
             out == RunCopies(func[tat].copies, tenv)
         IN  /\ sat' = succ
             /\ senv' = RunPhis(func0[succ].phis, sat, senv)
             /\ tat' = IF onEdge THEN func[next].targets[1] ELSE next
             /\ tenv' = IF onEdge THEN RunCopies(func[next].copies, out) ELSE out
    /\ UNCHANGED <<func0, func, preds, b, p, ins, status, pcvars>>

Next ==
    \/ SkipBlock \/ MissingIncoming \/ EnterBlock \/ StartEdge \/ EmitStep
    \/ FinishEdge \/ RemovePhis \/ FinishFunc \/ Branch

Spec == Init /\ [][Next]_vars /\ WF_vars(Next /\ status # "run")

-----------------------------------------------------------------------------

\* The rewritten function behaves as the one with phis: along every path both
\* are in the same block with the same values in the function's registers.
SameBehaviour ==
    status = "run" => sat = tat /\ \A r \in Reg : senv[r] = tenv[r]

\* The pass ends, on a function with a loop too, by success or by failure.
PassTerminates == <>(status \in {"run", "fail"})
=============================================================================

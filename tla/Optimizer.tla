------------------------------- MODULE Optimizer -------------------------------
(***************************************************************************)
(* The optimiser's loop over its passes: ir_optimizer_run and              *)
(* optimizer_iteration in src/src/middleend/ir_optimizer.c.                *)
(*                                                                         *)
(* No call goes to a function that could be inlined, so inlining, which    *)
(* comes before the loop, has nothing to do and is left out.               *)
(***************************************************************************)
EXTENDS Mem2Reg

CONSTANTS
    Functions0,     \* functions to optimise
    Levels,         \* OPT_LEVEL_1 and OPT_LEVEL_2
    Gates,          \* values of g_ir_optimizer_verify_gate
    MaxIterations,  \* MAX_ITERATIONS
    Inputs          \* arguments to compare executions with

ASSUME OptimizerAssumption ==
    /\ Levels \subseteq {1, 2}
    /\ Gates \subseteq BOOLEAN
    /\ MaxIterations \in Nat \ {0}
    /\ \A x \in Inputs : Range(x) \subseteq Word

VARIABLES
    func0,      \* the function as it came in
    func,       \* the function now
    level, gate,
    iter,       \* iterations done
    pass,       \* next pass of this iteration
    changed,    \* some pass of this iteration reported a change
    status      \* "running", "done", or "failed" at the verification gate

vars == <<func0, func, level, gate, iter, pass, changed, status>>

-----------------------------------------------------------------------------
Pipeline(lev) ==
    SelectSeq(<<"mem2reg", "canon", "instcombine", "sccp", "constfold", "copyprop",
                "gvn", "cse", "dce", "cfg_simplify", "licm">>,
              LAMBDA p : p \in {"gvn", "cse"} => lev >= 2)

RunOf(p, f) ==
    CASE p = "mem2reg" -> PromoteVariables(f)
      [] p = "canon" -> Canon(f)
      [] p = "instcombine" -> InstCombine(f)
      [] p = "sccp" -> SCCP(f)
      [] p = "constfold" -> ConstFold(f)
      [] p = "copyprop" -> CopyProp(f)
      [] p = "gvn" -> GVN(f)
      [] p = "cse" -> CSE(f)
      [] p = "dce" -> DCE(f)
      [] p = "cfg_simplify" -> CfgSimplify(f)
      [] p = "licm" -> LICM(f)

Iteration(f, lev) == FoldLeft(LAMBDA g, p : RunOf(p, g).func, f, Pipeline(lev))

Init ==
    /\ func0 \in Functions0
    /\ func = func0
    /\ level \in Levels
    /\ gate \in Gates
    /\ iter = 0 /\ pass = 1 /\ changed = FALSE
    /\ status = "running"

RunPass ==
    /\ status = "running" /\ pass <= Len(Pipeline(level))
    /\ \E r \in {RunOf(Pipeline(level)[pass], func)} :
         func' = r.func /\ changed' = (changed \/ r.changed)
    /\ pass' = pass + 1
    /\ UNCHANGED <<func0, level, gate, iter, status>>

IterationEnds == status = "running" /\ pass > Len(Pipeline(level))
GateOpen == gate => VerifySSA(func)

\* With the gate, an invalid function fails the optimiser.
VerifierStops ==
    /\ IterationEnds /\ ~GateOpen
    /\ status' = "failed"
    /\ UNCHANGED <<func0, func, level, gate, iter, pass, changed>>

FixedPoint ==
    /\ IterationEnds /\ GateOpen /\ ~changed
    /\ status' = "done"
    /\ UNCHANGED <<func0, func, level, gate, iter, pass, changed>>

NextIteration ==
    /\ IterationEnds /\ GateOpen /\ changed /\ iter + 1 < MaxIterations
    /\ iter' = iter + 1 /\ pass' = 1 /\ changed' = FALSE
    /\ UNCHANGED <<func0, func, level, gate, status>>

IterationCap ==
    /\ IterationEnds /\ GateOpen /\ changed /\ iter + 1 = MaxIterations
    /\ iter' = iter + 1
    /\ status' = "done"
    /\ UNCHANGED <<func0, func, level, gate, pass, changed>>

Next == RunPass \/ VerifierStops \/ FixedPoint \/ NextIteration \/ IterationCap

Spec == Init /\ [][Next]_vars

-----------------------------------------------------------------------------
(* Properties.                                                             *)

\* The dominator tree the passes work from is the true one, on every graph the
\* passes make: the iterative algorithm has settled when it stops, and blocks
\* out of reach are in no tree.
DominatorsCorrect ==
    \A b \in Blocks(func) :
        IDoms(func)[b] = CASE b = Entry(func) -> b
                           [] b \in Reachable(func) \ {Entry(func)} -> ImmediateDominator(func, b)
                           [] OTHER -> NoBlock

\* After every pass, and whatever passes ran before it, the function still
\* does for its caller what the program asked: the same stores and calls in
\* the same order, the same result, and it ends if it ended
\* (optimizer_iteration).  A variable that may be read before it is set stays
\* in memory, where the read finds what was left there.
SameBehaviour ==
    \A x \in Inputs : Preserves(Outcome(func0, x), Outcome(func, x))

\* No pass gives a register two definitions, or lets a use be reached by a
\* path that misses the definition: what GVN, CSE and LICM move or reuse is
\* available where it is used.
StrictSSA == SingleDefs(func) /\ UsesReached(func)

\* Whatever edges SCCP, DCE and the CFG simplification drop or redirect, a
\* phi keeps an entry for every predecessor control can come from, with a
\* value that is defined there.
PhisComplete ==
    \A b \in Reachable(func) : \A i \in PhiInsts(func, b) :
        \A p \in Preds(func, b) \cap Reachable(func) :
            /\ p \in DOMAIN i.in
            /\ IsReg(i.in[p]) => DefinitionReaches(func, i.in[p].num, p, Len(Insts(func, p)) + 1)

\* When the optimiser stops, at the fixed point or at the cap, one more
\* iteration would find nothing: the passes do not undo each other's work
\* (the canonical order, the place of a hoisted instruction), so the cap
\* never cuts a run that was still going somewhere.
Settled == status = "done" => Iteration(func, level) = func

=============================================================================

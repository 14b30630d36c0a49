------------------------------ MODULE Liveness ------------------------------
(***************************************************************************)
(* Live ranges of virtual registers: regalloc_compute_def_use (regalloc.c) *)
(* and regalloc_compute_liveness, regalloc_build_intervals                 *)
(* (regalloc_liveness.c), all under src/src/backend/.                      *)
(*                                                                         *)
(* A machine function is a sequence of blocks in layout order; a block has *)
(* instructions and successors; an instruction has the virtual registers   *)
(* it reads directly (use), the one a memory operand is based on (base)    *)
(* and the one it writes (def).  isel_lower_block begins every block with  *)
(* a label and ends it with a jump or a return.                            *)
(***************************************************************************)
EXTENDS Integers, Sequences, FiniteSets, FiniteSetsExt

CONSTANTS
    VReg,           \* virtual registers, 0 .. max_vreg - 1
    MaxIterations   \* cap of the fixpoint loop (100 in the code)

ASSUME LivenessAssumption ==
    MaxIterations \in Nat \ {0} /\ VReg \subseteq Nat /\ IsFiniteSet(VReg)

VARIABLES
    mf,             \* the machine function
    first,          \* position of the first instruction of each block
    liveIn, liveOut,\* bitsets of each block
    bi,             \* block the backward walk is at, 0 after the first block
    changed, iterations,
    lphase          \* "walk" in the loop, "done" after it

lvvars == <<mf, first, liveIn, liveOut, bi, changed, iterations, lphase>>

Blocks == DOMAIN mf
Reads(inst) == inst.use \cup inst.base
Succs(x) == {mf[x].succs[k] : k \in DOMAIN mf[x].succs}

\* record_use / record_def over the instructions of a block, in order.
Use(x) == {v \in VReg : \E k \in DOMAIN mf[x].insts :
             /\ v \in Reads(mf[x].insts[k])
             /\ \A m \in 1 .. k - 1 : v \notin mf[x].insts[m].def}
Def(x) == {v \in VReg : \E k \in DOMAIN mf[x].insts : v \in mf[x].insts[k].def}

\* regalloc_number_insts: instructions are numbered through all blocks in
\* layout order, from 0; the first of a block by how many come before it.
InstsOf(f, x) == {x} \X DOMAIN f[x].insts
NumberInsts(f) == [x \in DOMAIN f |-> Cardinality(UNION {InstsOf(f, y) : y \in 1 .. x - 1})]

BeginLiveness(f) ==
    /\ mf = f
    /\ first = NumberInsts(f)
    /\ liveIn = [x \in DOMAIN f |-> {}]
    /\ liveOut = [x \in DOMAIN f |-> {}]
    /\ bi = Len(f)
    /\ changed = FALSE
    /\ iterations = 1
    /\ lphase = "walk"

\* live_out = union of the successors' live_in; live_in = use + (live_out - def).
OutOf(x) == liveOut[x] \cup UNION {liveIn[s] : s \in Succs(x)}
InWithoutKill(x, out) == Use(x) \cup out
InOf(x, out) == Use(x) \cup (out \ Def(x))

\* One block of a pass.
VisitAt(x) ==
    /\ lphase = "walk" /\ bi > 0
    /\ LET out == OutOf(x)
           in == InOf(x, out)
       IN  /\ liveOut' = [liveOut EXCEPT ![x] = out]
           /\ liveIn' = [liveIn EXCEPT ![x] = in]
           /\ changed' = (changed \/ out # liveOut[x] \/ in # liveIn[x])
    /\ bi' = bi - 1
    /\ UNCHANGED <<mf, first, iterations, lphase>>

\* The walk is backward.
VisitForward == VisitAt(Len(mf) + 1 - bi)
VisitBlock == VisitAt(bi)

\* while (changed && iterations < 100)
IterationCap == MaxIterations

EndPass ==
    /\ lphase = "walk" /\ bi = 0
    /\ IF changed /\ iterations < IterationCap
         THEN /\ bi' = Len(mf) /\ changed' = FALSE /\ iterations' = iterations + 1
              /\ UNCHANGED lphase
         ELSE lphase' = "done" /\ UNCHANGED <<bi, changed, iterations>>
    /\ UNCHANGED <<mf, first, liveIn, liveOut>>

LVNext == VisitBlock \/ EndPass

-----------------------------------------------------------------------------
(* Positions and intervals.                                                *)

Size(x) == Len(mf[x].insts)
PosOf(x, k) == first[x] + k - 1
LastPos(x) == PosOf(x, Size(x))
\* Positions of the instructions that satisfy P.
PositionsOf(P(_)) ==
    UNION {{PosOf(x, k) : k \in {m \in 1 .. Size(x) : P(mf[x].insts[m])}} : x \in Blocks}

TouchedWithoutLiveOut(v) ==
    {first[x] : x \in {y \in Blocks : v \in liveIn[y]}}
      \cup PositionsOf(LAMBDA inst : v \in Reads(inst) \cup inst.def)

\* regalloc_build_intervals: every position at which v is recorded.
Touched(v) ==
    {first[x] : x \in {y \in Blocks : v \in liveIn[y]}}
      \cup {LastPos(x) : x \in {y \in Blocks : v \in liveOut[y]}}
      \cup PositionsOf(LAMBDA inst : v \in Reads(inst) \cup inst.def)
HasInterval == {v \in VReg : Touched(v) # {}}
IntervalOf(v) == [start |-> Min(Touched(v)), end |-> Max(Touched(v))]

-----------------------------------------------------------------------------
(* What liveness means, independently of the iteration.                    *)

\* v is live on entry to x: some path from x reaches a use of v before any
\* definition.  The least set of blocks closed under that rule.
ClosedFor(v, S) ==
    \A x \in Blocks :
        v \in Use(x) \/ (v \notin Def(x) /\ Succs(x) \cap S # {}) => x \in S
LiveInBlocks(v) ==
    {x \in Blocks : \A S \in SUBSET Blocks : ClosedFor(v, S) => x \in S}

\* During the walk the sets only contain registers that really are live, and
\* when it ends they contain all of them: across back edges too, and whatever
\* the layout order of the blocks.
LivenessExact ==
    \A v \in VReg :
        LET live == LiveInBlocks(v)
        IN  \A x \in Blocks :
              /\ v \in liveIn[x] => x \in live
              /\ v \in liveOut[x] => Succs(x) \cap live # {}
              /\ lphase = "done" =>
                   /\ x \in live => v \in liveIn[x]
                   /\ Succs(x) \cap live # {} => v \in liveOut[x]

\* The sets are computed "by iterating until fixpoint" (src/src/backend/
\* regalloc.h:253): the loop ends because nothing changed, never because of the cap.
FixpointBeforeCap == lphase = "done" => ~changed

-----------------------------------------------------------------------------
(* How many passes the walk needs.                                         *)

\* The ways from a block to a use that meet no block twice after the first one,
\* by their number of edges.
Tours ==
    LET T[n \in 0 .. Len(mf)] ==
            IF n = 0 THEN {<<x>> : x \in Blocks}
            ELSE UNION {{Append(t, s) : s \in Succs(t[n]) \ {t[k] : k \in 2 .. n}} : t \in T[n - 1]}
    IN  UNION {T[n] : n \in 0 .. Len(mf)}

\* An edge is retreating if the walk comes to its target after its source.
Retreats(t) == Cardinality({k \in 1 .. Len(t) - 1 : t[k + 1] <= t[k]})

\* A pass carries what is live along every edge but the retreating ones: there
\* are at most as many passes as a tour has of these, one more, and one that
\* changes nothing.  So what the cap lets through is a matter of how deep the
\* loops are nested, not of how long the function is.
PassesByDepth ==
    lphase = "done" => iterations <= Max({Retreats(t) : t \in Tours}) + 2
=============================================================================

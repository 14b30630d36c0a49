------------------------------ MODULE RegAlloc ------------------------------
(***************************************************************************)
(* regalloc_func_ex (src/src/backend/regalloc_driver.c): liveness, then    *)
(* intervals, then the linear scan, then spill code and operand rewriting. *)
(* The phase "run" executes the function with its virtual registers beside *)
(* the rewritten one with physical registers and stack slots; a CALL       *)
(* destroys every register that is not callee-saved.                       *)
(***************************************************************************)
EXTENDS Liveness, LinearScan, SequencesExt

CONSTANTS
    MachineFuncs,   \* functions to allocate
    Scratch         \* REGALLOC_VREG_SCRATCH_BASE (r11)

\* What the selection makes: an instruction writes at most one register, and
\* a block begins with its label and ends with a jump or return, not a call.
MachineInst == [op : {"op", "label", "jump", "call"}, def : {{}} \cup {{v} : v \in VReg},
                use : SUBSET VReg, base : SUBSET VReg]
ASSUME FunctionsAssumption ==
    /\ Scratch \notin PhysReg
    /\ \A f \in MachineFuncs :
         /\ f \in Seq([insts : Seq(MachineInst), succs : Seq(DOMAIN f)]) /\ f # <<>>
         /\ \A x \in DOMAIN f :
              /\ Len(f[x].insts) > 0
              /\ f[x].insts[1].op # "call" /\ f[x].insts[Len(f[x].insts)].op # "call"

VARIABLES
    order,          \* order[j]: virtual register of interval j
    stage,          \* "liveness", "scan", "run"
    blk, ix,        \* "run": next instruction is mf[blk].insts[ix]
    vfile,          \* "run": values of the virtual registers
    rfile, stack    \* "run": values of physical registers and spill slots

runvars == <<blk, ix, vfile, rfile, stack>>
vars == <<lvvars, lsvars, order, stage, runvars>>

Undef == -1     \* not yet written, or destroyed by a call
File == PhysReg \cup {Scratch}

Init ==
    /\ \E f \in MachineFuncs : BeginLiveness(f)
    /\ BeginScan(<<>>, {})
    /\ order = <<>>
    /\ stage = "liveness"
    /\ blk = 1 /\ ix = 1
    /\ vfile = [v \in VReg |-> Undef]
    /\ rfile = [r \in File |-> Undef]
    /\ stack = [o \in {} |-> Undef]

LivenessStep ==
    /\ stage = "liveness"
    /\ LVNext
    /\ UNCHANGED <<lsvars, order, stage, runvars>>

\* interval_cmp_start: by start, then by register number.
Before(v, w) ==
    \/ IntervalOf(v).start < IntervalOf(w).start
    \/ IntervalOf(v).start = IntervalOf(w).start /\ v < w

NoCallPositions == {}
CallPositions == PositionsOf(LAMBDA inst : inst.op = "call")

BuildIntervals ==
    /\ stage = "liveness" /\ lphase = "done"
    /\ \E s \in SetToSeqs(HasInterval) :
         (\A j, k \in DOMAIN s : j < k => Before(s[j], s[k])) /\ order' = s
    /\ iv' = [j \in DOMAIN order' |-> IntervalOf(order'[j])]
    /\ calls' = CallPositions
    /\ phys' = [j \in DOMAIN order' |-> PhysNone]
    /\ slot' = [j \in DOMAIN order' |-> 0]
    /\ stage' = "scan"
    /\ UNCHANGED <<lvvars, cur, active, regFree, nextSpill, calleeUsed, runvars>>

ScanStep ==
    /\ stage = "scan"
    /\ LSNext
    /\ UNCHANGED <<lvvars, order, stage, runvars>>

ScanDone == cur > Len(iv)

Spills == {slot[j] : j \in Ids} \ {0}

FinishScan ==
    /\ stage = "scan" /\ ScanDone
    /\ stage' = "run"
    /\ stack' = [o \in Spills |-> Undef]
    /\ UNCHANGED <<lvvars, lsvars, order, blk, ix, vfile, rfile>>

-----------------------------------------------------------------------------

\* rewrite_operand: a register operand becomes its physical register, or the
\* memory operand [RBP - offset] if the interval was spilled.
HomeIndex(v) == CHOOSE j \in Ids : order[j] = v
Spilled(v) == slot[HomeIndex(v)] # 0
HomeValue(v) == IF Spilled(v) THEN stack[slot[HomeIndex(v)]] ELSE rfile[phys[HomeIndex(v)]]

Inst == mf[blk].insts[ix]

\* regalloc_fix_mem_base_operand: a spilled base is reloaded into the scratch
\* register just before the instruction.
Reload(inst, file) ==
    [r \in File |->
        IF r = Scratch /\ \E v \in inst.base : Spilled(v)
          THEN HomeValue(CHOOSE v \in inst.base : Spilled(v))
          ELSE file[r]]

Clobber(inst, file) ==
    [r \in File |-> IF inst.op = "call" /\ r \notin CalleeSaved THEN Undef ELSE file[r]]

\* The value an instruction produces is named after its position.
Pos == PosOf(blk, ix)

Execute ==
    LET file == Clobber(Inst, Reload(Inst, rfile))
    IN  IF Inst.def = {}
          THEN rfile' = file /\ UNCHANGED <<vfile, stack>>
          ELSE \E v \in Inst.def :
                 /\ vfile' = [vfile EXCEPT ![v] = Pos]
                 /\ IF Spilled(v)
                      THEN /\ stack' = [stack EXCEPT ![slot[HomeIndex(v)]] = Pos]
                           /\ rfile' = file
                      ELSE /\ rfile' = [file EXCEPT ![phys[HomeIndex(v)]] = Pos]
                           /\ UNCHANGED stack

Step ==
    /\ stage = "run" /\ ix < Size(blk)
    /\ Execute
    /\ ix' = ix + 1
    /\ UNCHANGED <<lvvars, lsvars, order, stage, blk>>

Jump ==
    /\ stage = "run" /\ ix = Size(blk)
    /\ Execute
    /\ blk' \in Succs(blk)
    /\ ix' = 1
    /\ UNCHANGED <<lvvars, lsvars, order, stage>>

Next == LivenessStep \/ BuildIntervals \/ ScanStep \/ FinishScan \/ Step \/ Jump

Spec == Init /\ [][Next]_vars /\ WF_vars(LivenessStep \/ BuildIntervals \/ ScanStep \/ FinishScan)

-----------------------------------------------------------------------------

\* The sets of the fixpoint are exact when the intervals are built from them.
LivenessCorrect == stage = "liveness" => LivenessExact

\* However the loops of a function are nested and its blocks laid out, the walk
\* needs no more passes than the depth of its loops asks for.
FewPasses == stage = "liveness" => PassesByDepth

\* Allocation preserves the program: whenever an instruction of the rewritten
\* function reads an operand, it finds the value the virtual register has in
\* the original, after any path, any calls and any spilling.
ReadsAgree ==
    stage = "run" =>
        \A v \in Reads(Inst) : vfile[v] # Undef => HomeValue(v) = vfile[v]

\* Every interval covers every point at which its register holds a value that
\* is still needed, in layout order, loops and later-placed blocks included.
LiveBefore(v, x, k) ==
    \/ \E m \in k .. Size(x) :
         /\ v \in Reads(mf[x].insts[m])
         /\ \A n \in k .. m - 1 : v \notin mf[x].insts[n].def
    \/ /\ \A n \in k .. Size(x) : v \notin mf[x].insts[n].def
       /\ Succs(x) \cap LiveInBlocks(v) # {}
IntervalsCoverLiveness ==
    stage = "scan" /\ cur = 1 =>
        \A j \in Ids, x \in Blocks : \A k \in 1 .. Size(x) :
            LiveBefore(order[j], x, k) =>
                iv[j].start <= PosOf(x, k) /\ PosOf(x, k) <= iv[j].end

=============================================================================

---------------------------- MODULE ParallelCopy ----------------------------
(***************************************************************************)
(* Sequentialisation of the copies of one CFG edge, as performed by        *)
(* ir_emit_parallel_copies in src/src/middleend/ir_outssa.c.               *)
(*                                                                         *)
(* The phi nodes of a block read all their incoming values at once.  When  *)
(* the phis are removed, the edge from one predecessor gets an ordinary    *)
(* sequence of COPY instructions that has to have the same effect.  The    *)
(* code emits a copy as soon as its destination is not the source of a     *)
(* copy still to be emitted, and breaks a cycle with a fresh register.     *)
(*                                                                         *)
(* `code' is the emitted instruction list; `env' is the register file      *)
(* after running it from `env0', which is what the properties speak about. *)
(* Allocation failures are not modelled.                                   *)
(***************************************************************************)
EXTENDS Integers, Sequences, FiniteSets

CONSTANTS
    NumRegs,    \* registers the function uses before the pass (next_reg)
    MaxCopies,  \* bound on the number of phis of a block
    Val         \* values a register or an IR constant may hold

ASSUME RegsAssumption == NumRegs \in Nat /\ MaxCopies \in Nat
ASSUME ValAssumption == Val \subseteq Int

VARIABLES
    copies0,    \* the EdgeCopy array as the caller built it from the phis
    env0,       \* register file when control enters the edge
    copies,     \* the EdgeCopy array; a src may be replaced by a temporary
    done,       \* indices whose copy has been emitted (done[i] in the code)
    scan,       \* index of the inner loop, 1-based
    progress,   \* "this scan emitted something"
    nextReg,    \* func->next_reg
    code,       \* emitted COPY instructions, in order
    env,        \* register file after running `code' from env0
    mode        \* "scan" while the loop runs, "done" after it

pcvars == <<copies0, env0, copies, done, scan, progress, nextReg, code, env, mode>>

Reg == 0 .. NumRegs - 1

\* An IRValue operand: a virtual register or a constant.
RegSrc(r) == [kind |-> "reg", num |-> r]
ConstSrc(v) == [kind |-> "const", num |-> v]
Source == [kind : {"reg"}, num : Reg] \cup [kind : {"const"}, num : Val]

\* The copies of one edge: one per phi.  Phi destinations are SSA names, so
\* they are pairwise distinct.
EdgeCopies(n) ==
    {c \in [1 .. n -> [dest : Reg, src : Source]] :
        \A i, j \in 1 .. n : i # j => c[i].dest # c[j].dest}

Eval(s, e) == IF s.kind = "reg" THEN e[s.num] ELSE s.num

Index == DOMAIN copies

DestIsNeverUsed(r) == FALSE

\* edge_copy_dest_is_used_as_source: some copy still to be emitted reads r.
DestIsUsedAsSource(r) ==
    \E j \in Index \ done : copies[j].src.kind = "reg" /\ copies[j].src.num = r

\* Entry of ir_emit_parallel_copies for the copies c, control reaching the
\* edge with register file e and the function having n registers.
BeginCopies(c, e, n) ==
    /\ copies0 = c
    /\ env0 = e
    /\ copies = c
    /\ done = {}
    /\ scan = 1
    /\ progress = FALSE
    /\ nextReg = n
    /\ code = <<>>
    /\ env = e
    /\ mode = "scan"

PCInit ==
    \E n \in 1 .. MaxCopies :
    \E c \in EdgeCopies(n), e \in [Reg -> Val] : BeginCopies(c, e, NumRegs)

\* ir_emit_edge_copy into a register that exists already.
EmitCopy(d, s) ==
    /\ code' = Append(code, [dest |-> d, src |-> s])
    /\ env' = [env EXCEPT ![d] = Eval(s, env)]

\* ir_func_alloc_reg and the copy that initialises the new register with v.
FreshReg(v) ==
    /\ nextReg' = nextReg + 1
    /\ env' = [r \in 0 .. nextReg |-> IF r = nextReg THEN v ELSE env[r]]

\* Top of the loop body: made_progress = false, the scan starts over.
RestartKeepingProgress == scan' = 1 /\ progress' = progress
RestartScan == scan' = 1 /\ progress' = FALSE

\* Negation of the loop condition `remaining > 0'.
AtMostOneRemaining == Cardinality(Index \ done) <= 1
NoneRemaining == done = Index

\* The inner loop looks at copy `scan'.
SkipDone ==
    /\ mode = "scan" /\ scan \in Index
    /\ scan \in done
    /\ scan' = scan + 1
    /\ UNCHANGED <<copies0, env0, copies, done, progress, nextReg, code, env, mode>>

EmitSafeCopy ==
    /\ mode = "scan" /\ scan \in Index
    /\ scan \notin done
    /\ ~DestIsUsedAsSource(copies[scan].dest)
    /\ EmitCopy(copies[scan].dest, copies[scan].src)
    /\ done' = done \cup {scan}
    /\ progress' = TRUE
    /\ scan' = scan + 1
    /\ UNCHANGED <<copies0, env0, copies, nextReg, mode>>

SkipBlocked ==
    /\ mode = "scan" /\ scan \in Index
    /\ scan \notin done
    /\ DestIsUsedAsSource(copies[scan].dest)
    /\ scan' = scan + 1
    /\ UNCHANGED <<copies0, env0, copies, done, progress, nextReg, code, env, mode>>

\* A whole scan is over and it emitted something: test `remaining > 0' again.
Rescan ==
    /\ mode = "scan" /\ scan \notin Index
    /\ progress
    /\ IF NoneRemaining
         THEN mode' = "done" /\ UNCHANGED <<scan, progress>>
         ELSE RestartScan /\ UNCHANGED mode
    /\ UNCHANGED <<copies0, env0, copies, done, nextReg, code, env>>

\* No copy was safe: every remaining destination is still needed.  The first
\* remaining destination is saved in a fresh register, and every remaining
\* source that reads it reads the fresh register instead.
BreakCycle ==
    /\ mode = "scan" /\ scan \notin Index
    /\ ~progress
    /\ \E pick \in Index \ done :
         /\ \A j \in Index \ done : pick <= j
         /\ LET d == copies[pick].dest
            IN  /\ code' = Append(code, [dest |-> nextReg, src |-> RegSrc(d)])
                /\ FreshReg(env[d])
                /\ copies' = [i \in Index |->
                     IF i \notin done /\ copies[i].src = RegSrc(d)
                       THEN [dest |-> copies[i].dest, src |-> RegSrc(nextReg)]
                       ELSE copies[i]]
    /\ RestartScan
    /\ UNCHANGED <<copies0, env0, done, mode>>

PCNext == SkipDone \/ EmitSafeCopy \/ SkipBlocked \/ Rescan \/ BreakCycle

\* The emission is a plain loop of a sequential program: it keeps running.
PCSpec == PCInit /\ [][PCNext]_pcvars /\ WF_pcvars(PCNext)

-----------------------------------------------------------------------------

\* Every variable stays in its range; registers are numbered 0..nextReg-1 and
\* the copy array never changes length (ir_func_alloc_reg, EdgeCopy array).
PCTypeOK ==
    /\ nextReg \in Nat /\ nextReg >= NumRegs
    /\ env0 \in [Reg -> Val]
    /\ env \in [0 .. nextReg - 1 -> Val]
    /\ DOMAIN copies0 = Index
    /\ done \subseteq Index
    /\ scan \in Nat \ {0}
    /\ progress \in BOOLEAN
    /\ mode \in {"scan", "done"}
    /\ \A i \in Index :
         /\ copies0[i] \in [dest : Reg, src : Source]
         /\ copies[i].dest = copies0[i].dest
         /\ copies[i].src \in
              [kind : {"reg"}, num : 0 .. nextReg - 1] \cup [kind : {"const"}, num : Val]

\* Whatever order the copies were emitted in, the value a remaining copy will
\* read is the one its source held on entry to the edge, and a copy that has
\* been emitted delivered that value (the lost-copy and the swap problem).
ParallelValues ==
    \A i \in Index :
        IF i \in done
          THEN env[copies0[i].dest] = Eval(copies0[i].src, env0)
          ELSE Eval(copies[i].src, env) = Eval(copies0[i].src, env0)

\* When the emission ends, the emitted sequence did exactly what the phis do
\* at once: each destination has the entry value of its source, and no other
\* register of the function changed.
CopiesAreParallel ==
    mode = "done" =>
        \A r \in Reg :
            env[r] = IF \E i \in Index : copies0[i].dest = r
                       THEN LET i == CHOOSE i \in Index : copies0[i].dest = r
                            IN  Eval(copies0[i].src, env0)
                       ELSE env0[r]

=============================================================================

---------------------------------- MODULE IR ----------------------------------
(***************************************************************************)
(* The SSA form of the middle end (src/src/middleend/ir.h, ir_analysis.c), *)
(* what it means to execute a function, and the verifier of SSA form       *)
(* (ir_verify_ssa.c).                                                      *)
(*                                                                         *)
(* Every value is an integer of Width bits in two's complement.  A block   *)
(* is a list of instructions and a terminator; a phi maps predecessors to  *)
(* values.  Memory is one global cell and one cell for each stack variable *)
(* (alloca); a call is an event that may change the global cell, and the   *)
(* variable whose address it is given ("callref").                         *)
(***************************************************************************)
EXTENDS Integers, Sequences, SequencesExt, FiniteSets, Functions

CONSTANTS
    NumRegs,    \* registers of a function (next_reg)
    Width,      \* bits of a value
    Fuel        \* blocks an execution may enter

ASSUME IRAssumption == NumRegs \in Nat /\ Width \in Nat \ {0} /\ Fuel \in Nat

Word == -(2^(Width - 1)) .. 2^(Width - 1) - 1

\* Truncation of a result to its type, with sign extension.
Wrap(n) == ((n + 2^(Width - 1)) % 2^Width) - 2^(Width - 1)

-----------------------------------------------------------------------------
(* Instructions, blocks, functions.                                        *)

RegV(r) == [kind |-> "reg", num |-> r]
Const(c) == [kind |-> "const", num |-> c]
IsReg(v) == v.kind = "reg"
IsConst(v) == v.kind = "const"
Value == [kind : {"reg"}, num : 0 .. NumRegs - 1] \cup [kind : {"const"}, num : Word]

NoReg == -1
NoEntries == [p \in {} |-> Const(0)]
Inst(op, dest, args) == [op |-> op, dest |-> dest, args |-> args, in |-> NoEntries]
Phi(dest, in) == [op |-> "phi", dest |-> dest, args |-> <<>>, in |-> in]
IsPhi(i) == i.op = "phi"

Br(to) == [op |-> "br", arg |-> <<>>, to |-> <<to>>]
BrCond(v, yes, no) == [op |-> "brcond", arg |-> <<v>>, to |-> <<yes, no>>]
Ret(v) == [op |-> "ret", arg |-> <<v>>, to |-> <<>>]

\* A function: its parameters are the first registers, its blocks are laid
\* out in order, the first one is the entry; next is its first unused register.
Func(params, order, body) ==
    [params |-> params, order |-> order, body |-> body,
     next |-> 1 + Max({params - 1} \cup {i.dest : i \in UNION {ToSet(body[b].insts) : b \in DOMAIN body}})]
Blocks(f) == DOMAIN f.body
Entry(f) == f.order[1]
Insts(f, b) == f.body[b].insts
Term(f, b) == f.body[b].term
WithInsts(f, b, s) == [f EXCEPT !.body[b].insts = s]
WithTerm(f, b, t) == [f EXCEPT !.body[b].term = t]

Params(f) == 0 .. f.params - 1
AllInsts(f) == FlattenSeq([k \in DOMAIN f.order |-> Insts(f, f.order[k])])
Dests(f) == SelectSeq([k \in DOMAIN AllInsts(f) |-> AllInsts(f)[k].dest], LAMBDA r : r # NoReg)
DefBlock(f, r) == CHOOSE b \in Blocks(f) : \E i \in ToSet(Insts(f, b)) : i.dest = r
DefInst(f, r) == CHOOSE i \in ToSet(AllInsts(f)) : i.dest = r

Reads(i) == ToSet(i.args) \cup Range(i.in)
UsesOf(f) == UNION {Reads(i) : i \in ToSet(AllInsts(f))} \cup
             UNION {ToSet(Term(f, b).arg) : b \in Blocks(f)}

-----------------------------------------------------------------------------
(* Control flow: ir_func_rebuild_preds, ir_func_compute_dominators.        *)

Succs(f, b) == Term(f, b).to
PredEdges(f, b) == {<<p, k>> \in Blocks(f) \X {1, 2} : k \in DOMAIN Succs(f, p) /\ Succs(f, p)[k] = b}
Preds(f, b) == {e[1] : e \in PredEdges(f, b)}

\* Blocks control can reach without entering a block of S.
ReachableAvoiding(f, S) ==
    LET Step(R, k) == (R \cup UNION {ToSet(Succs(f, b)) : b \in R}) \ S
    IN  FoldLeftDomain(Step, {Entry(f)} \ S, f.order)
Reachable(f) == ReachableAvoiding(f, {})

Dominates(f, a, b) ==
    a = b \/ b \in Reachable(f) \ ReachableAvoiding(f, {a})

-----------------------------------------------------------------------------
(* Execution.                                                              *)

Abs(n) == IF n < 0 THEN -n ELSE n
\* Division truncates towards zero.
Quotient(a, b) == IF (a < 0) = (b < 0) THEN Abs(a) \div Abs(b) ELSE -(Abs(a) \div Abs(b))
Truth(p) == IF p THEN 1 ELSE 0

Compute(op, a, b) ==
    CASE op = "add" -> Wrap(a + b)
      [] op = "sub" -> Wrap(a - b)
      [] op = "mul" -> Wrap(a * b)
      [] op = "div" -> Wrap(Quotient(a, b))
      [] op = "eq" -> Truth(a = b)
      [] op = "lt" -> Truth(a < b)
      [] op = "gt" -> Truth(a > b)

Running == <<"running">>
Trap == <<"trap">>
Stuck == <<"no phi entry">>

Garbage == 1    \* in a stack variable before the first store

\* m: the block to enter and the one before it, registers, the global cell and
\* those of stack variables, by the register of their alloca, what the outside
\* world has seen, and how the execution ended.
Start(f, x) ==
    [at |-> Entry(f), from |-> 0, env |-> [r \in 0 .. NumRegs - 1 |-> IF r \in Params(f) THEN x[r] ELSE 0],
     mem |-> 0, cells |-> [r \in 0 .. NumRegs - 1 |-> Garbage], events |-> <<>>, end |-> Running]

Eval(m, v) == IF IsReg(v) THEN m.env[v.num] ELSE v.num
Assign(m, r, v) == [m EXCEPT !.env[r] = v]
Observe(m, e) == [m EXCEPT !.events = Append(@, e)]

\* All phis of the block read before any of them writes.
EnterBlock(f, m) ==
    LET phis == SelectSeq(Insts(f, m.at), IsPhi)
        Defines(r) == \E i \in ToSet(phis) : i.dest = r
    IN  IF \E i \in ToSet(phis) : m.from \notin DOMAIN i.in THEN [m EXCEPT !.end = Stuck]
        ELSE [m EXCEPT !.env = [r \in DOMAIN m.env |->
                IF Defines(r) THEN Eval(m, (CHOOSE i \in ToSet(phis) : i.dest = r).in[m.from])
                ELSE m.env[r]]]

\* A call returns, and leaves in memory, something that depends on the calls
\* before it.
ExecInst(m, i) ==
    LET v(k) == Eval(m, i.args[k])
        calls == Len(m.events)
    IN  CASE m.end # Running \/ IsPhi(i) -> m
          [] i.op = "copy" -> Assign(m, i.dest, v(1))
          [] i.op = "alloca" -> m
          [] i.op = "load" -> Assign(m, i.dest, IF i.args = <<>> THEN m.mem ELSE m.cells[i.args[1].num])
          [] i.op = "store" /\ Len(i.args) = 2 -> [m EXCEPT !.cells[i.args[2].num] = v(1)]
          [] i.op = "callref" ->
               LET r == i.args[1].num
               IN  Observe(Assign([m EXCEPT !.cells[r] = Wrap(@ + 1)], i.dest, Wrap(calls)), <<"call", m.cells[r]>>)
          [] i.op = "store" /\ Len(i.args) = 1 -> Observe([m EXCEPT !.mem = v(1)], <<"store", v(1)>>)
          [] i.op = "call" -> Observe(Assign([m EXCEPT !.mem = Wrap(@ + 1)], i.dest, Wrap(calls)), <<"call", v(1)>>)
          [] i.op = "div" /\ v(2) = 0 -> [m EXCEPT !.end = Trap]
          [] OTHER -> Assign(m, i.dest, Compute(i.op, v(1), v(2)))

ExecTerm(f, m) ==
    LET t == Term(f, m.at)
        Goto(b) == [m EXCEPT !.at = b, !.from = m.at]
    IN  CASE m.end # Running -> m
          [] t.op = "ret" -> [m EXCEPT !.end = <<"returned", Eval(m, t.arg[1])>>]
          [] t.op = "br" -> Goto(t.to[1])
          [] t.op = "brcond" -> Goto(IF Eval(m, t.arg[1]) # 0 THEN t.to[1] ELSE t.to[2])

RECURSIVE Exec(_, _, _)
Exec(f, m, fuel) ==
    IF fuel = 0 \/ m.end # Running THEN m
    ELSE Exec(f, ExecTerm(f, FoldLeft(ExecInst, EnterBlock(f, m), Insts(f, m.at))), fuel - 1)

\* What a caller with arguments x can tell about f.
Outcome(f, x) ==
    LET m == Exec(f, Start(f, x), Fuel) IN [events |-> m.events, end |-> m.end]

\* new does what old does.  Dividing by zero may be left out when the result
\* is not used, so after a trap nothing is promised; an execution that is
\* still running only promises what it has done so far.
Preserves(old, new) ==
    IF old.end \in {Trap, Running} THEN IsPrefix(old.events, new.events) ELSE new = old

-----------------------------------------------------------------------------
(* SSA form: ir_func_verify_ssa.                                           *)

Position(f, b, r) == CHOOSE k \in DOMAIN Insts(f, b) : Insts(f, b)[k].dest = r
Defined(f, r) == r \in ToSet(Dests(f))

\* ssa_check_reg_use_dom: the definition of r is above place k of block b.
DefinitionReaches(f, r, b, k) ==
    r \in Params(f) \/
    (Defined(f, r) /\ Dominates(f, DefBlock(f, r), b) /\ (DefBlock(f, r) = b => Position(f, b, r) < k))

SingleDefs(f) ==
    /\ IsInjective(Dests(f))
    /\ ToSet(Dests(f)) \cap Params(f) = {}

Regs(S) == {v.num : v \in {u \in S : IsReg(u)}}
UsesReached(f) ==
    \A b \in Reachable(f) :
        /\ \A k \in DOMAIN Insts(f, b) : \A r \in Regs(ToSet(Insts(f, b)[k].args)) : DefinitionReaches(f, r, b, k)
        /\ \A r \in Regs(ToSet(Term(f, b).arg)) : DefinitionReaches(f, r, b, Len(Insts(f, b)) + 1)

PhiInsts(f, b) == {i \in ToSet(Insts(f, b)) : IsPhi(i)}
PhisFirst(f, b) ==
    \A j, k \in DOMAIN Insts(f, b) : j < k /\ IsPhi(Insts(f, b)[k]) => IsPhi(Insts(f, b)[j])

\* ssa_check_phi: one entry per predecessor, and no entry for another block.
PhiMatchesPreds(f, b, i) ==
    /\ DOMAIN i.in = Preds(f, b)
    /\ Cardinality(PredEdges(f, b)) = Cardinality(Preds(f, b))
PhiValuesReach(f, i) ==
    \A p \in DOMAIN i.in : IsReg(i.in[p]) => DefinitionReaches(f, i.in[p].num, p, Len(Insts(f, p)) + 1)

VerifySSA(f) ==
    /\ SingleDefs(f)
    /\ UsesReached(f)
    /\ \A b \in Blocks(f) : PhisFirst(f, b)
    /\ \A b \in Reachable(f) : \A i \in PhiInsts(f, b) : PhiMatchesPreds(f, b, i) /\ PhiValuesReach(f, i)
=============================================================================

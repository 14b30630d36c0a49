-------------------------------- MODULE Passes --------------------------------
(***************************************************************************)
(* The passes of the optimiser that work on SSA form, each as a function   *)
(* from the IR of a function to the pair of its new IR and what the pass   *)
(* reports: ir_canon.c, ir_instcombine.c, ir_sccp.c, ir_constfold.c,       *)
(* ir_copyprop.c, ir_gvn.c, ir_cse.c, ir_dce.c, ir_cfg_simplify.c,         *)
(* ir_licm.c and ir_loop.c, under src/src/middleend/.                      *)
(*                                                                         *)
(* All values have one type, so what the passes do about types is left     *)
(* out; so are floating-point numbers and failures of allocation.          *)
(***************************************************************************)
EXTENDS IR

Report(f, changed) == [func |-> f, changed |-> changed]
Rewritten(f, g) == Report(g, g # f)

MapInsts(f, Op(_)) ==
    [f EXCEPT !.body = [b \in Blocks(f) |->
        [insts |-> [k \in DOMAIN Insts(f, b) |-> Op(Insts(f, b)[k])], term |-> Term(f, b)]]]
KeepInsts(f, Test(_)) ==
    [f EXCEPT !.body = [b \in Blocks(f) |->
        [insts |-> SelectSeq(Insts(f, b), Test), term |-> Term(f, b)]]]

\* Every use of a register in DOMAIN s, of phis and terminators too, becomes
\* the value s has for it.
Replaced(v, s) == IF IsReg(v) /\ v.num \in DOMAIN s THEN s[v.num] ELSE v
ReplaceUses(f, s) ==
    LET Args(a) == [k \in DOMAIN a |-> Replaced(a[k], s)]
    IN  [f EXCEPT !.body = [b \in Blocks(f) |->
            [insts |-> [k \in DOMAIN Insts(f, b) |->
                [Insts(f, b)[k] EXCEPT !.args = Args(@), !.in = [p \in DOMAIN @ |-> Replaced(@[p], s)]]],
             term |-> [Term(f, b) EXCEPT !.arg = Args(@)]]]]
RemoveDef(f, r) == KeepInsts(f, LAMBDA i : i.dest # r)

CopyOf(i, v) == Inst("copy", i.dest, <<v>>)

-----------------------------------------------------------------------------
(* ir_canon.c: constants go right, the lower register left.                *)

Commutative == {"add", "mul"}
Comparisons == {"eq", "lt", "gt"}
SwappedOp(op) == CASE op = "lt" -> "gt" [] op = "gt" -> "lt" [] OTHER -> op

OutOfOrderAlways(a, c) == IsReg(a) /\ IsReg(c)
OutOfOrder(a, c) ==
    \/ IsConst(a) /\ ~IsConst(c)
    \/ IsReg(a) /\ IsReg(c) /\ c.num < a.num

CanonInst(i) ==
    IF i.op \in Commutative \cup Comparisons /\ OutOfOrder(i.args[1], i.args[2])
      THEN [i EXCEPT !.op = SwappedOp(@), !.args = Reverse(@)]
      ELSE i
Canon(f) == Rewritten(f, MapInsts(f, CanonInst))

-----------------------------------------------------------------------------
(* ir_instcombine.c: identities become copies.                             *)

SimplifyPhi(i) ==
    IF Cardinality(Range(i.in)) = 1 THEN CopyOf(i, CHOOSE v \in Range(i.in) : TRUE) ELSE i

SimplifyArith(i) ==
    LET a == i.args[1]
        c == i.args[2]
    IN  CASE i.op \in {"add", "sub"} /\ c = Const(0) -> CopyOf(i, a)
          [] i.op = "mul" /\ c = Const(1) -> CopyOf(i, a)
          [] i.op = "mul" /\ c = Const(0) -> CopyOf(i, Const(0))
          [] i.op \in Comparisons /\ a = c -> CopyOf(i, Const(Truth(i.op = "eq")))
          [] OTHER -> i

InstCombine(f) ==
    Rewritten(f, MapInsts(f, LAMBDA i : IF IsPhi(i) THEN SimplifyPhi(i) ELSE SimplifyArith(i)))

-----------------------------------------------------------------------------
(* ir_sccp.c: constants and reachable blocks together.  s is the state of  *)
(* the analysis: the lattice value of every register, the blocks reached,  *)
(* and for every block the targets of its terminator that may be taken.    *)

MaxSweeps == 64
Undef == <<"undef">>
Over == <<"over">>
ConstL(c) == <<"const", c>>

Join(x, y) ==
    CASE x = Undef -> y
      [] y = Undef -> x
      [] x = y -> x
      [] OTHER -> Over

LatticeOf(s, v) == IF IsConst(v) THEN ConstL(Wrap(v.num)) ELSE s.val[v.num]

\* sccp_pred_edge_feasible_to: only the first target that is b counts.
EdgeFeasible(f, s, p, b) ==
    /\ p \in Blocks(f)
    /\ \E k \in DOMAIN Succs(f, p) :
         /\ Succs(f, p)[k] = b
         /\ \A j \in 1 .. k - 1 : Succs(f, p)[j] # b
         /\ k \in s.feasible[p]

JoinPhi(f, s, b, i) ==
    FoldSet(Join, Undef, {LatticeOf(s, i.in[p]) : p \in {q \in DOMAIN i.in : EdgeFeasible(f, s, q, b)}})

FoldOp(op, x, y) ==
    IF op = "div" /\ y = 0 THEN Over ELSE ConstL(Compute(op, x, y))

EvalInst(f, s, b, i) ==
    LET x == LatticeOf(s, i.args[1])
        y == LatticeOf(s, i.args[2])
    IN  CASE IsPhi(i) -> JoinPhi(f, s, b, i)
          [] i.op = "copy" -> x
          [] i.op \in {"load", "call", "callref", "alloca"} -> Over
          [] Over \in {x, y} -> Over
          [] Undef \in {x, y} -> Undef
          [] OTHER -> FoldOp(i.op, x[2], y[2])

FeasibleTargets(s, t) ==
    IF t.op # "brcond" THEN DOMAIN t.to
    ELSE LET c == LatticeOf(s, t.arg[1])
         IN  IF c \in {Undef, Over} THEN {1, 2} ELSE IF c[2] # 0 THEN {1} ELSE {2}

\* A block that is reached: its targets are forgotten first, then its
\* instructions and its terminator are looked at.
SweepBlock(f, s, b) ==
    LET Visit(t, i) ==
            IF i.dest = NoReg THEN t
            ELSE [t EXCEPT !.val[i.dest] = Join(@, EvalInst(f, t, b, i))]
        before == [s EXCEPT !.feasible[b] = {}]
        after == FoldLeft(Visit, before, Insts(f, b))
        taken == FeasibleTargets(after, Term(f, b))
    IN  IF b \notin s.reached THEN s
        ELSE [after EXCEPT !.feasible[b] = taken, !.reached = @ \cup {Succs(f, b)[k] : k \in taken}]
Sweep(f, s) == FoldLeft(LAMBDA t, b : SweepBlock(f, t, b), s, f.order)

\* What decides whether there is another sweep: values and blocks reached.
Known(s) == <<s.val, s.reached>>
RECURSIVE Sweeps(_, _, _)
Sweeps(f, s, n) ==
    LET t == Sweep(f, s)
    IN  IF n = 0 \/ Known(t) = Known(s) THEN s ELSE Sweeps(f, t, n - 1)

SCCPStart(f) ==
    [val |-> [r \in 0 .. NumRegs - 1 |-> IF r \in Params(f) THEN Over ELSE Undef],
     reached |-> {Entry(f)}, feasible |-> [b \in Blocks(f) |-> {}]]

\* sccp_simplify_brcond
SimplifyBrCond(f, b, s) ==
    LET t == Term(f, b)
    IN  IF t.op = "brcond" /\ LatticeOf(s, t.arg[1]) \notin {Undef, Over}
          THEN Br(t.to[CHOOSE k \in FeasibleTargets(s, t) : TRUE])
          ELSE t

SimplifyBranches(f, s) ==
    [f EXCEPT !.body = [b \in Blocks(f) |-> [insts |-> Insts(f, b), term |-> SimplifyBrCond(f, b, s)]]]
PropagateConstants(f, s) ==
    LET known == {r \in 0 .. NumRegs - 1 : s.val[r] \notin {Undef, Over}}
    IN  SimplifyBranches(ReplaceUses(f, [r \in known |-> Const(s.val[r][2])]), s)
SCCPReport(f, s) ==
    LET g == PropagateConstants(f, s) IN Report(g, Known(s) # Known(SCCPStart(f)) \/ g # f)
SCCP(f) == SCCPReport(f, Sweeps(f, SCCPStart(f), MaxSweeps))

-----------------------------------------------------------------------------
(* ir_constfold.c, ir_copyprop.c.                                          *)

Foldable(i) ==
    /\ i.op \in {"add", "sub", "mul", "div"} \cup Comparisons
    /\ IsConst(i.args[1]) /\ IsConst(i.args[2])
    /\ ~(i.op = "div" /\ i.args[2] = Const(0))

\* One definition after the other, in layout order, each seeing the constants
\* of those before it.
FoldDef(f, r) ==
    LET i == DefInst(f, r)
    IN  IF Foldable(i)
          THEN RemoveDef(ReplaceUses(f, [q \in {r} |-> Const(Compute(i.op, i.args[1].num, i.args[2].num))]), r)
          ELSE f
ConstFold(f) == Rewritten(f, FoldLeft(FoldDef, f, Dests(f)))

CopyDests(f) == {i.dest : i \in {j \in ToSet(AllInsts(f)) : j.op = "copy"}}
\* ir_canonicalize_value: the end of a chain of copies.
CopySource(f, v) ==
    LET Follow(u, k) == IF IsReg(u) /\ u.num \in CopyDests(f) THEN DefInst(f, u.num).args[1] ELSE u
    IN  FoldLeftDomain(Follow, v, Dests(f))
CopyProp(f) ==
    LET g == ReplaceUses(f, [r \in CopyDests(f) |-> CopySource(f, RegV(r))])
    IN  Report(KeepInsts(g, LAMBDA i : i.op # "copy"), CopyDests(f) # {})

-----------------------------------------------------------------------------
(* ir_gvn.c: value numbers along the dominator tree.  The number of a      *)
(* value is named by what first had it: a constant, a definition, or a     *)
(* register met in a phi before its definition.                            *)

DomChildren(f, b) ==
    SelectSeq(f.order, LAMBDA c :
        /\ c # b /\ Dominates(f, b, c)
        /\ \A a \in Blocks(f) \ {c} : Dominates(f, a, c) => Dominates(f, a, b))
\* Children are visited last first.
RECURSIVE DomPreorder(_, _)
DomPreorder(f, b) ==
    LET kids == DomChildren(f, b)
    IN  <<b>> \o FlattenSeq([k \in DOMAIN kids |-> DomPreorder(f, kids[Len(kids) + 1 - k])])

Unvisited == <<"none">>
NumberOf(g, v) ==
    CASE IsConst(v) -> <<"const", v.num>>
      [] IsReg(v) /\ g.number[v.num] = Unvisited -> <<"early", v.num>>
      [] OTHER -> g.number[v.num]

Eligible(i) == i.op \in {"add", "sub", "mul", "div"} \cup Comparisons
\* An expression is known while the walk is below the block it is in.
InScope(g, e, b) == Dominates(g.func, e.block, b)
NumberInst(g, b, r) ==
    LET i == DefInst(g.func, r)
        own == <<"def", r>>
        expr == <<i.op, [k \in DOMAIN i.args |-> NumberOf(g, i.args[k])]>>
        same == {e \in g.exprs : e.expr = expr /\ InScope(g, e, b)}
        entries == {NumberOf(g, i.in[p]) : p \in DOMAIN i.in}
        Number(n) == [g EXCEPT !.number[r] = n]
    IN  CASE i.op = "copy" -> Number(NumberOf(g, i.args[1]))
          [] IsPhi(i) -> Number(IF Cardinality(entries) = 1 THEN CHOOSE n \in entries : TRUE ELSE own)
          [] ~Eligible(i) -> Number(own)
          [] Eligible(i) /\ same = {} ->
               [Number(own) EXCEPT !.exprs = @ \cup {[expr |-> expr, reg |-> r, block |-> b]}]
          [] OTHER ->
               LET found == (CHOOSE e \in same : TRUE).reg
               IN  [Number(g.number[found]) EXCEPT
                      !.func = RemoveDef(ReplaceUses(g.func, [q \in {r} |-> RegV(found)]), r)]

BlockDests(f, b) == SelectSeq([k \in DOMAIN Insts(f, b) |-> Insts(f, b)[k].dest], LAMBDA r : r # NoReg)
NumberBlock(g, b) == FoldLeft(LAMBDA h, r : NumberInst(h, b, r), g, BlockDests(g.func, b))
GVN(f) ==
    LET start == [func |-> f, exprs |-> {},
                  number |-> [r \in 0 .. NumRegs - 1 |-> IF r \in Params(f) THEN <<"def", r>> ELSE Unvisited]]
    IN  Rewritten(f, FoldLeft(NumberBlock, start, DomPreorder(f, Entry(f))).func)

-----------------------------------------------------------------------------
(* ir_cse.c: the table keeps every expression met in layout order, and one *)
(* is reused where its block dominates.                                    *)

UsableAnywhere(f, e, b) == TRUE
Usable(f, e, b) == Dominates(f, e.block, b)

\* c: the table, newest entry first, and the replacements found so far.
Lookup(f, c, b, i) ==
    LET match == SelectSeq(c.table, LAMBDA e : e.expr = <<i.op, i.args>> /\ Usable(f, e, b))
    IN  CASE ~Eligible(i) -> c
          [] Eligible(i) /\ match # <<>> ->
               [c EXCEPT !.repl = [r \in DOMAIN @ \cup {i.dest} |-> IF r = i.dest THEN RegV(match[1].reg) ELSE @[r]]]
          [] OTHER ->
               [c EXCEPT !.table = Cons([expr |-> <<i.op, i.args>>, reg |-> i.dest, block |-> b], @)]
CSE(f) ==
    LET start == [table |-> <<>>, repl |-> NoEntries]
        OfBlock(c, b) == FoldLeft(LAMBDA d, i : Lookup(f, d, b, i), c, Insts(f, b))
        repl == FoldLeft(OfBlock, start, f.order).repl
    IN  Report(KeepInsts(ReplaceUses(f, repl), LAMBDA i : i.dest \notin DOMAIN repl), repl # NoEntries)

-----------------------------------------------------------------------------
(* ir_dce.c                                                                *)

WithBlocks(f, B) ==
    [f EXCEPT !.order = SelectSeq(@, LAMBDA b : b \in B), !.body = [b \in B |-> @[b]]]

PrunePhi(i, live) == [i EXCEPT !.in = Restrict(@, DOMAIN @ \cap live)]
RemoveUnreachable(f) ==
    LET live == Reachable(f) IN WithBlocks(MapInsts(f, LAMBDA i : PrunePhi(i, live)), live)

HasSideEffects(i) == i.op \in {"store", "call", "callref"}
RemoveUnused(f) ==
    LET used == Regs(UsesOf(f))
    IN  KeepInsts(f, LAMBDA i : i.dest = NoReg \/ i.dest \in used \/ HasSideEffects(i))

DCE(f) ==
    LET g == RemoveUnreachable(f)
        h == FoldLeftDomain(LAMBDA x, k : RemoveUnused(x), g, Dests(g))
    IN  Report(h, Blocks(g) # Blocks(f) \/ h # g)

-----------------------------------------------------------------------------
(* ir_cfg_simplify.c                                                       *)

RemoveRedundantBrCond(f) ==
    [f EXCEPT !.body = [b \in Blocks(f) |->
        [insts |-> Insts(f, b),
         term |-> IF Term(f, b).op = "brcond" /\ Succs(f, b)[1] = Succs(f, b)[2] THEN Br(Succs(f, b)[1]) ELSE Term(f, b)]]]

HasPhi(f, b) == Insts(f, b) # <<>> /\ IsPhi(Insts(f, b)[1])

\* A block that only jumps.  If there are phis at the target, their entry for
\* b can be given to its predecessor only if that is one, without an entry.
Removable(f, b) ==
    /\ b # Entry(f) /\ Insts(f, b) = <<>> /\ Term(f, b).op = "br" /\ Succs(f, b)[1] # b
    /\ LET t == Succs(f, b)[1]
       IN  HasPhi(f, t) => /\ Cardinality(PredEdges(f, b)) = 1
                           /\ \A i \in PhiInsts(f, t) : Preds(f, b) \cap DOMAIN i.in = {}

EntryKept(i, b, p) == i
EntryMoved(i, b, p) ==
    IF b \notin DOMAIN i.in THEN i
    ELSE [i EXCEPT !.in = [q \in (DOMAIN @ \ {b}) \cup {p} |-> IF q = p THEN @[b] ELSE @[q]]]
Retarget(t, old, new) == [t EXCEPT !.to = [k \in DOMAIN @ |-> IF @[k] = old THEN new ELSE @[k]]]

RemoveBlock(f, b) ==
    LET t == Succs(f, b)[1]
        p == CHOOSE q \in Preds(f, b) : TRUE
        Moved(i) == IF IsPhi(i) THEN EntryMoved(i, b, p) ELSE i
        g == IF HasPhi(f, t) THEN WithInsts(f, t, [k \in DOMAIN Insts(f, t) |-> Moved(Insts(f, t)[k])]) ELSE f
        h == [g EXCEPT !.body = [c \in Blocks(g) |->
                [insts |-> Insts(g, c), term |-> Retarget(Term(g, c), b, t)]]]
    IN  WithBlocks(h, Blocks(h) \ {b})

\* The first block that can go is removed, and the search starts over.
RemoveTrivial(f) ==
    LET gone == SelectSeq(f.order, LAMBDA b : Removable(f, b))
    IN  IF gone = <<>> THEN f ELSE RemoveBlock(f, gone[1])

CfgSimplify(f) ==
    Rewritten(f, FoldLeftDomain(LAMBDA x, k : RemoveTrivial(x), RemoveRedundantBrCond(f), f.order))

-----------------------------------------------------------------------------
(* ir_loop.c, ir_licm.c                                                    *)

\* Natural loop of the back edge tail -> head.  The walk back starts at tail
\* even when that is head itself.
NaturalLoop(f, head, tail) ==
    LET Back(S, k) == S \cup UNION {Preds(f, b) : b \in IF head = tail THEN S ELSE S \ {head}}
    IN  FoldLeftDomain(Back, {tail}, f.order) \cup {head}

BackEdges(f, h) == {t \in Blocks(f) : h \in ToSet(Succs(f, t)) /\ Dominates(f, h, t)}
LoopOf(f, h) == UNION {NaturalLoop(f, h, t) : t \in BackEdges(f, h)}

\* Headers in the order their first back edge is met.
Headers(f) ==
    LET targets == FlattenSeq([k \in DOMAIN f.order |->
                      SelectSeq(Succs(f, f.order[k]), LAMBDA h : f.order[k] \in BackEdges(f, h))])
    IN  FoldLeft(LAMBDA s, h : IF h \in ToSet(s) THEN s ELSE Append(s, h), <<>>, targets)

OutsideEdges(f, h) == {e \in PredEdges(f, h) : e[1] \notin LoopOf(f, h)}

DivisionsToo(i) == i.op \in {"add", "sub", "mul", "div", "copy"} \cup Comparisons
SafeToHoist(i) == i.op \in {"add", "sub", "mul", "copy"} \cup Comparisons
Invariant(f, body, v) ==
    IsConst(v) \/ v.num \in Params(f) \/ (Defined(f, v.num) /\ DefBlock(f, v.num) \notin body)

\* The instruction that defines r moves to the end of the preheader.
HoistDef(f, r, body, pre) ==
    LET i == DefInst(f, r)
        g == RemoveDef(f, r)
    IN  IF SafeToHoist(i) /\ \A v \in Reads(i) : Invariant(f, body, v)
          THEN WithInsts(g, pre, Append(Insts(g, pre), i))
          ELSE f

HoistLoop(f, body, pre) ==
    LET within == SelectSeq(f.order, LAMBDA b : b \in body)
        dests(g) == FlattenSeq([k \in DOMAIN within |-> BlockDests(g, within[k])])
        Once(g, k) == FoldLeft(LAMBDA x, r : HoistDef(x, r, body, pre), g, dests(g))
    IN  FoldLeftDomain(Once, f, dests(f))

LICM(f) ==
    LET Each(g, h) ==
            IF Cardinality(OutsideEdges(f, h)) = 1
              THEN HoistLoop(g, LoopOf(f, h), (CHOOSE e \in OutsideEdges(f, h) : TRUE)[1])
              ELSE g
    IN  Rewritten(f, FoldLeft(Each, f, Headers(f)))
=============================================================================

------------------------------ MODULE MCOptimizer ------------------------------
(* Functions for the optimiser: two parameters, registers 0 and 1, and eight *)
(* shapes of code.         MCFunctions has no block that can become its own *)
(* successor: EmptyLoop is apart.                                            *)
EXTENDS Optimizer

Block(insts, term) == [insts |-> insts, term |-> term]
Case2(p, v, q, w) == [x \in {p, q} |-> IF x = p THEN v ELSE w]
R(r) == RegV(r)

\* One block, with an expression that can fold, simplify or stay.
Straight ==
    {Func(2, <<1>>, <<Block(<<Inst(op, 2, <<a, c>>), Inst("add", 3, <<R(2), R(1)>>)>>, Ret(v))>>) :
        op \in {"add", "mul", "div", "lt"}, a \in {R(0), Const(0)}, c \in {R(0), Const(1), Const(0)}, v \in {R(3), R(0)}}

\* if without else; the condition may be a constant.
IfThen ==
    {Func(2, <<1, 2, 3>>, <<
        Block(<<Inst("add", 2, <<R(1), R(0)>>), Inst(cmp, 3, <<c, R(0)>>)>>, BrCond(R(3), 2, 3)),
        Block(<<Inst("add", 4, <<R(0), R(1)>>), Inst(eff, 7, <<R(4)>>)>>, Br(3)),
        Block(<<Phi(5, Case2(1, v, 2, w)), Inst("sub", 6, <<R(5), R(2)>>)>>, Ret(R(6)))>>) :
        cmp \in {"eq", "gt"}, c \in {R(0), R(1), Const(0)}, eff \in {"call", "load"},
        v \in {R(2), Const(0)}, w \in {R(4), Const(0)}}

\* if with else: the same expression in both branches and after them.
Diamond ==
    {Func(2, <<1, 2, 3, 4>>, <<
        Block(first, BrCond(R(1), 2, 3)),
        Block(<<Inst(op, 3, <<R(0), R(1)>>)>>, Br(4)),
        Block(<<Inst(op, 4, <<R(0), R(1)>>), Inst("call", 7, <<R(4)>>)>>, Br(4)),
        Block(<<Phi(5, Case2(2, R(3), 3, w)), Inst(op, 6, <<R(0), R(1)>>), Inst("sub", 8, <<R(5), R(6)>>)>>, Ret(v))>>) :
        first \in {<<>>, <<Inst("mul", 2, <<R(1), R(0)>>)>>}, op \in {"mul", "div"},
        w \in {R(4), R(0)}, v \in {R(8), R(6)}}

\* A loop whose body does something: a call or a store of an expression that
\* does not depend on the loop.
Loop ==
    {Func(2, <<1, 2, 3, 4>>, <<
        Block(<<>>, Br(2)),
        Block(<<Phi(2, Case2(1, start, 3, R(5))), Inst("lt", 3, <<R(2), bound>>)>>, BrCond(R(3), 3, 4)),
        Block(<<Inst(op, 4, <<R(0), R(1)>>), eff, Inst("add", 5, <<R(2), Const(1)>>)>>, Br(2)),
        Block(<<Inst("add", 6, <<R(2), R(0)>>)>>, Ret(v))>>) :
        start \in {Const(0), R(1)}, bound \in {R(0), Const(0)}, op \in {"mul", "div"},
        eff \in {Inst("call", 7, <<R(4)>>), Inst("store", NoReg, <<R(4)>>)}, v \in {R(6), R(2)}}

\* Branches with nothing in them.
Empty ==
    {Func(2, <<1, 2, 3, 4>>, <<
        Block(<<Inst("eq", 2, <<R(0), c>>)>>, BrCond(R(2), 2, 3)),
        Block(<<>>, Br(4)),
        Block(<<>>, Br(to)),
        Block(IF to = 4 THEN <<Phi(3, Case2(2, v, 3, R(1)))>> ELSE <<Phi(3, [p \in {2} |-> v])>>, Ret(R(3)))>>) :
        c \in {R(1), Const(0)}, v \in {Const(1), R(0)}, to \in {4, 2}}

Store(v, p) == Inst("store", NoReg, <<v, R(p)>>)
Load(r, p) == Inst("load", r, <<R(p)>>)
Alloca(r) == Inst("alloca", r, <<>>)

\* A variable set before an if, in it, or both; its address may be taken.
VarIf ==
    {Func(2, <<1, 2, 3>>, <<
        Block(<<Alloca(2)>> \o first \o <<Inst("eq", 3, <<R(0), c>>)>>, BrCond(R(3), 2, 3)),
        Block(second, Br(3)),
        Block(<<Load(4, 2)>>, Ret(R(4)))>>) :
        first \in {<<>>, <<Store(R(1), 2)>>}, c \in {R(1), Const(0)},
        second \in {<<>>, <<Store(R(0), 2)>>, <<Inst("callref", 5, <<R(2)>>)>>, <<Load(5, 2), Store(R(5), 2)>>}}

\* A counter, a variable of the loop body, and one the loop only reads.
VarLoop ==
    {Func(2, <<1, 2, 3, 4>>, <<
        Block(<<Alloca(2), Store(Const(0), 2), Alloca(9), Store(R(1), 9)>>, Br(2)),
        Block(<<Load(3, 2), Inst("lt", 4, <<R(3), R(0)>>)>>, BrCond(R(4), 3, 4)),
        Block(body \o <<Load(7, 2), Inst("add", 8, <<R(7), Const(1)>>), Store(R(8), 2)>>, Br(2)),
        Block(<<Load(10, 2)>>, Ret(R(10)))>>) :
        body \in {<<Alloca(5), Store(R(3), 5), Load(6, 5), Inst("call", 11, <<R(6)>>)>>,
                  <<Alloca(5), Load(6, 5), Inst("call", 11, <<R(6)>>), Store(R(3), 5)>>,
                  <<Load(6, 9), Inst("call", 11, <<R(6)>>), Store(R(11), 9)>>,
                  <<Load(6, 9), Inst("store", NoReg, <<R(6)>>)>>}}

\* A variable after a return.
VarDead ==
    {Func(2, <<1, 2>>, <<
        Block(<<>>, Ret(R(0))), Block(<<Alloca(2), Store(R(1), 2), Load(3, 2)>>, Ret(R(3)))>>)}

\* while (x++ < b) { }: nothing between the test and the next one.
EmptyLoop ==
    {Func(2, <<1, 2, 3, 4>>, <<
        Block(<<>>, Br(2)),
        Block(<<Phi(2, Case2(1, Const(0), 3, R(3))), Inst("add", 3, <<R(2), Const(1)>>), Inst("lt", 4, <<R(2), R(1)>>)>>,
              BrCond(R(4), 3, 4)),
        Block(<<>>, Br(2)),
        Block(<<>>, Ret(R(3)))>>)}

MCFunctions == Straight \cup IfThen \cup Diamond \cup Loop \cup Empty \cup VarIf \cup VarLoop \cup VarDead
MCInputs == [0 .. 1 -> {-2, 0, 1}]
=============================================================================

------------------------------ MODULE LowerStmt -------------------------------
(***************************************************************************)
(* The lowering of statements, functions and programs                      *)
(* (src/src/middleend/ir_lower_stmt_impl.c, ir_lower_cf_stmt.c,            *)
(* ir_lower_program_impl.c): LowerProgram(decls, checks) gives the module, *)
(* or that the lowering failed.                                            *)
(***************************************************************************)
EXTENDS Lower

Store(g, v, a) == Emit(g, Ins("store", VOID, NoDest, <<v, a>>))
Alloca(g, T) == Result(g, "alloca", Ptr(T), <<>>)

\* What an index on the name goes through: for a pointer, what it points to.
PointeeOf(d) == IF d.kind # "array" /\ IsPointer(d.ty) THEN d.ty[2] ELSE NoType

-----------------------------------------------------------------------------
(* Constants of static storage.                                            *)

\* ir_lower_eval_const_i64: literals, minus and not, arithmetic, comparisons
\* and logic; <<>> otherwise.
RECURSIVE ConstValue(_)
ConstValue(e) ==
    LET x == ConstValue(e.args[1])
        y == ConstValue(e.args[2])
        a == x[1]
        b == y[1]
    IN  CASE e.kind \in {"int", "char"} -> <<e.v>>
          [] e.kind = "bool" -> <<Truth(e.v)>>
          [] e.kind = "un" /\ e.v \in {"-", "not"} ->
               IF x = <<>> THEN <<>> ELSE IF e.v = "-" THEN <<WrapTo(I64, -a)>> ELSE <<Truth(a = 0)>>
          [] e.kind = "bin" ->
               CASE x = <<>> \/ y = <<>> \/ (e.v \in {"/", "%"} /\ b = 0) -> <<>>
                 [] e.v = "and" -> <<Truth(a # 0 /\ b # 0)>>
                 [] e.v = "or" -> <<Truth(a # 0 \/ b # 0)>>
                 [] e.v \in AddOps -> <<WrapTo(I64, Arith(OpName[e.v], I64, a, b))>>
                 [] e.v \in RelOps -> <<Arith(PredName(e.v, FALSE), I64, a, b)>>
                 [] OTHER -> <<>>
          [] OTHER -> <<>>

TruncConst(T, n) == IF T = I1 THEN Truth(n # 0) ELSE WrapTo(T, n)

\* ir_lower_global_init_value: what it cannot evaluate is 0.
RECURSIVE GlobalInit(_, _)
GlobalInit(e, T) ==
    CASE e.kind = "char" /\ T = CHAR -> EncodeChar(e.v)
      [] e.kind = "member" -> IF e.to.as = "enum" THEN e.to.offset ELSE 0
      [] e.kind = "cast" -> GlobalInit(e.args[1], T)
      [] e.kind \in {"int", "bool", "char", "un", "bin"} ->
           IF ConstValue(e) = <<>> THEN 0 ELSE TruncConst(T, ConstValue(e)[1])
      [] OTHER -> 0

-----------------------------------------------------------------------------
(* Storage of a declaration.                                               *)

Count(dims) == FoldLeft(LAMBDA n, d : n * d, 1, dims)

\* Structures are bytes; a type without a size has no storage.
StorageType(d) ==
    CASE IsAggregate(d.ty) -> Arr(I8, Count(d.dims) * d.size)
      [] d.kind = "array" -> Arr(IRTypeOf(d.ty), Count(d.dims))
      [] OTHER -> IRTypeOf(d.ty)
HasStorage(d) == IsAggregate(d.ty) => d.size > 0

StaticInit(d) ==
    IF IsAggregate(d.ty) THEN <<>>
    ELSE [k \in 1 .. Min({Len(d.init), Count(d.dims)}) |-> GlobalInit(d.init[k], IRTypeOf(d.ty))]
NewGlobal(g, name, d) ==
    [g EXCEPT !.globals = Append(@, [name |-> name, ty |-> StorageType(d), init |-> StaticInit(d),
                                     pointee |-> PointeeOf(d), dims |-> d.dims])]

\* A static local is a global under a label of its own.
LowerStatic(g, d) ==
    LET label == "__baa_static_" \o g.fname \o "_" \o d.name \o "_" \o ToString(g.statics)
        made == NewGlobal([g EXCEPT !.statics = @ + 1], label, d)
    IN  Bind(made, StaticBinding(d.name, label, StorageType(d), PointeeOf(d), d.dims))

BindAlloca(g, d) ==
    LET a == Alloca(g, StorageType(d))
    IN  With(Bind(a.g, Binding(d.name, a.v.n, StorageType(d), PointeeOf(d), d.dims)), a.v)

\* Stores at base + k, the address first: the expression given, or zero.
StoreAt(g, base, k, T, given) ==
    LET at == Result(g, "ptr_offset", base.ty, <<base, Num(k, I64)>>)
        r == LowerExpr(at.g, given[1])
        v == IF given = <<>> THEN With(at.g, Num(0, T)) ELSE RawCast(r.g, r.v, T)
    IN  Store(v.g, v.v, at.v)

\* Elements given are stored in order, converted without regard to characters;
\* the rest of an array that is given any is zero.
LowerArray(g, d) ==
    LET T == IRTypeOf(d.ty)
        a == BindAlloca(g, d)
        base == Result(a.g, "cast", Ptr(T), <<a.v>>)
        Element(h, k) ==
            StoreAt(h, base.v, k - 1, T, IF k <= Len(d.init) THEN <<d.init[k]>> ELSE <<>>)
        filled == FoldLeft(Element, base.g, [k \in 1 .. Count(d.dims) |-> k])
    IN  CASE d.init = <<>> -> a.g
          [] IsAggregate(d.ty) -> Fail(a.g)
          [] OTHER -> filled

\* Zero stored in n bytes, one after the other.
Zeroed(g, base, n) ==
    LET Byte(k) ==
            LET at == Reg(g.next + k - 1, base.ty)
            IN  <<Ins("ptr_offset", base.ty, at.n, <<base, Num(k - 1, I64)>>), Ins("store", VOID, NoDest, <<Num(0, I8), at>>)>>
    IN  [g EXCEPT !.blocks[g.cur] = @ \o FlattenSeq([k \in 1 .. n |-> Byte(k)]), !.next = @ + n]

\* A structure given fields is zeroed first.
LowerStruct(g, d) ==
    LET a == BindAlloca(g, d)
        base == Result(a.g, "cast", Ptr(I8), <<a.v>>)
        zeroed == Zeroed(base.g, base.v, d.size)
        GiveField(h, f) ==
            LET T == IRTypeOf(f.ty)
                at == Result(h, "ptr_offset", Ptr(I8), <<base.v, Num(f.at, I64)>>)
                typed == Result(at.g, "cast", Ptr(T), <<at.v>>)
                r == LowerExpr(typed.g, f.e)
                v == RawCast(r.g, r.v, T)
            IN  Store(v.g, v.v, typed.v)
    IN  IF d.fields = <<>> THEN a.g ELSE FoldLeft(GiveField, zeroed, d.fields)

\* The name is bound before its initialiser is lowered, which sees it.
LowerScalar(g, d) ==
    LET T == IRTypeOf(d.ty)
        a == BindAlloca(g, d)
        r == IF d.init = <<>> THEN With(a.g, Num(0, T)) ELSE LowerExpr(a.g, d.init[1])
        v == CastTo(r.g, r.v, T)
    IN  Store(v.g, v.v, a.v)

LowerDecl(g, d) ==
    CASE ~HasStorage(d) \/ Count(d.dims) <= 0 -> Fail(g)
      [] d.static /\ d.kind = "array" /\ IsAggregate(d.ty) /\ d.init # <<>> -> Fail(LowerStatic(g, d))
      [] d.static -> LowerStatic(g, d)
      [] d.kind = "array" -> LowerArray(g, d)
      [] IsAggregate(d.ty) -> LowerStruct(g, d)
      [] OTHER -> LowerScalar(g, d)

-----------------------------------------------------------------------------
(* Simple statements.                                                      *)

\* The value first, converted to the type of the storage.
LowerAssign(g, s) ==
    LET r == LowerExpr(g, s.e)
        b == Find(g, s.name)
        v == CastTo(r.g, r.v, b.ty)
    IN  IF Known(g, s.name) THEN Store(v.g, v.v, Storage(b)) ELSE Fail(r.g)

\* An array is all that can be indexed on the left.
LowerElementAssign(g, s) ==
    LET a == Address(g, s.lv)
        r == LowerExpr(a.g, s.e)
        v == RawCast(r.g, r.v, Pointee(a.v.ty))
        b == Find(g, s.lv.v)
    IN  IF ~Known(g, s.lv.v) \/ ~IsArr(b.ty) \/ IsAggregate(s.lv.ty) THEN Fail(g) ELSE Store(v.g, v.v, a.v)

LowerMemberAssign(g, s) ==
    LET a == Address(g, s.lv)
        r == LowerExpr(a.g, s.e)
        v == RawCast(r.g, r.v, Pointee(a.v.ty))
    IN  IF s.lv.to.as # "field" \/ IsAggregate(s.lv.ty) THEN Fail(g) ELSE Store(v.g, v.v, a.v)

LowerDerefAssign(g, s) ==
    LET a == DerefAddress(g, s.lv)
        r == LowerExpr(a.g, s.e)
        v == CastTo(r.g, r.v, Pointee(a.v.ty))
    IN  Store(v.g, v.v, a.v)

LowerReturn(g, s) ==
    LET r == LowerExpr(g, s.e[1])
        v == CastTo(r.g, r.v, g.ret)
    IN  IF s.e = <<>> THEN Emit(g, RetIns(<<>>)) ELSE Emit(v.g, RetIns(<<v.v>>))

LowerPrint(g, s) ==
    LET r == LowerExpr(g, s.e)
        v == CastTo(r.g, r.v, IF IsUnsigned(s.e.ty) THEN U64 ELSE I64)
    IN  IF r.v.ty = CHAR THEN Emit(r.g, CallIns("print_char", VOID, NoDest, <<r.v>>))
        ELSE Emit(v.g, CallIns("print", VOID, NoDest, <<v.v>>))

\* A local only; a narrow one is read through a word.
LowerRead(g, s) ==
    LET b == Find(g, s.name)
        at == Reg(b.reg, Ptr(b.ty))
        ReadInto(h, a) == Emit(h, CallIns("read", VOID, NoDest, <<a>>))
        word == Alloca(g, I64)
        n == Load(With(ReadInto(Store(word.g, Zero, word.v), word.v), word.v))
        v == CastTo(n.g, n.v, b.ty)
    IN  CASE ~Local(g, s.name) -> Fail(g)
          [] b.ty \in {I64, U64} -> ReadInto(g, at)
          [] OTHER -> Store(v.g, v.v, at)

-----------------------------------------------------------------------------
(* Control.                                                                *)

BrCond(g, v, yes, no) == Emit(g, BrCondIns(v, yes, no))
Jump(g, b) == IF b = NoBlock THEN Fail(g) ELSE Goto(g, b)
LowerCond(g, e) == LET r == LowerExpr(g, e) IN ToBool(r.g, r.v)

RECURSIVE LowerStmt(_, _)
LowerList(g, ss) == FoldLeft(LAMBDA h, s : IF h.err THEN h ELSE LowerStmt(h, s), g, ss)
LowerScoped(g, s) == ScopePop(LowerStmt(ScopePush(g), s))

LowerIf(g, s) ==
    LET hasElse == s.no # <<>>
        yes == NextBlock(g)
        merge == yes + 1
        no == IF hasElse THEN yes + 2 ELSE merge
        c == LowerCond(NewBlocks(g, IF hasElse THEN 3 ELSE 2), s.c)
        split == IF IsTerminated(c.g) THEN c.g ELSE BrCond(c.g, c.v, yes, no)
        Arm(h, b, body) == Goto(LowerScoped(At(h, b), body), merge)
        first == Arm(split, yes, s.yes)
    IN  At(IF hasElse THEN Arm(first, no, s.no[1]) ELSE first, merge)

LowerWhile(g, s) ==
    LET header == NextBlock(g)
        exit == header + 2
        c == LowerCond(At(Goto(NewBlocks(g, 3), header), header), s.c)
        inside == At(BrCond(c.g, c.v, header + 1, exit), header + 1)
        body == Goto(LowerStmt(ScopePush(CfPush(inside, exit, header)), s.body), header)
    IN  At(CfPop(ScopePop(body)), exit)

\* A loop's continue goes to its step.  Only the parts of a for loop may be
\* expressions lowered for their effect.
LowerFor(g, s) ==
    LET Part(h, p) == CASE p = <<>> -> h
                         [] p # <<>> /\ p[1].kind = "expr" -> LowerExpr(h, p[1].e).g
                         [] OTHER -> LowerStmt(h, p[1])
        init == Part(ScopePush(g), s.init)
        header == NextBlock(init)
        body == header + 1
        inc == header + 2
        exit == header + 3
        top == At(Goto(NewBlocks(init, 4), header), header)
        c == LowerCond(top, s.cond[1])
        into == IF s.cond = <<>> THEN Goto(top, body) ELSE BrCond(c.g, c.v, body, exit)
        done == CfPop(Goto(LowerStmt(CfPush(At(into, body), exit, inc), s.body), inc))
    IN  ScopePop(At(Goto(Part(At(done, inc), s.inc), header), exit))

\* The value is compared with each label in turn, in blocks of their own; a
\* case that does not leave goes on with the next.
LowerSwitch(g, s) ==
    LET n == Len(s.cases)
        end == NextBlock(g)
        case(k) == IF k <= n THEN end + k ELSE end
        IsDefault(k) == s.cases[k].label = <<>>
        labels == SelectSeq([k \in 1 .. n |-> k], LAMBDA k : ~IsDefault(k))
        defaults == {k \in 1 .. n : IsDefault(k)}
        other == IF defaults = {} THEN end ELSE case(Max(defaults))
        inside == CfPush(NewBlocks(g, n + 1), end, CurrentContinue(g))
        v == LowerExpr(inside, s.e)
        Test(h, j) ==
            LET lab == LowerExpr(h, s.cases[labels[j]].label[1])
                eq == Result(lab.g, "eq", I1, <<v.v, lab.v>>)
                check == NextBlock(eq.g)
                more == IF j = Len(labels) THEN other ELSE check
                grown == IF j = Len(labels) THEN eq.g ELSE NewBlocks(eq.g, 1)
                split == BrCond(grown, eq.v, case(labels[j]), more)
            IN  IF j = Len(labels) THEN split ELSE At(split, check)
        tested == IF labels = <<>> THEN Goto(v.g, other) ELSE FoldLeftDomain(Test, v.g, labels)
        Body(h, k) == Goto(ScopePop(LowerList(ScopePush(At(h, case(k))), s.cases[k].body)), case(k + 1))
    IN  CfPop(At(FoldLeft(Body, tested, [k \in 1 .. n |-> k]), end))

\* lower_stmt: an expression other than a call is not a statement it knows.
LowerStmt(g, s) ==
    CASE s.kind \in {"decl", "array"} -> LowerDecl(g, s)
      [] s.kind = "block" -> ScopePop(LowerList(ScopePush(g), s.body))
      [] s.kind = "assign" -> LowerAssign(g, s)
      [] s.kind = "assign to" /\ s.lv.kind = "index" -> LowerElementAssign(g, s)
      [] s.kind = "assign to" /\ s.lv.kind = "member" -> LowerMemberAssign(g, s)
      [] s.kind = "assign to" /\ s.lv.kind = "un" -> LowerDerefAssign(g, s)
      [] s.kind = "if" -> LowerIf(g, s)
      [] s.kind = "while" -> LowerWhile(g, s)
      [] s.kind = "for" -> LowerFor(g, s)
      [] s.kind = "switch" -> LowerSwitch(g, s)
      [] s.kind = "break" -> Jump(g, CurrentBreak(g))
      [] s.kind = "continue" -> Jump(g, CurrentContinue(g))
      [] s.kind = "return" -> LowerReturn(g, s)
      [] s.kind = "print" -> LowerPrint(g, s)
      [] s.kind = "read" -> LowerRead(g, s)
      [] s.kind = "expr" -> IF s.e.kind = "call" THEN LowerCall(g, s.e).g ELSE Fail(g)

-----------------------------------------------------------------------------
(* Programs.                                                               *)

NewModule(checks) ==
    [blocks |-> <<>>, cur |-> NoBlock, next |-> 0, binds |-> <<>>, scopes |-> <<>>, ctrl |-> <<>>,
     err |-> FALSE, globals |-> <<>>, sigs |-> [x \in {} |-> 0], checks |-> checks, ret |-> VOID,
     fname |-> "", statics |-> 0, funcs |-> [x \in {} |-> 0]]

Signature(d) == [params |-> [k \in DOMAIN d.params |-> IRTypeOf(d.params[k].ty)], ret |-> IRTypeOf(d.ret)]

\* Parameters are stored in memory of their own; a function that may end
\* without a value is refused.
LowerFunc(g, d) ==
    LET entry == ScopePush([g EXCEPT !.blocks = <<<<>>>>, !.cur = 1, !.next = Len(d.params), !.binds = <<>>,
                              !.scopes = <<>>, !.ctrl = <<>>, !.ret = IRTypeOf(d.ret), !.fname = d.name, !.statics = 0])
        Param1(h, k) ==
            LET p == d.params[k]
                a == BindAlloca(h, Decl(p.name, p.ty, <<>>))
            IN  Store(a.g, Reg(k - 1, IRTypeOf(p.ty)), a.v)
        body == LowerStmt(FoldLeftDomain(Param1, entry, d.params), Block(d.body))
        ended == CASE IsTerminated(body) -> body
                   [] d.ret = VoidT -> Emit(body, RetIns(<<>>))
                   [] OTHER -> Fail(body)
        done == ScopePop(ended)
    IN  [done EXCEPT !.funcs = (d.name :> [params |-> Signature(d).params, ret |-> Signature(d).ret,
                                           blocks |-> done.blocks, next |-> done.next]) @@ @]

\* ir_lower_program: all signatures, then globals and functions in order.
LowerProgram(decls, checks) ==
    LET sigs == FoldLeft(LAMBDA h, d : IF d.kind = "func" THEN [h EXCEPT !.sigs = (d.name :> Signature(d)) @@ @] ELSE h,
                         NewModule(checks), decls)
        Each(h, d) ==
            CASE h.err -> h
              [] d.kind \in {"decl", "array"} -> IF HasStorage(d) THEN NewGlobal(h, d.name, d) ELSE h
              [] d.kind = "func" /\ ~d.proto -> LowerFunc(h, d)
              [] OTHER -> h
        all == FoldLeft(Each, sigs, decls)
    IN  [err |-> all.err, mod |-> [funcs |-> all.funcs, globals |-> all.globals]]
=============================================================================

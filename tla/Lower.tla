-------------------------------- MODULE Lower ---------------------------------
(***************************************************************************)
(* The lowering of the annotated tree to typed IR (src/src/middleend/      *)
(* ir_lower.c, ir_lower_ctx.c, ir_lower_helpers_core.c,                    *)
(* ir_lower_cf_helpers.c, ir_lower_expr_impl.c, ir_lower_stmt_impl.c,      *)
(* ir_lower_cf_stmt.c, ir_lower_program_impl.c).                           *)
(*                                                                         *)
(* Every operator takes the context g of the function being lowered: the   *)
(* blocks built so far and the one instructions are added to, the table of *)
(* bindings with the stack of scope starts, the stack of loop targets, the *)
(* globals and signatures of the module, the runtime checks asked for.     *)
(* It gives the context after, and the value of an expression with it.     *)
(***************************************************************************)
EXTENDS AST, TypedIR

CONSTANTS MaxLocals,    \* names bound at once (256)
          MaxScopes,    \* nested scopes (64)
          MaxControl    \* nested loops and switches (64)

IRTypeOf(t) ==
    CASE t = BoolT -> I1
      [] t = I8T -> I8
      [] t = U8T -> U8
      [] t = I32T -> I32
      [] t = U32T -> U32
      [] t = U64T -> U64
      [] t = CharT -> CHAR
      [] t = VoidT -> VOID
      [] IsPointer(t) -> Ptr(I8)
      [] OTHER -> I64

\* Bytes per element that an index on a pointer to this type steps over.
ElemSize(t) ==
    CASE t \in {BoolT, I8T, U8T} -> 1
      [] t \in {I32T, U32T} -> 4
      [] t \in {IntT, U64T, CharT} \/ IsPointer(t) -> 8
      [] OTHER -> 1

-----------------------------------------------------------------------------
(* The type of an arithmetic result.                                       *)

Rank(t) == CASE t \in {IntT, U64T} -> 64 [] IsEnum(t) \/ t \in IntTypes -> 32 [] OTHER -> 0
Promote(t) == IF t \in {BoolT, CharT, I8T, U8T} \/ IsEnum(t) THEN I32T ELSE t
IsUnsigned(t) == t \in {U8T, U32T, U64T}
UsualArith(a, b) ==
    LET p == Promote(a)
        q == Promote(b)
        u == IF IsUnsigned(p) THEN p ELSE q
        s == IF IsUnsigned(p) THEN q ELSE p
    IN  CASE p = q -> p
          [] Rank(p) = 0 \/ Rank(q) = 0 -> IntT
          [] IsUnsigned(p) = IsUnsigned(q) -> IF Rank(p) >= Rank(q) THEN p ELSE q
          [] Rank(u) > Rank(s) -> u
          [] Rank(s) > Rank(u) -> s
          [] OTHER -> IF Rank(s) >= 64 THEN U64T ELSE U32T
CommonType(a, b) == IRTypeOf(UsualArith(a, b))

-----------------------------------------------------------------------------
(* The context.                                                            *)

Fail(g) == [g EXCEPT !.err = TRUE]
Emit(g, i) == [g EXCEPT !.blocks[g.cur] = Append(@, i)]
At(g, b) == [g EXCEPT !.cur = b]
IsTerminated(g) == Terminated(g.blocks[g.cur])
NewBlocks(g, n) == [g EXCEPT !.blocks = @ \o [k \in 1 .. n |-> <<>>]]
NextBlock(g) == Len(g.blocks) + 1
Goto(g, b) == IF IsTerminated(g) THEN g ELSE Emit(g, BrIns(b))

With(g, v) == [g |-> g, v |-> v]
Zero == Num(0, I64)
Bad(g) == With(Fail(g), Zero)
\* An instruction with a fresh destination.
Result(g, op, T, args) == With([Emit(g, Ins(op, T, g.next, args)) EXCEPT !.next = @ + 1], Reg(g.next, T))
CallResult(g, fn, T, args) ==
    IF T = VOID THEN With(Emit(g, CallIns(fn, VOID, NoDest, args)), Zero)
    ELSE With([Emit(g, CallIns(fn, T, g.next, args)) EXCEPT !.next = @ + 1], Reg(g.next, T))

\* A slip: one scope fewer.
ScopePushEarly(g) == IF Len(g.scopes) >= MaxScopes - 1 THEN Fail(g) ELSE [g EXCEPT !.scopes = Append(@, Len(g.binds))]
ScopePush(g) == IF Len(g.scopes) >= MaxScopes THEN Fail(g) ELSE [g EXCEPT !.scopes = Append(@, Len(g.binds))]
ScopePop(g) ==
    IF g.scopes = <<>> THEN Fail(g)
    ELSE [g EXCEPT !.binds = SubSeq(@, 1, Last(g.scopes)), !.scopes = Front(@)]
ScopeStart(g) == IF g.scopes = <<>> THEN 0 ELSE Last(g.scopes)

\* A name: where it is stored (the register of its alloca or a global), the
\* type stored there, and what it points to, or the dimensions it has.
Binding(x, reg, T, pointee, dims) ==
    [name |-> x, reg |-> reg, ty |-> T, global |-> "", pointee |-> pointee, dims |-> dims]
StaticBinding(x, gname, T, pointee, dims) == [Binding(x, NoDest, T, pointee, dims) EXCEPT !.global = gname]
IsStatic(b) == b.global # ""

Named(bs, x) == {k \in DOMAIN bs : bs[k].name = x}
Bind(g, b) ==
    LET here == {k \in Named(g.binds, b.name) : k > ScopeStart(g)}
    IN  CASE here # {} -> [g EXCEPT !.binds[Max(here)] = b]
          [] here = {} /\ Len(g.binds) >= MaxLocals -> Fail(g)
          [] OTHER -> [g EXCEPT !.binds = Append(@, b)]

Local(g, x) == Named(g.binds, x) # {}
Global(g, x) == Named(g.globals, x) # {}
Known(g, x) == Local(g, x) \/ Global(g, x)
\* The latest local of that name, or the global.
Find(g, x) ==
    IF Local(g, x) THEN g.binds[Max(Named(g.binds, x))]
    ELSE LET d == g.globals[Max(Named(g.globals, x))]
         IN  StaticBinding(x, x, d.ty, d.pointee, d.dims)
Storage(b) == IF IsStatic(b) THEN Glob(b.global, b.ty) ELSE Reg(b.reg, Ptr(b.ty))

CfPush(g, brk, cont) ==
    IF Len(g.ctrl) >= MaxControl THEN Fail(g) ELSE [g EXCEPT !.ctrl = Append(@, [brk |-> brk, cont |-> cont])]
CfPop(g) == IF g.ctrl = <<>> THEN Fail(g) ELSE [g EXCEPT !.ctrl = Front(@)]
NoBlock == 0
CurrentBreak(g) == IF g.ctrl = <<>> THEN NoBlock ELSE Last(g.ctrl).brk
CurrentContinue(g) == IF g.ctrl = <<>> THEN NoBlock ELSE Last(g.ctrl).cont

-----------------------------------------------------------------------------
(* Conversions and runtime checks.                                         *)

RawCast(g, v, T) == IF v.ty = T THEN With(g, v) ELSE Result(g, "cast", T, <<v>>)

\* A character is unpacked to its code point first, and packed last.
CastTo(g, v, T) ==
    CASE v.ty = T -> With(g, v)
      [] v.ty = CHAR /\ T # CHAR ->
           LET d == Result(g, "decode", I64, <<v>>) IN IF T = I64 THEN d ELSE Result(d.g, "cast", T, <<d.v>>)
      [] T = CHAR /\ v.ty = I64 -> Result(g, "encode", CHAR, <<v>>)
      [] T = CHAR /\ v.ty = I32 -> LET w == Result(g, "cast", I64, <<v>>) IN Result(w.g, "encode", CHAR, <<w.v>>)
      [] OTHER -> Result(g, "cast", T, <<v>>)
EnsureI64(g, v) == CastTo(g, v, I64)
ToBool(g, v) == IF v.ty = I1 THEN With(g, v) ELSE Result(g, "ne", I1, <<v, Num(0, v.ty)>>)

FailureExitCode == 1
\* Goes on in a new block when ok holds; otherwise the process ends.
PassOrExit(g, ok) ==
    LET pass == NextBlock(g)
        fail == At(Emit(NewBlocks(g, 2), BrCondIns(ok, pass, pass + 1)), pass + 1)
        gone == Emit(fail, CallIns("exit", VOID, NoDest, <<Num(FailureExitCode, I32)>>))
    IN  At(Emit(gone, RetIns(IF g.ret = VOID THEN <<>> ELSE <<Num(0, g.ret)>>)), pass)

\* A slip: only the upper end.
BelowOnly(g, v, n) == LET w == EnsureI64(g, v) IN Result(w.g, "lt", I1, <<w.v, Num(n, I64)>>)
\* 0 <= v < n.
InRange(g, v, n) ==
    LET w == EnsureI64(g, v)
        ge == Result(w.g, "ge", I1, <<w.v, Zero>>)
        lt == Result(ge.g, "lt", I1, <<w.v, Num(n, I64)>>)
    IN  Result(lt.g, "and", I1, <<ge.v, lt.v>>)
NonZero(g, v) == Result(g, "ne", I1, <<v, Num(0, v.ty)>>)

BoundsCheck(g, ix, n) == IF "bounds" \notin g.checks THEN g ELSE LET ok == InRange(g, ix, n) IN PassOrExit(ok.g, ok.v)
NullCheck(g, p) == IF "null" \notin g.checks THEN g ELSE LET ok == NonZero(g, p) IN PassOrExit(ok.g, ok.v)
DivZeroCheck(g, v) == IF "div" \notin g.checks THEN g ELSE LET ok == NonZero(g, v) IN PassOrExit(ok.g, ok.v)
ShiftCheck(g, v) == IF "shift" \notin g.checks THEN g ELSE LET ok == InRange(g, v, WordBits) IN PassOrExit(ok.g, ok.v)

-----------------------------------------------------------------------------
(* Expressions.                                                            *)

OpName == [o \in AddOps \cup BitOps |->
             CASE o = "+" -> "add" [] o = "-" -> "sub" [] o = "*" -> "mul" [] o = "/" -> "div" [] o = "%" -> "mod"
               [] o = "&" -> "and" [] o = "|" -> "or" [] o = "^" -> "xor" [] o = "<<" -> "shl" [] o = ">>" -> "shr"]
\* A slip: every comparison signed.
PredSigned(o, unsigned) == CHOOSE q \in {"eq", "ne", "gt", "lt", "ge", "le"} :
    <<o, q>> \in {<<"==", "eq">>, <<"!=", "ne">>, <<">", "gt">>, <<"<", "lt">>, <<">=", "ge">>, <<"<=", "le">>}
PredName(o, unsigned) ==
    CASE o = "==" -> "eq"
      [] o = "!=" -> "ne"
      [] o = ">" -> IF unsigned THEN "ugt" ELSE "gt"
      [] o = "<" -> IF unsigned THEN "ult" ELSE "lt"
      [] o = ">=" -> IF unsigned THEN "uge" ELSE "ge"
      [] o = "<=" -> IF unsigned THEN "ule" ELSE "le"

RECURSIVE LowerExpr(_, _)

\* Both operands in order, then both converted in order.
Pair(g, e, T) ==
    LET l == LowerExpr(g, e.args[1])
        r == LowerExpr(l.g, e.args[2])
        a == IF T = VOID THEN With(r.g, l.v) ELSE CastTo(r.g, l.v, T)
        b == IF T = VOID THEN With(a.g, r.v) ELSE CastTo(a.g, r.v, T)
    IN  [g |-> b.g, a |-> a.v, b |-> b.v]
Typed(e, k) == e.args[k].ty

\* Each index in order, checked against its dimension as soon as it is known.
LinearIndex(g, ixs, dims) ==
    LET Add(s, k) ==
            LET r == LowerExpr(s.g, ixs[k])
                i == EnsureI64(r.g, r.v)
                h == IF k <= Len(dims) THEN BoundsCheck(i.g, i.v, dims[k]) ELSE i.g
                m == IF k <= Len(dims) THEN Result(h, "mul", I64, <<s.v, Num(dims[k], I64)>>) ELSE With(h, s.v)
            IN  IF k = 1 THEN With(h, i.v) ELSE Result(m.g, "add", I64, <<m.v, i.v>>)
        done == FoldLeftDomain(Add, With(g, Zero), ixs)
    IN  IF Len(ixs) # Len(dims) THEN With(Fail(done.g), done.v) ELSE done

\* The address of an element of an array.
ElementAddress(g, b, ixs) ==
    LET T == Pointee(b.ty)
        base == IF IsStatic(b) THEN With(g, Glob(b.global, T)) ELSE Result(g, "cast", Ptr(T), <<Storage(b)>>)
        at == LinearIndex(base.g, ixs, b.dims)
    IN  Result(at.g, "ptr_offset", Ptr(T), <<base.v, at.v>>)

\* The address of p[i]...[j], stepping in bytes; every index but the last
\* loads the next pointer.  "to" is the type p points to.
PointerChain(g, p, to, ixs) ==
    LET Go(s, k) ==
            LET r == LowerExpr(s.g, ixs[k])
                i == EnsureI64(r.g, r.v)
                n == ElemSize(s.to)
                by == IF n > 1 THEN Result(i.g, "mul", I64, <<i.v, Num(n, I64)>>) ELSE i
                at == Result(by.g, "ptr_offset", Ptr(I8), <<s.v, by.v>>)
                typed == Result(at.g, "cast", Ptr(IRTypeOf(s.to)), <<at.v>>)
                next == Result(typed.g, "load", Ptr(I8), <<typed.v>>)
            IN  CASE k = Len(ixs) -> [g |-> typed.g, v |-> typed.v, to |-> s.to]
                  [] IsPointer(s.to) -> [g |-> next.g, v |-> next.v, to |-> s.to[2]]
                  [] OTHER -> [s EXCEPT !.g = Fail(at.g)]
        first == CastTo(g, p, Ptr(I8))
    IN  FoldLeftDomain(Go, [g |-> first.g, v |-> first.v, to |-> to], ixs)

\* A field: the bytes of the structure, offset, then typed.
FieldAddress(g, x, offset, t) ==
    LET b == Find(g, x)
        base == IF IsStatic(b) THEN With(g, Glob(b.global, I8)) ELSE Result(g, "cast", Ptr(I8), <<Storage(b)>>)
        at == Result(base.g, "ptr_offset", Ptr(I8), <<base.v, Num(offset, I64)>>)
    IN  Result(at.g, "cast", Ptr(IRTypeOf(t)), <<at.v>>)

\* What is at a void pointer is taken for a word.
DerefAddress(g, e) ==
    LET p == LowerExpr(g, e.args[1])
        q == CastTo(p.g, p.v, Ptr(IF e.ty = VoidT THEN I64 ELSE IRTypeOf(e.ty)))
    IN  With(NullCheck(q.g, q.v), q.v)

\* lower_lvalue_address: where a variable, element, field or target is; of
\* anything else, a null address with an error.
Nowhere(g) == With(Fail(g), Num(0, Ptr(I64)))
Address(g, e) ==
    CASE e.kind = "un" /\ e.v = "*" -> DerefAddress(g, e)
      [] e.kind = "member" /\ e.to.as = "field" -> FieldAddress(g, e.to.root, e.to.offset, e.ty)
      [] e.kind \notin {"var", "index"} \/ ~Known(g, e.v) -> Nowhere(g)
      [] e.kind = "var" -> With(g, Storage(Find(g, e.v)))
      [] OTHER ->
           LET b == Find(g, e.v)
               p == Result(g, "load", b.ty, <<Storage(b)>>)
               chain == PointerChain(p.g, p.v, b.pointee, e.args)
           IN  CASE b.pointee # NoType -> With(chain.g, chain.v)
                 [] IsArr(b.ty) -> ElementAddress(g, b, e.args)
                 [] OTHER -> Nowhere(g)

Load(a) == Result(a.g, "load", Pointee(a.v.ty), <<a.v>>)

LowerVar(g, x) ==
    CASE ~Known(g, x) \/ IsArr(Find(g, x).ty) -> Bad(g)
      [] OTHER -> Load(With(g, Storage(Find(g, x))))

\* Pointer plus or minus an integer, in the units of what it points to.
PointerOffset(g, e) ==
    LET left == IsPointer(Typed(e, 1))
        two == Pair(g, e, VOID)
        p0 == IF left THEN two.a ELSE two.b
        T == IF IsPtr(p0.ty) THEN p0.ty ELSE Ptr(I8)
        p == CastTo(two.g, p0, T)
        d == EnsureI64(p.g, IF left THEN two.b ELSE two.a)
        n == ElemSize(Typed(e, IF left THEN 1 ELSE 2)[2])
        by == IF n > 1 THEN Result(d.g, "mul", I64, <<d.v, Num(n, I64)>>) ELSE d
        signed == IF e.v = "-" THEN Result(by.g, "neg", I64, <<by.v>>) ELSE by
    IN  Result(signed.g, "ptr_offset", T, <<p.v, signed.v>>)

PointerDifference(g, e) ==
    LET two == Pair(g, e, I64)
        d == Result(two.g, "sub", I64, <<two.a, two.b>>)
        n == ElemSize(Typed(e, 1)[2])
    IN  IF n > 1 THEN Result(d.g, "div", I64, <<d.v, Num(n, I64)>>) ELSE d

Arithmetic(g, e) ==
    LET T == CommonType(Typed(e, 1), Typed(e, 2))
        two == Pair(g, e, T)
        h == IF e.v \in {"/", "%"} THEN DivZeroCheck(two.g, two.b) ELSE two.g
    IN  Result(h, OpName[e.v], T, <<two.a, two.b>>)

Bitwise(g, e) ==
    LET shift == e.v \in {"<<", ">>"}
        T == IF shift THEN IRTypeOf(Promote(Typed(e, 1))) ELSE CommonType(Typed(e, 1), Typed(e, 2))
        two == Pair(g, e, T)
        h == IF shift THEN ShiftCheck(two.g, two.b) ELSE two.g
    IN  Result(h, OpName[e.v], T, <<two.a, two.b>>)

ComparePointers(g, e) ==
    LET two == Pair(g, e, VOID)
        T == IF IsPtr(two.a.ty) THEN two.a.ty ELSE IF IsPtr(two.b.ty) THEN two.b.ty ELSE Ptr(I8)
        a == CastTo(two.g, two.a, T)
        b == CastTo(a.g, two.b, T)
    IN  Result(b.g, PredName(e.v, FALSE), I1, <<a.v, b.v>>)

\* Two characters are ordered by their code points.
CompareNumbers(g, e) ==
    LET two == Pair(g, e, VOID)
        chars == two.a.ty = CHAR /\ two.b.ty = CHAR /\ e.v \notin {"==", "!="}
        T == IF chars THEN I64 ELSE CommonType(Typed(e, 1), Typed(e, 2))
        a == CastTo(two.g, two.a, T)
        b == CastTo(a.g, two.b, T)
    IN  Result(b.g, PredName(e.v, Unsigned(T)), I1, <<a.v, b.v>>)

\* Both sides are evaluated.
Logical(g, e) ==
    LET l == LowerExpr(g, e.args[1])
        a == ToBool(l.g, l.v)
        r == LowerExpr(a.g, e.args[2])
        b == ToBool(r.g, r.v)
    IN  Result(b.g, e.v, I1, <<a.v, b.v>>)

Binary(g, e) ==
    CASE e.v \in LogicOps -> Logical(g, e)
      [] e.v \in AddOps /\ IsPointer(e.ty) -> PointerOffset(g, e)
      [] e.v = "-" /\ IsPointer(Typed(e, 1)) /\ IsPointer(Typed(e, 2)) -> PointerDifference(g, e)
      [] e.v \in AddOps -> Arithmetic(g, e)
      [] e.v \in BitOps -> Bitwise(g, e)
      [] IsPointer(Typed(e, 1)) \/ IsPointer(Typed(e, 2)) -> ComparePointers(g, e)
      [] OTHER -> CompareNumbers(g, e)

Unary(g, e) ==
    LET x == LowerExpr(g, e.args[1])
        T == IRTypeOf(e.ty)
        y == CastTo(x.g, x.v, T)
        b == ToBool(x.g, x.v)
    IN  CASE e.v = "&" -> Address(g, e.args[1])
          [] e.v = "*" -> Load(DerefAddress(g, e))
          [] e.v = "-" -> Result(y.g, "neg", T, <<y.v>>)
          [] e.v = "~" -> Result(y.g, "not", T, <<y.v>>)
          [] e.v = "not" -> Result(b.g, "eq", I1, <<b.v, Num(0, I1)>>)

\* x++ and x--: the value before.
Postfix(g, e) ==
    LET a == Address(g, e.args[1])
        old == Load(a)
        T == old.v.ty
        new == Result(old.g, IF e.v = "++" THEN "add" ELSE "sub", T, <<old.v, Num(1, T)>>)
    IN  With(Emit(new.g, Ins("store", VOID, NoDest, <<new.v, a.v>>)), old.v)

\* Arguments in order, each converted to its parameter's type.
LowerCall(g, e) ==
    LET known == e.v \in DOMAIN g.sigs
        params == IF known THEN g.sigs[e.v].params ELSE <<>>
        Arg(s, k) ==
            LET r == LowerExpr(s.g, e.args[k])
                c == IF k <= Len(params) THEN CastTo(r.g, r.v, params[k]) ELSE r
            IN  [g |-> c.g, vs |-> Append(s.vs, c.v)]
        args == FoldLeftDomain(Arg, [g |-> g, vs |-> <<>>], e.args)
    IN  IF known THEN CallResult(args.g, e.v, g.sigs[e.v].ret, args.vs) ELSE Bad(args.g)

LowerExpr(g, e) ==
    CASE e.kind = "int" -> With(g, Num(e.v, I64))
      [] e.kind = "bool" -> With(g, Num(Truth(e.v), I1))
      [] e.kind = "char" -> With(g, Num(EncodeChar(e.v), CHAR))
      [] e.kind = "null" -> With(g, Num(0, Ptr(I8)))
      [] e.kind = "var" -> LowerVar(g, e.v)
      [] e.kind = "member" /\ e.to.as = "enum" -> With(g, Num(e.to.offset, I64))
      [] e.kind = "index" /\ IsAggregate(e.ty) -> Bad(g)
      [] e.kind \in {"index", "member"} -> Load(Address(g, e))
      [] e.kind = "bin" -> Binary(g, e)
      [] e.kind = "un" -> Unary(g, e)
      [] e.kind = "post" -> Postfix(g, e)
      [] e.kind = "cast" -> LET x == LowerExpr(g, e.args[1]) IN CastTo(x.g, x.v, IRTypeOf(e.v))
      [] e.kind = "sizeof" -> With(g, Num(e.v, I64))
      [] e.kind = "call" -> LowerCall(g, e)
=============================================================================

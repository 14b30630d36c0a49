------------------------------- MODULE Analysis -------------------------------
(***************************************************************************)
(* The semantic analysis (src/src/frontend/analysis.c, analysis_scope.c,   *)
(* analysis_infer_expr.c, analysis_visit.c and the files they include): it *)
(* resolves names, checks types, annotates the tree with the types and the *)
(* offsets the lowering uses, and reports errors and warnings.             *)
(*                                                                         *)
(* Every operator takes the state g of the analysis and gives the state    *)
(* after; with it comes the annotated expression (e), statement (s) or     *)
(* list of them.  Of errors only that there was one is kept (the analysis  *)
(* goes on to report more of them; here a list of statements is left at    *)
(* the first), of warnings their kind and, where it has one, name.         *)
(***************************************************************************)
EXTENDS Types

CONSTANTS MaxScopes,     \* nested scopes (64)
          MaxSymbols     \* locals alive at once (100)

NewState ==
    [locals |-> <<>>, globals |-> <<>>, scopes |-> <<>>, funcs |-> [x \in {} |-> 0],
     defs |-> [x \in {} |-> 0], enums |-> [x \in {} |-> 0], aliases |-> {},
     err |-> FALSE, warns |-> {}, loop |-> FALSE, switch |-> FALSE, ret |-> VoidT]

Require(g, ok) == IF ok THEN g ELSE [g EXCEPT !.err = TRUE]
Reject(g) == Require(g, FALSE)
Warn(g, kind, x, when) == IF when THEN [g EXCEPT !.warns = @ \cup {<<kind, x>>}] ELSE g

-----------------------------------------------------------------------------
(* Symbols and scopes.                                                     *)

Symbol(x, t, d) ==
    [name |-> x, ty |-> t, dims |-> d.dims, const |-> d.const, static |-> d.static,
     extern |-> d.extern, def |-> ~d.extern, used |-> FALSE]
IsArray(sym) == sym.dims # <<>>

Indices(syms, x) == {k \in DOMAIN syms : syms[k].name = x}
ScopeStart(g) == IF g.scopes = <<>> THEN 0 ELSE Last(g.scopes)

ScopePush(g) ==
    IF Len(g.scopes) >= MaxScopes THEN Reject(g) ELSE [g EXCEPT !.scopes = Append(@, Len(g.locals))]
\* Leaving a scope: its unused locals are warned of and dropped.
ScopePop(g) ==
    IF g.scopes = <<>> THEN g
    ELSE LET start == Last(g.scopes)
             unused == {k \in start + 1 .. Len(g.locals) : ~g.locals[k].used}
         IN  [g EXCEPT !.warns = @ \cup {<<"unused", g.locals[k].name>> : k \in unused},
                       !.locals = SubSeq(@, 1, start), !.scopes = Front(@)]

AddGlobal(g, sym) ==
    LET k == Max(Indices(g.globals, sym.name))
        old == g.globals[k]
        Shape(s) == <<s.ty, s.const, s.static, s.dims>>
    IN  CASE Indices(g.globals, sym.name) = {} /\ Len(g.globals) >= MaxSymbols -> Reject(g)
          [] Indices(g.globals, sym.name) = {} -> [g EXCEPT !.globals = Append(@, sym)]
          [] Shape(old) # Shape(sym) -> Reject(g)
          [] sym.extern -> g
          [] old.def -> Reject(g)
          [] OTHER -> [g EXCEPT !.globals[k].def = TRUE, !.globals[k].extern = FALSE]

AddLocal(g, sym) ==
    LET same == Indices(g.locals, sym.name)
        outer == {k \in same : k <= ScopeStart(g)}
        shadows == outer # {} \/ Indices(g.globals, sym.name) # {}
    IN  IF same # outer \/ Len(g.locals) >= MaxSymbols THEN Reject(g)
        ELSE [Warn(g, "shadow", sym.name, shadows) EXCEPT !.locals = Append(@, sym)]

AddSymbol(g, scope, sym) ==
    CASE sym.name = "" \/ sym.name \in g.aliases -> Reject(g)
      [] scope = "global" -> AddGlobal(g, sym)
      [] scope = "local" -> AddLocal(g, [sym EXCEPT !.extern = FALSE, !.def = TRUE])

\* The latest local of that name, else the global.
Declared(g, x) == Indices(g.locals, x) # {} \/ Indices(g.globals, x) # {}
Lookup(g, x) ==
    IF Indices(g.locals, x) # {} THEN g.locals[Max(Indices(g.locals, x))]
    ELSE g.globals[Max(Indices(g.globals, x))]
MarkUsed(g, x) ==
    CASE Indices(g.locals, x) # {} -> [g EXCEPT !.locals[Max(Indices(g.locals, x))].used = TRUE]
      [] Declared(g, x) -> [g EXCEPT !.globals[Max(Indices(g.globals, x))].used = TRUE]
      [] OTHER -> g

KnownType(g, t) ==
    CASE IsAggregate(t) -> t \in DOMAIN g.defs
      [] IsEnum(t) -> t[2] \in DOMAIN g.enums
      [] OTHER -> TRUE
RECURSIVE PointerBase(_)
PointerBase(t) == IF IsPointer(t) THEN PointerBase(t[2]) ELSE t
ValidPointer(g, t) == ~IsPointer(t) \/ (IsTypedPointer(t) /\ KnownType(g, PointerBase(t)))

-----------------------------------------------------------------------------
(* Expressions.                                                            *)

Typed(g, e, t) == [g |-> g, e |-> [e EXCEPT !.ty = t]]

RECURSIVE Infer(_, _)
InferAll(g, es) ==
    FoldLeft(LAMBDA s, x : LET r == Infer(s.g, x) IN [g |-> r.g, es |-> Append(s.es, r.e)],
             [g |-> g, es |-> <<>>], es)
AllIntegers(es) == \A k \in DOMAIN es : Compatible(es[k].ty, IntT)

\* The indices of an array: integers, literal ones in bounds, one for each
\* dimension.
ArrayIndices(g, dims, ixs) ==
    LET r == InferAll(g, ixs)
        inBounds == \A k \in DOMAIN ixs :
                       ixs[k].kind = "int" /\ k <= Len(dims) => ixs[k].v \in 0 .. dims[k] - 1
    IN  [g |-> Require(r.g, AllIntegers(r.es) /\ inBounds /\ Len(ixs) = Len(dims)), es |-> r.es]

ConstLinear(dims, ixs) ==
    IF Len(ixs) = Len(dims) /\ \A k \in DOMAIN ixs : ixs[k].kind = "int" /\ ixs[k].v \in 0 .. dims[k] - 1
    THEN <<FoldLeftDomain(LAMBDA n, k : n * dims[k] + ixs[k].v, 0, ixs)>>
    ELSE Unknown

\* The enumeration a value belongs to, as far as it is tracked: a variable, a
\* member or an enumeration's own value.
EnumOf(e) == IF e.kind \in {"var", "member"} THEN e.ty ELSE EnumT("")

\* What an aggregate base of a member access refers to: the root variable,
\* the offset in it, its type; "ok" when it is one.
NoBase(g, e) == [g |-> Reject(g), e |-> e, ok |-> FALSE, root |-> "", offset |-> 0, const |-> FALSE, ty |-> NoType]
RECURSIVE ResolveMember(_, _)
MemberBase(g, base) ==
    LET used == MarkUsed(g, base.v)
        sym == Lookup(g, base.v)
        found(h, e, at) == [g |-> h, e |-> e, ok |-> TRUE, root |-> base.v, offset |-> at, const |-> sym.const, ty |-> sym.ty]
        ixs == ArrayIndices(used, sym.dims, base.args)
        linear == ConstLinear(sym.dims, base.args)
        size == TypeSizeAlign(g.defs, sym.ty, {}).size
        inner == ResolveMember(g, base)
        to == inner.e.to
    IN  CASE base.kind = "var" ->
               IF Declared(g, base.v) /\ ~IsArray(sym) /\ IsAggregate(sym.ty) THEN found(used, base, 0) ELSE NoBase(used, base)
          [] base.kind = "index" ->
               IF ~Declared(g, base.v) \/ ~IsArray(sym) \/ ~IsAggregate(sym.ty) THEN NoBase(used, base)
               ELSE IF linear = Unknown \/ size <= 0 THEN NoBase(ixs.g, base)
               ELSE found(ixs.g, [base EXCEPT !.args = ixs.es], linear[1] * size)
          [] base.kind = "member" ->
               IF to.as = "field" /\ IsAggregate(inner.e.ty)
               THEN [g |-> inner.g, e |-> inner.e, ok |-> TRUE, root |-> to.root, offset |-> to.offset,
                     const |-> to.const, ty |-> inner.e.ty]
               ELSE NoBase(inner.g, inner.e)
          [] OTHER -> NoBase(g, base)

ResolveMember(g, e) ==
    LET base == e.args[1]
        members == g.enums[base.v]
        ofEnum == base.kind = "var" /\ ~Declared(g, base.v) /\ base.v \in DOMAIN g.enums
        b == MemberBase(g, base)
        field == FieldOf(g.defs, b.ty, e.v)
    IN  CASE e.to.as # "none" -> [g |-> g, e |-> e]
          [] ofEnum ->
               IF \E k \in DOMAIN members : members[k] = e.v
               THEN [g |-> g, e |-> [e EXCEPT !.ty = EnumT(base.v),
                       !.to = [as |-> "enum", root |-> "", const |-> TRUE,
                               offset |-> (CHOOSE k \in DOMAIN members : members[k] = e.v) - 1]]]
               ELSE [g |-> Reject(g), e |-> e]
          [] ~b.ok -> [g |-> b.g, e |-> e]
          [] b.ty \notin DOMAIN g.defs \/ FieldIndex(g.defs, b.ty, e.v) = {} -> [g |-> Reject(b.g), e |-> e]
          [] OTHER -> [g |-> b.g, e |-> [e EXCEPT !.ty = field.ty, !.args = <<b.e>>,
                         !.to = [as |-> "field", root |-> b.root, const |-> b.const \/ field.const,
                                 offset |-> b.offset + FieldOffset(g.defs, b.ty, e.v)]]]

InferMember(g, e) ==
    LET r == ResolveMember(g, e)
    IN  CASE r.e.to.as = "enum" -> r
          [] r.e.to.as = "field" -> [r EXCEPT !.g = Require(@, ~IsAggregate(r.e.ty))]
          [] OTHER -> Typed(Reject(r.g), r.e, IntT)

\* The size operator looks at a variable without using it.
InferSizeOf(g, e) ==
    LET x == e.args[1]
        sym == Lookup(g, x.v)
        elems == FoldLeft(LAMBDA n, d : n * d, 1, sym.dims)
        one == SizeBytes(g.defs, sym.ty)
        r == IF x.kind = "member" THEN ResolveMember(g, x) ELSE Infer(g, x)
        answer == CASE e.of # NoType -> [g |-> g, e |-> e, n |-> SizeBytes(g.defs, e.of)]
                    [] e.of = NoType /\ x.kind = "var" ->
                         [g |-> g, e |-> e,
                          n |-> IF ~Declared(g, x.v) \/ one = <<>> THEN <<>> ELSE <<one[1] * elems>>]
                    [] OTHER -> [g |-> r.g, e |-> [e EXCEPT !.args = <<r.e>>],
                                 n |-> IF x.kind # "member" /\ IsAggregate(r.e.ty) THEN <<>> ELSE SizeBytes(g.defs, r.e.ty)]
    IN  IF answer.n = <<>> THEN Typed(Reject(answer.g), answer.e, IntT)
        ELSE Typed(answer.g, [answer.e EXCEPT !.v = answer.n[1]], IntT)

InferVar(g, e) ==
    LET sym == Lookup(g, e.v)
    IN  IF ~Declared(g, e.v) THEN Typed(Reject(g), e, IntT)
        ELSE Typed(Require(MarkUsed(g, e.v), ~IsArray(sym) /\ ~IsAggregate(sym.ty)), e, sym.ty)

\* p[i]...[j]: each index goes through one pointer.
PointerWalk(t, n) ==
    FoldLeftDomain(LAMBDA s, k : IF s # NoType /\ PtrArithAllowed(s) THEN s[2] ELSE NoType, t, [k \in 1 .. n |-> k])
InferIndex(g, e) ==
    LET sym == Lookup(g, e.v)
        used == MarkUsed(g, e.v)
        free == InferAll(used, e.args)
        array == ArrayIndices(used, sym.dims, e.args)
        to == PointerWalk(sym.ty, Len(e.args))
        With(r) == [e EXCEPT !.args = r.es]
    IN  CASE ~Declared(g, e.v) -> Typed(Reject(free.g), With(free), IntT)
          [] IsArray(sym) -> Typed(array.g, With(array), sym.ty)
          [] ~IsArray(sym) /\ IsPointer(sym.ty) ->
               Typed(Require(free.g, AllIntegers(free.es) /\ to # NoType /\ ~IsAggregate(to)), With(free), to)
          [] OTHER -> Typed(Reject(free.g), With(free), sym.ty)

\* Is a value of e's type good for a place of type t?  Arguments, results and
\* elements do not compare the names of enumerations.
Accepts(t, e) == IF IsPointer(t) THEN PtrCompatible(e.ty, t, TRUE) ELSE Compatible(e.ty, t)
AcceptsNamed(t, e) == IF IsEnum(t) THEN EnumOf(e) = t ELSE Accepts(t, e)
AcceptsUnnamed(t, e) == IF IsEnum(t) THEN IsEnum(e.ty) ELSE Accepts(t, e)
Give(g, t, e, ok) == Warn(Require(g, ok), "narrowing", "", ok /\ MayLoseData(e.ty, t, e))
GiveNamed(g, t, e) == Give(g, t, e, AcceptsNamed(t, e))
GiveUnnamed(g, t, e) == Give(g, t, e, AcceptsUnnamed(t, e))

\* An argument given for a pointer must itself be one.
InferArgs(g, params, args) ==
    LET Arg(s, k) ==
            LET r == Infer(s.g, args[k])
                h == GiveUnnamed(r.g, params[k], r.e)
            IN  [g |-> IF k > Len(params) THEN r.g ELSE Require(h, IsPointer(params[k]) => IsPointer(r.e.ty)),
                 es |-> Append(s.es, r.e)]
        all == FoldLeftDomain(Arg, [g |-> g, es |-> <<>>], args)
    IN  [all EXCEPT !.g = Require(@, Len(args) = Len(params))]

\* A variable of the function's name hides it.
InferCall(g, e) ==
    LET free == InferAll(MarkUsed(g, e.v), e.args)
        args == InferArgs(g, g.funcs[e.v].params, e.args)
    IN  IF Declared(g, e.v) \/ e.v \notin DOMAIN g.funcs
        THEN Typed(Reject(free.g), [e EXCEPT !.args = free.es], IntT)
        ELSE Typed(args.g, [e EXCEPT !.args = args.es], g.funcs[e.v].ret)

InferCast(g, e) ==
    LET r == Infer(g, e.args[1])
        from == r.e.ty
        ok == CASE e.v = VoidT \/ IsAggregate(e.v) -> FALSE
                [] IsPointer(e.v) -> ValidPointer(g, e.v) /\ (IsPointer(from) \/ IntLike(from))
                [] IsPointer(from) -> IntLike(e.v)
                [] OTHER -> IntLike(from) /\ IntLike(e.v)
    IN  Typed(Require(r.g, ok), [e EXCEPT !.args = <<r.e>>], e.v)

-----------------------------------------------------------------------------
(* Operators.                                                              *)

PointerSum(op, l, r) ==
    \/ op \in {"+", "-"} /\ IsPointer(l) /\ IntLike(r)
    \/ op = "+" /\ IsPointer(r) /\ IntLike(l)

InferBin(g0, e0) ==
    LET both == InferAll(g0, e0.args)
        g == both.g
        e == [e0 EXCEPT !.args = both.es]
        l == both.es[1].ty
        r == both.es[2].ty
        right == e.args[2]
        numbers == IntLike(l) /\ IntLike(r)
        pointer == IsPointer(l) \/ IsPointer(r)
        sum == IF IsPointer(l) THEN l ELSE r
        literalShift == right.kind = "int" => right.v \in 0 .. WordBits - 1
    IN  CASE e.v \in AddOps /\ PointerSum(e.v, l, r) -> Typed(Require(g, PtrArithAllowed(sum)), e, sum)
          [] e.v = "-" /\ IsPointer(l) /\ IsPointer(r) ->
               Typed(Require(g, PtrCompatible(l, r, FALSE) /\ IsTypedPointer(r) /\ PtrArithAllowed(l)), e, IntT)
          [] e.v \in AddOps /\ pointer -> Typed(Reject(g), e, IntT)
          [] e.v \in AddOps /\ ~pointer -> Typed(Require(g, numbers), e, UsualArith(l, r))
          [] e.v \in BitOps /\ ~numbers -> Typed(Reject(g), e, IntT)
          [] e.v \in {"<<", ">>"} -> Typed(Require(g, literalShift), e, Promote(l))
          [] e.v \in BitOps -> Typed(g, e, UsualArith(l, r))
          [] e.v \in RelOps /\ pointer ->
               Typed(Require(g, IsPointer(l) /\ IsPointer(r)
                                /\ (l = NullT \/ r = NullT \/ PtrCompatible(l, r, TRUE))), e, BoolT)
          [] e.v \in RelOps ->
               LET warned == Warn(g, "sign compare", "", SignedUnsignedCompare(l, r))
                   sameEnum == EnumOf(e.args[1]) = EnumOf(right) /\ EnumOf(right) # EnumT("")
                   ok == CASE IsEnum(l) /\ IsEnum(r) -> sameEnum
                           [] l = r -> l[1] # "struct"
                           [] OTHER -> numbers
               IN  Typed(Require(warned, ok), e, BoolT)
          [] e.v \in LogicOps -> Typed(Require(g, numbers), e, BoolT)

Addressable == {"var", "member", "index", "un"}
ConstTarget(g, e) ==
    CASE e.kind \in {"var", "index"} -> Declared(g, e.v) /\ Lookup(g, e.v).const
      [] e.kind = "member" -> e.to.as = "field" /\ e.to.const
      [] OTHER -> FALSE

InferUnary(g, e0) ==
    LET r == Infer(g, e0.args[1])
        t == r.e.ty
        e == [e0 EXCEPT !.args = <<r.e>>]
        integer == Require(r.g, IntLike(t))
    IN  CASE e.v = "&" ->
               LET used == IF r.e.kind \in {"var", "index"} THEN MarkUsed(r.g, r.e.v) ELSE r.g
                   ok == r.e.kind \in Addressable /\ ~ConstTarget(r.g, r.e) /\ ~IsAggregate(t) /\ t # VoidT
               IN  Typed(Require(used, ok), e, PtrT(t))
          [] e.v = "*" ->
               IF IsTypedPointer(t) THEN Typed(r.g, e, t[2]) ELSE Typed(Reject(r.g), e, IntT)
          [] e.v \in {"-", "~"} -> Typed(integer, e, Promote(t))
          [] e.v = "not" -> Typed(integer, e, BoolT)
          [] OTHER -> Typed(integer, e, t)

\* infer_type
Infer(g, e) ==
    CASE e.kind = "int" -> Typed(g, e, IF FitsSigned(HalfBits, e.v) THEN I32T ELSE IntT)
      [] e.kind = "char" -> Typed(g, e, CharT)
      [] e.kind = "bool" -> Typed(g, e, BoolT)
      [] e.kind = "null" -> Typed(g, e, NullT)
      [] e.kind = "sizeof" -> InferSizeOf(g, e)
      [] e.kind = "var" -> InferVar(g, e)
      [] e.kind = "member" -> InferMember(g, e)
      [] e.kind = "index" -> InferIndex(g, e)
      [] e.kind = "call" -> InferCall(g, e)
      [] e.kind = "cast" -> InferCast(g, e)
      [] e.kind = "bin" -> InferBin(g, e)
      [] e.kind \in {"un", "post"} -> InferUnary(g, e)

-----------------------------------------------------------------------------
(* Declarations.                                                           *)

\* The fields a structure is given: known ones, each once, none of them itself
\* a structure; the rest of the declaration is refused them when static.
InferFields(g, t, fields, isStatic) ==
    LET Init(s, k) ==
            LET f == fields[k]
                r == Infer(s.g, f.e)
                known == FieldIndex(g.defs, t, f.name) # {}
                ft == FieldOf(g.defs, t, f.name).ty
                once == \A j \in 1 .. k - 1 : fields[j].name # f.name
            IN  IF ~known \/ IsAggregate(ft)
                THEN [g |-> Reject(r.g), fs |-> Append(s.fs, [f EXCEPT !.e = r.e])]
                ELSE [g |-> GiveNamed(Require(r.g, once), ft, r.e),
                      fs |-> Append(s.fs, [f EXCEPT !.e = r.e, !.ty = ft, !.at = FieldOffset(g.defs, t, f.name)])]
        all == FoldLeftDomain(Init, [g |-> g, fs |-> <<>>], fields)
    IN  [all EXCEPT !.g = Require(@, fields # <<>> => ~isStatic)]

HasStaticStorage(scope, d) == scope = "global" \/ d.static

AnalyzeAggregate(g, scope, d) ==
    LET known == d.ty \in DOMAIN g.defs
        fs == InferFields(g, d.ty, d.fields, HasStaticStorage(scope, d))
        allowed == /\ d.init = <<>> /\ (d.ty[1] = "union" => d.fields = <<>>)
                   /\ (d.const /\ ~d.extern => d.fields # <<>>)
        sized == [d EXCEPT !.fields = fs.fs, !.size = TypeSizeAlign(g.defs, d.ty, {}).size]
    IN  IF known THEN [g |-> Require(fs.g, allowed), s |-> sized]
        ELSE [g |-> Reject(g), s |-> d]

\* The initialiser is analysed before the name is added, so it sees an outer
\* variable of that name.
AnalyzeVar(g, scope, d) ==
    LET isStatic == HasStaticStorage(scope, d)
        r == Infer(g, d.init[1])
        given == Require(GiveNamed(r.g, d.ty, r.e), isStatic => ConstInitializer(r.e, d.ty))
        mayLack == IF IsEnum(d.ty) THEN isStatic ELSE d.const => isStatic
        typed == CASE d.ty = VoidT -> [g |-> Reject(IF d.init = <<>> THEN g ELSE r.g), s |-> d]
                   [] IsAggregate(d.ty) -> AnalyzeAggregate(g, scope, d)
                   [] d.init = <<>> -> [g |-> Require(g, mayLack), s |-> d]
                   [] OTHER -> [g |-> given, s |-> [d EXCEPT !.init = <<r.e>>]]
        known == Require(typed.g, ValidPointer(g, d.ty) /\ (IsEnum(d.ty) => KnownType(g, d.ty)))
    IN  IF d.ty = VoidT THEN typed
        ELSE [g |-> AddSymbol(known, scope, Symbol(d.name, d.ty, d)), s |-> typed.s]

ElementCount(dims) == FoldLeft(LAMBDA n, d : n * d, 1, dims)

\* The elements of an array see the array itself.
AnalyzeArray(g, scope, d) ==
    LET isStatic == HasStaticStorage(scope, d)
        ok == /\ d.ty # VoidT /\ KnownType(g, d.ty) /\ ValidPointer(g, d.ty)
              /\ d.const /\ ~isStatic => d.init # <<>>
        added == AddSymbol(Require(g, ok), scope, Symbol(d.name, d.ty, d))
        Element(s, k) ==
            LET r == Infer(s.g, d.init[k])
                h == GiveUnnamed(r.g, d.ty, r.e)
            IN  [g |-> Require(h, isStatic => ConstInitializer(r.e, d.ty)), es |-> Append(s.es, r.e)]
        all == FoldLeftDomain(Element, [g |-> Require(added, Len(d.init) <= ElementCount(d.dims)), es |-> <<>>], d.init)
    IN  IF \E k \in DOMAIN d.dims : d.dims[k] <= 0 THEN [g |-> Reject(g), s |-> d]
        ELSE [g |-> all.g, s |-> [d EXCEPT !.init = all.es, !.size = TypeSizeAlign(g.defs, d.ty, {}).size]]

-----------------------------------------------------------------------------
(* Statements.                                                             *)

\* The source of an assignment that is refused: a structure by name is used,
\* anything else is analysed.
RefusedSource(g, e) ==
    IF e.kind = "var" /\ Declared(g, e.v) /\ IsAggregate(Lookup(g, e.v).ty) THEN MarkUsed(g, e.v) ELSE Infer(g, e).g
Refuse(g, s) == [g |-> RefusedSource(Reject(g), s.e), s |-> s]

AnalyzeAssign(g, s) ==
    LET sym == Lookup(g, s.name)
        used == MarkUsed(g, s.name)
        r == Infer(Require(used, ~IsArray(sym) /\ ~sym.const), s.e)
    IN  CASE ~Declared(g, s.name) -> [g |-> Reject(g), s |-> s]
          [] Declared(g, s.name) /\ IsAggregate(sym.ty) -> Refuse(used, s)
          [] OTHER -> [g |-> GiveNamed(r.g, sym.ty, r.e), s |-> [s EXCEPT !.e = r.e]]

AnalyzeMemberAssign(g, s) ==
    LET t == ResolveMember(g, s.lv)
        to == t.e.to
        root == Lookup(t.g, to.root)
        r == Infer(Require(MarkUsed(t.g, to.root), ~to.const /\ ~root.const), s.e)
    IN  CASE to.as # "field" -> [g |-> Reject(Infer(t.g, s.e).g), s |-> s]
          [] to.as = "field" /\ IsAggregate(t.e.ty) -> Refuse(t.g, s)
          [] OTHER -> [g |-> GiveNamed(r.g, t.e.ty, r.e), s |-> [s EXCEPT !.lv = t.e, !.e = r.e]]

\* Through a pointer: neither the depth of a pointer given is compared, nor
\* is a narrowing value warned of.
AnalyzeDerefAssign(g, s) ==
    LET t == Infer(g, s.lv)
        r == Infer(t.g, s.e)
        ok == CASE IsPointer(t.e.ty) -> IsPointer(r.e.ty)
                [] IsEnum(t.e.ty) -> IsEnum(r.e.ty)
                [] OTHER -> Compatible(r.e.ty, t.e.ty)
    IN  IF IsAggregate(t.e.ty) \/ t.e.ty = VoidT THEN Refuse(t.g, s)
        ELSE [g |-> Require(r.g, ok), s |-> [s EXCEPT !.lv = t.e, !.e = r.e]]

AnalyzeElementAssign(g, s) ==
    LET x == s.lv.v
        sym == Lookup(g, x)
        used == MarkUsed(g, x)
        free == InferAll(used, s.lv.args)
        ixs == ArrayIndices(Require(used, ~sym.const), sym.dims, s.lv.args)
        r == Infer(ixs.g, s.e)
        lv == [s.lv EXCEPT !.args = ixs.es, !.ty = sym.ty]
    IN  CASE ~Declared(g, x) -> [g |-> Reject(Infer(free.g, s.e).g), s |-> s]
          [] Declared(g, x) /\ ~IsArray(sym) -> [g |-> Reject(Infer(free.g, s.e).g), s |-> s]
          [] Declared(g, x) /\ IsArray(sym) /\ IsAggregate(sym.ty) -> Refuse(ixs.g, s)
          [] OTHER -> [g |-> GiveUnnamed(r.g, sym.ty, r.e), s |-> [s EXCEPT !.lv = lv, !.e = r.e]]

AnalyzeReturn(g, s) ==
    LET r == Infer(g, s.e[1])
    IN  CASE s.e = <<>> -> [g |-> Require(g, g.ret = VoidT), s |-> s]
          [] s.e # <<>> /\ g.ret = VoidT -> [g |-> Reject(r.g), s |-> s]
          [] OTHER -> [g |-> GiveUnnamed(r.g, g.ret, r.e), s |-> [s EXCEPT !.e = <<r.e>>]]

AnalyzeRead(g, s) ==
    LET sym == Lookup(g, s.name)
    IN  IF ~Declared(g, s.name) THEN Reject(g)
        ELSE Require(MarkUsed(g, s.name), ~sym.const /\ IsInteger(sym.ty))

Condition(g, c) == LET r == Infer(g, c) IN [g |-> Require(r.g, IntLike(r.e.ty)), e |-> r.e]

RECURSIVE Analyze(_, _)

\* A list of statements: one after a jump is unreachable.
AnalyzeList(g, ss) ==
    LET Next1(a, k) ==
            LET dead == k > 1 /\ ss[k - 1].kind \in {"return", "break", "continue"}
                r == Analyze(Warn(a.g, "dead code", "", dead), ss[k])
            IN  IF a.g.err THEN a ELSE [g |-> r.g, ss |-> Append(a.ss, r.s)]
    IN  FoldLeftDomain(Next1, [g |-> g, ss |-> <<>>], ss)
ScopedList(g, ss) == LET r == AnalyzeList(ScopePush(g), ss) IN [g |-> ScopePop(r.g), ss |-> r.ss]
Scoped(g, s) == LET r == Analyze(ScopePush(g), s) IN [g |-> ScopePop(r.g), s |-> r.s]

InLoop(g) == [g EXCEPT !.loop = TRUE]

AnalyzeIf(g, s) ==
    LET c == Condition(g, s.c)
        yes == Scoped(c.g, s.yes)
        no == Scoped(yes.g, s.no[1])
    IN  IF s.no = <<>> THEN [g |-> yes.g, s |-> [s EXCEPT !.c = c.e, !.yes = yes.s]]
        ELSE [g |-> no.g, s |-> [s EXCEPT !.c = c.e, !.yes = yes.s, !.no = <<no.s>>]]

AnalyzeWhile(g, s) ==
    LET c == Condition(g, s.c)
        body == Scoped(InLoop(c.g), s.body)
    IN  [g |-> [body.g EXCEPT !.loop = g.loop], s |-> [s EXCEPT !.c = c.e, !.body = body.s]]

\* The step of a for loop is visited as a statement: when it is an expression,
\* like x++, nothing in it is looked at.
AnalyzeFor(g, s) ==
    LET Part(h, p, visit(_, _)) == IF p = <<>> THEN [g |-> h, s |-> p] ELSE LET r == visit(h, p[1]) IN [g |-> r.g, s |-> <<r.s>>]
        init == Part(ScopePush(g), s.init, Analyze)
        cond == Part(init.g, s.cond, LAMBDA h, c : LET r == Condition(h, c) IN [g |-> r.g, s |-> r.e])
        inc == Part(cond.g, s.inc, Analyze)
        body == Analyze(InLoop(inc.g), s.body)
    IN  [g |-> ScopePop([body.g EXCEPT !.loop = g.loop]),
         s |-> [s EXCEPT !.init = init.s, !.cond = cond.s, !.inc = inc.s, !.body = body.s]]

AnalyzeSwitch(g, s) ==
    LET c == Condition(g, s.e)
        Arm(a, k) ==
            LET case == s.cases[k]
                label == Condition(a.g, case.label[1])
                h == IF case.label = <<>> THEN a.g ELSE label.g
                body == ScopedList(h, case.body)
            IN  [g |-> body.g, cs |-> Append(a.cs, [label |-> IF case.label = <<>> THEN <<>> ELSE <<label.e>>, body |-> body.ss])]
        all == FoldLeftDomain(Arm, [g |-> ScopePush([c.g EXCEPT !.switch = TRUE]), cs |-> <<>>], s.cases)
    IN  [g |-> [ScopePop(all.g) EXCEPT !.switch = g.switch], s |-> [s EXCEPT !.e = c.e, !.cases = all.cs]]

\* analyze_node on a statement.  x++ as a statement is not looked at.
Analyze(g, s) ==
    CASE s.kind = "decl" -> AnalyzeVar(g, "local", s)
      [] s.kind = "array" -> AnalyzeArray(g, "local", s)
      [] s.kind = "block" -> LET r == ScopedList(g, s.body) IN [g |-> r.g, s |-> [s EXCEPT !.body = r.ss]]
      [] s.kind = "assign" -> AnalyzeAssign(g, s)
      [] s.kind = "assign to" /\ s.lv.kind = "member" -> AnalyzeMemberAssign(g, s)
      [] s.kind = "assign to" /\ s.lv.kind = "un" -> AnalyzeDerefAssign(g, s)
      [] s.kind = "assign to" /\ s.lv.kind = "index" -> AnalyzeElementAssign(g, s)
      [] s.kind = "if" -> AnalyzeIf(g, s)
      [] s.kind = "while" -> AnalyzeWhile(g, s)
      [] s.kind = "for" -> AnalyzeFor(g, s)
      [] s.kind = "switch" -> AnalyzeSwitch(g, s)
      [] s.kind = "break" -> [g |-> Require(g, g.loop \/ g.switch), s |-> s]
      [] s.kind = "continue" -> [g |-> Require(g, g.loop), s |-> s]
      [] s.kind = "return" -> AnalyzeReturn(g, s)
      [] s.kind = "print" -> LET r == Infer(g, s.e) IN [g |-> r.g, s |-> [s EXCEPT !.e = r.e]]
      [] s.kind = "read" -> [g |-> AnalyzeRead(g, s), s |-> s]
      [] s.kind = "expr" /\ s.e.kind = "call" -> LET r == InferCall(g, s.e) IN [g |-> r.g, s |-> [s EXCEPT !.e = r.e]]
      [] s.kind = "expr" /\ s.e.kind # "call" -> [g |-> g, s |-> s]

-----------------------------------------------------------------------------
(* Programs: a sequence of declarations.                                   *)

TypeName(g, n) == n \in g.aliases \cup DOMAIN g.enums \/ StructT(n) \in DOMAIN g.defs \/ UnionT(n) \in DOMAIN g.defs
NoTwins(names) == \A j, k \in DOMAIN names : names[j] = names[k] => j = k

RegisterType(g, d) ==
    LET names == [k \in DOMAIN d.fields |-> d.fields[k].name]
        t == IF d.kind = "union" THEN UnionT(d.name) ELSE StructT(d.name)
    IN  CASE TypeName(g, d.name) -> Reject(g)
          [] d.kind = "enum" ->
               [Require(g, d.members # <<>> /\ NoTwins(d.members)) EXCEPT !.enums = @ @@ (d.name :> d.members)]
          [] OTHER -> [Require(g, d.fields # <<>> /\ NoTwins(names)) EXCEPT !.defs = @ @@ (t :> d.fields)]

RegisterAlias(g, d) ==
    IF TypeName(g, d.name) \/ ~KnownType(g, d.ty) \/ ~ValidPointer(g, d.ty) THEN Reject(g)
    ELSE [g EXCEPT !.aliases = @ \cup {d.name}]

Main == "main"
\* func_register: a prototype and one definition, all with one signature.
RegisterFunc(g, d) ==
    LET params == [k \in DOMAIN d.params |-> d.params[k].ty]
        f == [params |-> params, ret |-> d.ret, def |-> ~d.proto]
        old == g.funcs[d.name]
        h == Require(g, d.name = Main => d.ret = IntT /\ d.params = <<>>)
    IN  CASE d.name \in g.aliases -> Reject(g)
          [] d.name \notin DOMAIN g.funcs -> [h EXCEPT !.funcs = @ @@ (d.name :> f)]
          [] old.params # params \/ old.ret # d.ret -> Reject(h)
          [] d.proto -> h
          [] OTHER -> [Require(h, ~old.def) EXCEPT !.funcs[d.name].def = TRUE]

\* Parameters and body; locals and scopes start anew.
AnalyzeFunc(g, d) ==
    LET AddParam(h, p) ==
            LET added == AddSymbol(h, "local", Symbol(p.name, p.ty, Decl(p.name, p.ty, <<>>)))
            IN  IF p.ty = VoidT \/ p.ty = NullT THEN Reject(h)
                ELSE IF added.locals = <<>> THEN added ELSE [added EXCEPT !.locals[Len(added.locals)].used = TRUE]
        inside == FoldLeft(AddParam, ScopePush([g EXCEPT !.locals = <<>>, !.scopes = <<>>, !.ret = d.ret]), d.params)
        body == ScopedList(inside, d.body)
    IN  IF d.proto THEN [g |-> ScopePop(inside), s |-> d]
        ELSE [g |-> ScopePop(body.g), s |-> [d EXCEPT !.body = body.ss]]

AnalyzeDecl(g, d) ==
    CASE d.kind = "func" -> AnalyzeFunc(g, d)
      [] d.kind = "decl" -> AnalyzeVar(g, "global", d)
      [] d.kind = "array" -> AnalyzeArray(g, "global", d)
      [] OTHER -> [g |-> g, s |-> d]

\* analyze: types, then aliases, then functions, then every declaration in turn.
AnalyzeProgram(decls) ==
    LET Each(g, kinds, register(_, _)) ==
            FoldLeft(LAMBDA h, d : IF d.kind \in kinds THEN register(h, d) ELSE h, g, decls)
        types == Each(NewState, {"enum", "struct", "union"}, RegisterType)
        laidOut == Require(types, \A t \in DOMAIN types.defs : ~LayoutFails(types.defs, t, {}))
        funcs == Each(Each(laidOut, {"alias"}, RegisterAlias), {"func"}, RegisterFunc)
        all == FoldLeft(LAMBDA s, d : LET r == AnalyzeDecl(s.g, d) IN [g |-> r.g, ds |-> Append(s.ds, r.s)],
                        [g |-> funcs, ds |-> <<>>], decls)
        unused == {k \in DOMAIN all.g.globals : ~all.g.globals[k].used /\ ~all.g.globals[k].extern}
    IN  [g |-> [all.g EXCEPT !.warns = @ \cup {<<"unused", all.g.globals[k].name>> : k \in unused}], ds |-> all.ds]
=============================================================================

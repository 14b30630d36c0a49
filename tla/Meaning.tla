------------------------------- MODULE Meaning --------------------------------
(***************************************************************************)
(* What a Baa program means, from the language's own terms (docs/          *)
(* LANGUAGE.md), as the reference the compiler is checked against: a       *)
(* program in its annotated tree is run directly on the values of its      *)
(* variables.  Nothing here is lowered: there are no registers, blocks,    *)
(* offsets or bytes.                                                       *)
(*                                                                         *)
(* A place is a sequence of numbers: the object, then the element or       *)
(* (negative) the field in it; a pointer's value is a place, null is <<>>. *)
(* What a program does that the language gives no meaning (an index out of *)
(* bounds, a division by zero, a value that was never given) ends it as    *)
(* undefined, with the reason.  "lost" notes that a value was changed when  *)
(* it was given to a place, and whether by name or through a pointer.      *)
(***************************************************************************)
EXTENDS Types

CONSTANT Steps   \* loop rounds and calls a run may take

Going == <<"going">>
Undefined(why) == <<"undefined", why>>
CodePoints == 16

Start(defs, funcs) ==
    [mem |-> [l \in {} |-> 0], objects |-> 0, env |-> <<>>, statics |-> [d \in {} |-> 0], fname |-> "",
     out |-> <<>>, reads |-> 0, steps |-> Steps, lost |-> {}, ctl |-> Going, defs |-> defs, funcs |-> funcs]

Gone(m) == m.ctl # Going
End(m, why) == IF Gone(m) THEN m ELSE [m EXCEPT !.ctl = why]
Val(m, v) == [m |-> m, v |-> v]
Wrong(m, why) == Val(End(m, Undefined(why)), 0)

\* A number as a type holds it.
Conv(t, v) ==
    CASE IsPointer(t) -> v
      [] t = CharT -> v % CodePoints
      [] CountsUnsigned(t) -> WrapUnsigned(IntBits(t), v)
      [] OTHER -> WrapSigned(IntBits(t), v)
\* A value given to a place of a type, by name or through a pointer.
GiveBy(r, t, way) ==
    LET v == Conv(t, r.v) IN Val(IF v = r.v THEN r.m ELSE [r.m EXCEPT !.lost = @ \cup {way}], v)
GiveTo(r, t) == GiveBy(r, t, "name")

-----------------------------------------------------------------------------
(* Objects and places.                                                     *)

\* The fields of a union share one place.
FieldStep(t, k) == IF t[1] = "union" THEN -1 ELSE -k
RECURSIVE Leaves(_, _)
Leaves(defs, t) ==
    IF ~IsAggregate(t) THEN {<<>>}
    ELSE UNION {{<<FieldStep(t, k)>> \o l : l \in Leaves(defs, defs[t][k].ty)} : k \in DOMAIN defs[t]}
Elements(dims) == FoldLeft(LAMBDA n, d : n * d, 1, dims)
PlacesOf(defs, d) ==
    IF d.dims = <<>> THEN Leaves(defs, d.ty)
    ELSE {<<i>> \o l : i \in 0 .. Elements(d.dims) - 1, l \in Leaves(defs, d.ty)}

\* A new object, every place of it holding c (<<>>: nothing yet).
NewObject(m, d, c) ==
    LET o == m.objects + 1
    IN  [m EXCEPT !.objects = o, !.mem = [l \in {<<o>> \o p : p \in PlacesOf(m.defs, d)} |-> c] @@ @]
Name(m, d, o) == [m EXCEPT !.env = Append(@, [name |-> d.name, at |-> <<o>>, ty |-> d.ty, dims |-> d.dims])]
Find(m, x) == m.env[Max({k \in DOMAIN m.env : m.env[k].name = x})]

Get(m, l, t) ==
    IF Gone(m) \/ l \notin DOMAIN m.mem THEN Wrong(m, IF l = <<>> THEN "null" ELSE "stray")
    ELSE IF m.mem[l] = <<>> THEN Wrong(m, "unset") ELSE Val(m, Conv(t, m.mem[l][1]))
Put(m, l, v) ==
    CASE Gone(m) -> m
      [] l \notin DOMAIN m.mem -> End(m, Undefined(IF l = <<>> THEN "null" ELSE "stray"))
      [] OTHER -> [m EXCEPT !.mem[l] = <<v>>]

-----------------------------------------------------------------------------
(* Expressions.                                                            *)

RECURSIVE Eval(_, _), Place(_, _), CallFunc(_, _, _)

\* Each in order: the values, with the state after the last.
EvalAll(m, es) ==
    FoldLeft(LAMBDA s, e : LET r == Eval(s.m, e) IN [m |-> r.m, vs |-> Append(s.vs, r.v)],
             [m |-> m, vs |-> <<>>], es)

\* An element: every index within its own dimension.
ElementNumber(m, ixs, dims) ==
    LET r == EvalAll(m, ixs)
        fits == Len(ixs) = Len(dims) /\ \A k \in DOMAIN ixs : r.vs[k] \in 0 .. dims[k] - 1
    IN  IF Gone(r.m) \/ ~fits THEN Wrong(r.m, "bounds")
        ELSE Val(r.m, FoldLeftDomain(LAMBDA n, k : n * dims[k] + r.vs[k], 0, ixs))

\* p + n, among the elements of one array.
Shifted(m, p, n) ==
    CASE Gone(m) \/ p = <<>> -> Wrong(m, "stray")
      [] n = 0 -> Val(m, p)
      [] Len(p) < 2 -> Wrong(m, "stray")
      [] OTHER -> Val(m, [p EXCEPT ![Len(p)] = @ + n])

\* p[i]...[j]
Walk(m, p, ixs) ==
    LET Go(s, k) ==
            LET from == IF k = 1 THEN s ELSE Get(s.m, s.v, NullT)
                i == Eval(from.m, ixs[k])
            IN  Shifted(i.m, from.v, i.v)
    IN  FoldLeftDomain(Go, Val(m, p), ixs)

\* Where an expression is stored: v its place, ty the type there.
Place(m, e) ==
    LET x == Find(m, e.v)
        n == ElementNumber(m, e.args, x.dims)
        p == Get(m, x.at, x.ty)
        w == Walk(p.m, p.v, e.args)
        base == Place(m, e.args[1])
        field == Min(FieldIndex(m.defs, base.ty, e.v))
        q == Eval(m, e.args[1])
        With(r, l, t) == [m |-> r.m, v |-> l, ty |-> t]
    IN  CASE Gone(m) -> With(Val(m, 0), <<>>, NoType)
          [] e.kind = "var" -> With(Val(m, 0), x.at, x.ty)
          [] e.kind = "index" -> IF x.dims # <<>> THEN With(n, Append(x.at, n.v), x.ty) ELSE With(w, w.v, e.ty)
          [] e.kind = "member" ->
               With(base, Append(base.v, FieldStep(base.ty, field)), m.defs[base.ty][field].ty)
          [] e.kind = "un" -> With(q, q.v, e.ty)

Load(m, e) == LET p == Place(m, e) IN IF Gone(p.m) THEN Wrong(p.m, "") ELSE Get(p.m, p.v, p.ty)

Calculate(m, op, T, a, b) ==
    CASE Gone(m) \/ (op \in {"/", "%"} /\ b = 0) -> Wrong(m, "division")
      [] op \in {"<<", ">>"} /\ b \notin 0 .. WordBits - 1 -> Wrong(m, "shift")
      [] op \in {"<<", ">>"} /\ b >= IntBits(T) -> Wrong(m, "wide shift")
      [] OTHER -> Val(m, Conv(T, CASE op = "+" -> a + b
                                   [] op = "-" -> a - b
                                   [] op = "*" -> a * b
                                   [] op = "/" -> TruncDiv(a, b)
                                   [] op = "%" -> TruncMod(a, b)
                                   [] op = "&" -> BitAnd(Bit64(a), Bit64(b))
                                   [] op = "|" -> BitOr(Bit64(a), Bit64(b))
                                   [] op = "^" -> BitXor(Bit64(a), Bit64(b))
                                   [] op = "<<" -> a * 2^b
                                   [] op = ">>" -> a \div 2^b))

Compare(op, a, b) ==
    Truth(CASE op = "==" -> a = b
            [] op = "!=" -> a # b
            [] op = "<" -> a < b
            [] op = ">" -> a > b
            [] op = "<=" -> a <= b
            [] op = ">=" -> a >= b)

\* "and" and "or" stop at a left side that decides.
EvalLogic(m, e) ==
    LET l == Eval(m, e.args[1])
        r == Eval(l.m, e.args[2])
        decided == (l.v # 0) = (e.v = "or")
    IN  IF decided THEN Val(l.m, Truth(l.v # 0)) ELSE Val(r.m, Truth(r.v # 0))

EvalBin(m, e) ==
    LET l == Eval(m, e.args[1])
        r == Eval(l.m, e.args[2])
        t == e.args[1].ty
        u == e.args[2].ty
        T == IF e.v \in {"<<", ">>"} THEN Promote(t) ELSE UsualArith(t, u)
        a == Conv(T, l.v)
        b == IF e.v \in {"<<", ">>"} THEN r.v ELSE Conv(T, r.v)
        sameObject == Len(l.v) >= 2 /\ Len(l.v) = Len(r.v) /\ Front(l.v) = Front(r.v)
        signed == IF e.v = "-" THEN -1 ELSE 1
    IN  CASE e.v \in LogicOps -> EvalLogic(m, e)
          [] e.v \notin LogicOps /\ Gone(r.m) -> Wrong(r.m, "")
          [] e.v \in AddOps /\ IsPointer(e.ty) ->
               IF IsPointer(t) THEN Shifted(r.m, l.v, signed * r.v) ELSE Shifted(r.m, r.v, l.v)
          [] e.v = "-" /\ IsPointer(t) -> IF sameObject THEN Val(r.m, Last(l.v) - Last(r.v)) ELSE Wrong(r.m, "stray")
          [] e.v \in RelOps /\ IsPointer(t) -> Val(r.m, Truth((l.v = r.v) = (e.v = "==")))
          [] e.v \in RelOps -> Val(r.m, Compare(e.v, a, b))
          [] OTHER -> Calculate(r.m, e.v, T, a, b)

EvalUn(m, e) ==
    LET r == Eval(m, e.args[1])
        p == Place(m, e.args[1])
    IN  CASE e.v = "&" -> Val(p.m, p.v)
          [] e.v = "*" -> Load(m, e)
          [] e.v = "-" -> Val(r.m, Conv(e.ty, -Conv(e.ty, r.v)))
          [] e.v = "~" -> Val(r.m, Conv(e.ty, -1 - Conv(e.ty, r.v)))
          [] e.v = "not" -> Val(r.m, Truth(r.v = 0))

\* x++ has the value before.
EvalPost(m, e) ==
    LET p == Place(m, e.args[1])
        old == Get(p.m, p.v, p.ty)
        new == Conv(p.ty, IF e.v = "++" THEN old.v + 1 ELSE old.v - 1)
    IN  IF Gone(p.m) \/ Gone(old.m) THEN Wrong(old.m, "") ELSE Val(Put(old.m, p.v, new), old.v)

Eval(m, e) ==
    CASE Gone(m) -> Val(m, 0)
      [] e.kind = "int" -> Val(m, Conv(IntT, e.v))
      [] e.kind = "bool" -> Val(m, Truth(e.v))
      [] e.kind = "char" -> Val(m, e.v % CodePoints)
      [] e.kind = "null" -> Val(m, <<>>)
      [] e.kind = "sizeof" -> Val(m, e.v)
      [] e.kind = "member" /\ e.to.as = "enum" -> Val(m, e.to.offset)
      [] e.kind \in {"var", "index", "member"} -> Load(m, e)
      [] e.kind = "bin" -> EvalBin(m, e)
      [] e.kind = "un" -> EvalUn(m, e)
      [] e.kind = "post" -> EvalPost(m, e)
      [] e.kind = "cast" -> LET r == Eval(m, e.args[1]) IN Val(r.m, Conv(e.v, r.v))
      [] e.kind = "call" -> LET r == EvalAll(m, e.args) IN CallFunc(r.m, e.v, r.vs)

-----------------------------------------------------------------------------
(* Statements.                                                             *)

RECURSIVE Exec(_, _)
ExecList(m, ss) == FoldLeft(Exec, m, ss)
\* Names declared inside are gone after.
Inside(m, run(_)) == LET r == run(m) IN [r EXCEPT !.env = m.env]

Broke == <<"broke">>
Continued == <<"continued">>
Resume(m, why) == IF m.ctl = why THEN [m EXCEPT !.ctl = Going] ELSE m
Spend(m) == IF m.steps = 0 THEN End(m, <<"no fuel">>) ELSE [m EXCEPT !.steps = @ - 1]

\* Elements and fields left out of an initialiser are zero.
ZeroOf(t) == IF IsPointer(t) THEN <<<<>>>> ELSE <<0>>
Initialise(m, d, o) ==
    LET Element(s, k) == LET r == GiveTo(Eval(s, d.init[k]), d.ty) IN Put(r.m, <<o, k - 1>>, r.v)
        One(s) == LET r == GiveTo(Eval(s, d.init[1]), d.ty) IN Put(r.m, <<o>>, r.v)
        GiveField(s, f) ==
            LET r == GiveTo(Eval(s, f.e), f.ty)
            IN  Put(r.m, <<o, FieldStep(d.ty, Min(FieldIndex(s.defs, d.ty, f.name)))>>, r.v)
    IN  CASE d.kind = "array" -> FoldLeftDomain(Element, m, d.init)
          [] d.init # <<>> -> One(m)
          [] OTHER -> FoldLeft(GiveField, m, d.fields)

\* A static object lives on: it is made and given its value once.
Declare(m, d) ==
    LET static == d.static /\ <<m.fname, d>> \in DOMAIN m.statics
        given == d.init # <<>> \/ d.fields # <<>>
        first == IF d.static \/ given \/ (d.kind = "decl" /\ ~IsAggregate(d.ty)) THEN ZeroOf(d.ty) ELSE <<>>
        o == m.objects + 1
        made == Initialise(NewObject(m, d, first), d, o)
        kept == IF d.static THEN [made EXCEPT !.statics = (<<m.fname, d>> :> o) @@ @] ELSE made
    IN  IF static THEN Name(m, d, m.statics[<<m.fname, d>>]) ELSE Name(kept, d, o)

ExecAssign(p, e, way) ==
    LET r == GiveBy(Eval(p.m, e), p.ty, way) IN IF Gone(r.m) THEN r.m ELSE Put(r.m, p.v, r.v)

RECURSIVE Loop(_, _, _, _)
\* cond and inc have length 0 or 1.
Loop(m, cond, body, inc) ==
    LET c == Eval(m, cond[1])
        go == IF cond = <<>> THEN m ELSE c.m
        round == Resume(Inside(Spend(go), LAMBDA h : Exec(h, body)), Continued)
        next == IF Gone(round) \/ inc = <<>> THEN round ELSE Exec(round, inc[1])
    IN  CASE Gone(m) -> Resume(m, Broke)
          [] Gone(go) \/ (cond # <<>> /\ c.v = 0) -> go
          [] OTHER -> Loop(next, cond, body, inc)

\* The first case whose label equals the value, else the default; from there
\* on through the cases that follow, up to a break.
ExecSwitch(m, s) ==
    LET c == Eval(m, s.e)
        labels == [k \in DOMAIN s.cases |-> IF s.cases[k].label = <<>> THEN <<>> ELSE <<Eval(c.m, s.cases[k].label[1]).v>>]
        hits == {k \in DOMAIN labels : labels[k] = <<c.v>>}
        other == {k \in DOMAIN labels : labels[k] = <<>>}
        from == IF hits # {} THEN Min(hits) ELSE IF other # {} THEN Max(other) ELSE Len(s.cases) + 1
        Arm(h, k) == Inside(h, LAMBDA i : ExecList(i, s.cases[k].body))
    IN  IF Gone(c.m) THEN c.m
        ELSE Resume(FoldLeft(Arm, c.m, [k \in 1 .. Len(s.cases) + 1 - from |-> from + k - 1]), Broke)

Exec(m, s) ==
    CASE Gone(m) -> m
      [] s.kind \in {"decl", "array"} -> Declare(m, s)
      [] s.kind = "block" -> Inside(m, LAMBDA h : ExecList(h, s.body))
      [] s.kind = "assign" -> ExecAssign(Place(m, Var(s.name)), s.e, "name")
      [] s.kind = "assign to" -> ExecAssign(Place(m, s.lv), s.e, IF s.lv.kind = "un" THEN "pointer" ELSE "name")
      [] s.kind = "if" ->
           LET c == Eval(m, s.c)
           IN  CASE Gone(c.m) -> c.m
                 [] c.v # 0 -> Inside(c.m, LAMBDA h : Exec(h, s.yes))
                 [] s.no = <<>> -> c.m
                 [] OTHER -> Inside(c.m, LAMBDA h : Exec(h, s.no[1]))
      [] s.kind = "while" -> Loop(m, <<s.c>>, s.body, <<>>)
      [] s.kind = "for" ->
           Inside(m, LAMBDA h : Loop(IF s.init = <<>> THEN h ELSE Exec(h, s.init[1]), s.cond, s.body, s.inc))
      [] s.kind = "switch" -> ExecSwitch(m, s)
      [] s.kind = "break" -> End(m, Broke)
      [] s.kind = "continue" -> End(m, Continued)
      [] s.kind = "return" ->
           IF s.e = <<>> THEN End(m, <<"returned", 0>>)
           ELSE LET r == GiveTo(Eval(m, s.e[1]), m.funcs[m.fname].ret) IN End(r.m, <<"returned", r.v>>)
      [] s.kind = "print" -> LET r == Eval(m, s.e) IN IF Gone(r.m) THEN r.m ELSE [r.m EXCEPT !.out = Append(@, r.v)]
      [] s.kind = "read" ->
           LET p == Place(m, Var(s.name)) IN [Put(m, p.v, Conv(p.ty, 3 + m.reads)) EXCEPT !.reads = @ + 1]
      [] s.kind = "expr" -> Eval(m, s.e).m

\* A call: a frame of its own, which sees the globals.
CallFunc(m, f, vs) ==
    LET d == m.funcs[f]
        Bind(s, k) ==
            LET p == Decl(d.params[k].name, d.params[k].ty, <<>>)
                r == GiveTo(Val(s, vs[k]), p.ty)
            IN  Name(Put(NewObject(r.m, p, <<>>), <<s.objects + 1>>, r.v), p, s.objects + 1)
        globals == SelectSeq(m.env, LAMBDA x : x.at[1] <= m.funcs.globals)
        frame == FoldLeftDomain(Bind, [Spend(m) EXCEPT !.env = globals, !.fname = f], d.params)
        done == Exec(frame, Block(d.body))
        back == [done EXCEPT !.env = m.env, !.fname = m.fname]
    IN  CASE Gone(m) -> Val(m, 0)
          [] done.ctl = Going -> Val(back, 0)
          [] done.ctl[1] = "returned" -> Val([back EXCEPT !.ctl = Going], done.ctl[2])
          [] OTHER -> Val(back, 0)

\* What the world sees of a run of the main function, and whether an implicit
\* conversion changed a value in it.
Run(decls, defs, fn) ==
    LET defined == {k \in DOMAIN decls : decls[k].kind = "func" /\ ~decls[k].proto}
        storage == SelectSeq(decls, LAMBDA d : d.kind \in {"decl", "array"})
        funcs == [f \in {decls[k].name : k \in defined} \cup {"globals"} |->
                    IF f = "globals" THEN Len(storage) ELSE decls[CHOOSE k \in defined : decls[k].name = f]]
        placed == FoldLeft(LAMBDA m, d : Declare(m, Static(d)), Start(defs, funcs), storage)
        done == CallFunc(placed, fn, <<>>)
    IN  [out |-> done.m.out, lost |-> done.m.lost,
         end |-> IF Gone(done.m) THEN done.m.ctl ELSE <<"returned", done.v>>]
=============================================================================

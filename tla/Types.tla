-------------------------------- MODULE Types ---------------------------------
(***************************************************************************)
(* What the analysis knows of types (src/src/frontend/                     *)
(* analysis_semantic_utils.c, analysis_types.c, analysis_scope.c,          *)
(* analysis_format.c): conversions, constants known at compile time, the   *)
(* layout of structures and unions.                                        *)
(***************************************************************************)
EXTENDS AST, Words, FiniteSets, FiniteSetsExt

IsInteger(t) == t \in IntTypes
IntLike(t) == t \in IntTypes \cup {BoolT, CharT} \/ IsEnum(t)
IsUnsigned(t) == t \in {U8T, U32T, U64T}

Rank(t) == CASE t \in {IntT, U64T} -> 64 [] IntLike(t) -> 32 [] OTHER -> 0
Promote(t) == IF t \in {BoolT, CharT, I8T, U8T} \/ IsEnum(t) THEN I32T ELSE t

\* The type of an arithmetic result: the wider operand's, the unsigned one's
\* among equals.
UsualArith(a, b) ==
    LET p == Promote(a)
        q == Promote(b)
        u == IF IsUnsigned(p) THEN p ELSE q
        s == IF IsUnsigned(p) THEN q ELSE p
    IN  CASE p = q -> p
          [] Rank(p) = 0 \/ Rank(q) = 0 -> IntT
          [] IsUnsigned(p) = IsUnsigned(q) -> IF Rank(p) >= Rank(q) THEN p ELSE q
          [] Rank(u) > Rank(s) -> u
          [] Rank(u) < Rank(s) -> s
          [] OTHER -> IF Rank(s) >= 64 THEN U64T ELSE U32T

\* types_compatible_named: may a value of type "got" be given to "want"?
Compatible(got, want) ==
    CASE IsEnum(want) \/ IsAggregate(want) -> got = want
      [] IsPointer(want) -> IsPointer(got)
      [] VoidT \in {got, want} -> got = want
      [] want = CharT -> got = CharT \/ IsInteger(got) \/ got = BoolT
      [] IsInteger(want) \/ want = BoolT -> IsInteger(got) \/ got \in {BoolT, CharT}
      [] OTHER -> FALSE

\* The null pointer (allowed or not), void* on either side, or the same type.
PtrCompatible(got, want, allowNull) ==
    \/ allowNull /\ ~IsTypedPointer(got)
    \/ IsTypedPointer(got) /\ IsTypedPointer(want) /\ PtrT(VoidT) \in {got, want}
    \/ IsTypedPointer(got) /\ got = want

PtrArithAllowed(t) == IsTypedPointer(t) /\ t[2] # VoidT /\ ~IsAggregate(t[2])

\* Bits and signedness as the narrowing warning sees them.
IntBits(t) ==
    CASE t = BoolT -> 1
      [] t \in {I8T, U8T} -> ByteBits
      [] t \in {I32T, U32T} -> HalfBits
      [] OTHER -> WordBits
CountsUnsigned(t) == IsUnsigned(t) \/ t \in {BoolT, CharT}
FitsIn(n, t) ==
    IF CountsUnsigned(t) THEN n >= 0 /\ (IntBits(t) >= WordBits \/ n < 2^IntBits(t))
    ELSE FitsSigned(IntBits(t), n)

SignedUnsignedCompare(a, b) ==
    /\ IsInteger(Promote(a)) /\ IsInteger(Promote(b))
    /\ IsUnsigned(Promote(a)) # IsUnsigned(Promote(b))

-----------------------------------------------------------------------------
(* Constants: <<n>>, or <<>> when the value is not known.                  *)

Unknown == <<>>
Word(n) == WrapSigned(WordBits, n)
Bit64(n) == n % 2^WordBits

ConstBin(op, a, b) ==
    CASE op = "+" -> <<Word(a + b)>>
      [] op = "-" -> <<Word(a - b)>>
      [] op = "*" -> <<Word(a * b)>>
      [] op \in {"/", "%"} /\ b = 0 -> Unknown
      [] op = "/" -> <<Word(TruncDiv(a, b))>>
      [] op = "%" -> <<Word(TruncMod(a, b))>>
      [] op = "==" -> <<Truth(a = b)>>
      [] op = "!=" -> <<Truth(a # b)>>
      [] op = "<" -> <<Truth(a < b)>>
      [] op = ">" -> <<Truth(a > b)>>
      [] op = "<=" -> <<Truth(a <= b)>>
      [] op = ">=" -> <<Truth(a >= b)>>
      [] op = "and" -> <<Truth(a # 0 /\ b # 0)>>
      [] op = "or" -> <<Truth(a # 0 \/ b # 0)>>
      [] op = "&" -> <<Word(BitAnd(Bit64(a), Bit64(b)))>>
      [] op = "|" -> <<Word(BitOr(Bit64(a), Bit64(b)))>>
      [] op = "^" -> <<Word(BitXor(Bit64(a), Bit64(b)))>>
      [] op \in {"<<", ">>"} /\ b \notin 0 .. WordBits - 1 -> Unknown
      [] op = "<<" -> <<Word(a * 2^b)>>
      [] op = ">>" -> <<a \div 2^b>>

ConstUn(op, a) ==
    CASE op = "-" -> <<Word(-a)>>
      [] op = "not" -> <<Truth(a = 0)>>
      [] op = "~" -> <<-1 - a>>

RECURSIVE EvalConst(_)
EvalConst(e) ==
    LET x == EvalConst(e.args[1])
        y == EvalConst(e.args[2])
    IN  CASE e.kind \in {"int", "char"} -> <<e.v>>
          [] e.kind = "bool" -> <<Truth(e.v)>>
          [] e.kind = "member" -> IF e.to.as = "enum" THEN <<e.to.offset>> ELSE Unknown
          [] e.kind = "un" /\ e.v \in {"-", "not", "~"} ->
               IF x = Unknown THEN Unknown ELSE ConstUn(e.v, x[1])
          [] e.kind = "bin" ->
               IF x = Unknown \/ y = Unknown THEN Unknown ELSE ConstBin(e.v, x[1], y[1])
          [] e.kind = "cast" -> IF IsAggregate(e.v) \/ e.v = VoidT THEN Unknown ELSE x
          [] OTHER -> Unknown

\* static_storage_initializer_is_const
ConstInitializer(e, t) == ~IsAggregate(t) /\ t # VoidT /\ EvalConst(e) # Unknown

\* A slip: only the widths are compared.
MayLoseBits(from, to, e) == IntLike(from) /\ IntLike(to) /\ IntBits(to) < IntBits(from)
                            /\ ~(EvalConst(e) # Unknown /\ FitsIn(EvalConst(e)[1], to))
\* implicit_conversion_may_lose_data
MayLoseData(from, to, e) ==
    LET u == CountsUnsigned(from)
        v == CountsUnsigned(to)
        narrow == CASE u = v -> IntBits(to) < IntBits(from)
                    [] u /\ ~v -> IntBits(to) <= IntBits(from)
                    [] OTHER -> TRUE
        c == EvalConst(e)
    IN  /\ from # to /\ IntLike(from) /\ IntLike(to)
        /\ narrow
        /\ ~(c # Unknown /\ FitsIn(c[1], to))

-----------------------------------------------------------------------------
(* Sizes.  "defs" gives the fields of every structure and union, a sequence *)
(* of [name, ty, const]; "busy" holds the names being laid out.            *)

AlignUp(n, a) == IF n % a = 0 THEN n ELSE n + a - (n % a)

RECURSIVE TypeSizeAlign(_, _, _), Layout(_, _, _)

\* type_size_align: types it does not name have no size.
TypeSizeAlign(defs, t, busy) ==
    CASE t = BoolT -> [size |-> 1, align |-> 1]
      [] t = IntT \/ IsEnum(t) \/ IsPointer(t) -> [size |-> 8, align |-> 8]
      [] IsAggregate(t) /\ t \in DOMAIN defs /\ t \notin busy ->
           LET lay == Layout(defs, t, busy) IN [size |-> lay.size, align |-> lay.align]
      [] OTHER -> [size |-> 0, align |-> 1]

\* The offset of every field in turn; those of a union are all 0.
Layout(defs, t, busy) ==
    LET fields == defs[t]
        Place(l, k) ==
            LET f == TypeSizeAlign(defs, fields[k].ty, busy \cup {t})
                at == IF t[1] = "union" THEN 0 ELSE AlignUp(l.end, f.align)
            IN  [end |-> IF t[1] = "union" THEN Max({l.end, f.size}) ELSE at + f.size,
                 align |-> Max({l.align, f.align}), offsets |-> Append(l.offsets, at)]
        placed == FoldLeftDomain(Place, [end |-> 0, align |-> 1, offsets |-> <<>>], fields)
    IN  [size |-> AlignUp(placed.end, placed.align), align |-> placed.align, offsets |-> placed.offsets]

FieldIndex(defs, t, f) == {k \in DOMAIN defs[t] : defs[t][k].name = f}
FieldOffset(defs, t, f) == Layout(defs, t, {}).offsets[Min(FieldIndex(defs, t, f))]
FieldOf(defs, t, f) == defs[t][Min(FieldIndex(defs, t, f))]

\* A structure that holds itself, or a type that was never defined.
RECURSIVE LayoutFails(_, _, _)
LayoutFails(defs, t, busy) ==
    \/ t \in busy \/ t \notin DOMAIN defs
    \/ \E k \in DOMAIN defs[t] : IsAggregate(defs[t][k].ty) /\ LayoutFails(defs, defs[t][k].ty, busy \cup {t})

\* datatype_size_bytes: the size operator's; <<>> when a type has none.
SizeBytes(defs, t) ==
    CASE t \in {BoolT, I8T, U8T} -> <<1>>
      [] t \in {I32T, U32T} -> <<4>>
      [] t \in {IntT, U64T, CharT} \/ IsEnum(t) \/ IsPointer(t) -> <<8>>
      [] IsAggregate(t) /\ t \in DOMAIN defs -> <<Layout(defs, t, {}).size>>
      [] OTHER -> <<>>
=============================================================================

--------------------------------- MODULE AST ----------------------------------
(***************************************************************************)
(* The syntax tree the front end hands on (src/src/frontend/ast.h): types, *)
(* expressions, statements and declarations.  Names and literals are taken *)
(* as they come from the parser; lists of optional parts have length 0 or  *)
(* 1.                                                                      *)
(***************************************************************************)
EXTENDS Integers, Sequences, TLC

(* Types (DataType): a pointer carries the type it points to, a structure, *)
(* union or enumeration its name.                                          *)

IntT == <<"int">>       \* 64 bits, signed
I32T == <<"i32">>
I8T == <<"i8">>
U8T == <<"u8">>
U32T == <<"u32">>
U64T == <<"u64">>
BoolT == <<"bool">>
CharT == <<"char">>
VoidT == <<"void">>
NoType == <<"none">>
PtrT(t) == <<"pointer", t>>
StructT(name) == <<"struct", name>>
UnionT(name) == <<"union", name>>
EnumT(name) == <<"enum", name>>

IsPointer(t) == t[1] = "pointer"
IsEnum(t) == t[1] = "enum"
IsAggregate(t) == t[1] \in {"struct", "union"}
NullT == PtrT(NoType)   \* the type of the null literal: a pointer of depth 0
IsTypedPointer(t) == IsPointer(t) /\ t # NullT
IntTypes == {IntT, I32T, I8T, U8T, U32T, U64T}

-----------------------------------------------------------------------------
(* Expressions: kind, name or operator or literal, operands, and the type  *)
(* the analysis infers (inferred_type).                                    *)

Expr(kind, v, args) == [kind |-> kind, v |-> v, args |-> args, ty |-> NoType]

Lit(n) == Expr("int", n, <<>>)
Flag(b) == Expr("bool", b, <<>>)
Chr(c) == Expr("char", c, <<>>)
Null == Expr("null", 0, <<>>)
Var(x) == Expr("var", x, <<>>)
Bin(op, l, r) == Expr("bin", op, <<l, r>>)
Un(op, e) == Expr("un", op, <<e>>)
Post(op, e) == Expr("post", op, <<e>>)
Index(a, ixs) == Expr("index", a, ixs)
Call(f, args) == Expr("call", f, args)
Cast(t, e) == Expr("cast", t, <<e>>)
SizeOf(t) == Expr("sizeof", 0, <<>>) @@ [of |-> t]
SizeOfE(e) == Expr("sizeof", 0, <<e>>) @@ [of |-> NoType]
\* x:f, x a variable, an element, another member, or the name of an enumeration.
\* The analysis finds the variable at the root and the offset in it, or the
\* value of the enumeration's member.
Unresolved == [as |-> "none", root |-> "", offset |-> 0, const |-> FALSE]
Member(base, field) == Expr("member", field, <<base>>) @@ [to |-> Unresolved]

AddOps == {"+", "-", "*", "/", "%"}
BitOps == {"&", "|", "^", "<<", ">>"}
RelOps == {"==", "!=", "<", ">", "<=", ">="}
LogicOps == {"and", "or"}

-----------------------------------------------------------------------------
(* Statements and declarations.                                            *)

NewDecl(kind, x, t, dims, init) ==
    [kind |-> kind, name |-> x, ty |-> t, dims |-> dims, init |-> init, fields |-> <<>>,
     size |-> 0, static |-> FALSE, const |-> FALSE, extern |-> FALSE]   \* size: of the structure
Decl(x, t, init) == NewDecl("decl", x, t, <<>>, init)
ArrDecl(x, t, dims, init) == NewDecl("array", x, t, dims, init)
\* A structure whose fields are given values: a sequence of [name, e].
StructDecl(x, s, fields) == [NewDecl("decl", x, StructT(s), <<>>, <<>>) EXCEPT !.fields = fields]
Field(f, e) == [name |-> f, e |-> e, at |-> 0, ty |-> NoType]
Static(d) == [d EXCEPT !.static = TRUE]
ConstD(d) == [d EXCEPT !.const = TRUE]
Extern(d) == [d EXCEPT !.extern = TRUE]

Assign(x, e) == [kind |-> "assign", name |-> x, e |-> e]
AssignTo(lv, e) == [kind |-> "assign to", lv |-> lv, e |-> e]   \* an element, a field or what a pointer points to
If(c, yes, no) == [kind |-> "if", c |-> c, yes |-> yes, no |-> no]
While(c, body) == [kind |-> "while", c |-> c, body |-> body]
For(init, cond, inc, body) == [kind |-> "for", init |-> init, cond |-> cond, inc |-> inc, body |-> body]
Switch(e, cases) == [kind |-> "switch", e |-> e, cases |-> cases]
Case(label, body) == [label |-> label, body |-> body]   \* label <<>> is the default
Break == [kind |-> "break"]
Continue == [kind |-> "continue"]
Return(e) == [kind |-> "return", e |-> e]
Show(e) == [kind |-> "print", e |-> e]
Read(x) == [kind |-> "read", name |-> x]
Do(e) == [kind |-> "expr", e |-> e]
Block(ss) == [kind |-> "block", body |-> ss]

Param(x, t) == [name |-> x, ty |-> t]
FuncDef(f, params, ret, body) ==
    [kind |-> "func", name |-> f, params |-> params, ret |-> ret, body |-> body, proto |-> FALSE]
Proto(f, params, ret) == [FuncDef(f, params, ret, <<>>) EXCEPT !.proto = TRUE]
FieldDef(f, t) == [name |-> f, ty |-> t, const |-> FALSE]
StructDef(s, fields) == [kind |-> "struct", name |-> s, fields |-> fields]
UnionDef(u, fields) == [kind |-> "union", name |-> u, fields |-> fields]
EnumDef(n, members) == [kind |-> "enum", name |-> n, members |-> members]
AliasDef(n, t) == [kind |-> "alias", name |-> n, ty |-> t]
=============================================================================

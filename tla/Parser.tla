-------------------------------- MODULE Parser --------------------------------
(***************************************************************************)
(* The parser (src/src/frontend/parser.c and the files it includes): from  *)
(* a sequence of tokens to the declarations of the syntax tree, by         *)
(* recursive descent with one token of lookahead.  A token is a tuple of   *)
(* its type and, for names and literals, its value; the words for types    *)
(* are the types themselves.                                               *)
(*                                                                         *)
(* Every function takes and gives a state of the parser: where it is, the  *)
(* flags, the aliases of types met so far, and in node what was just read. *)
(* broken says that the parse does not come to an end: it goes round       *)
(* without moving, or follows a null pointer.                              *)
(***************************************************************************)
EXTENDS AST, Words

Name(x) == <<"name", x>>
Number(n) == <<"number", n>>
Letter(c) == <<"letter", c>>
EndOfFile == <<"end">>
TypeWords == IntTypes \cup {BoolT, CharT, VoidT}
Composites == {"struct", "union", "enum"}
Nothing == Expr("nothing", 0, <<>>)     \* NULL

Start(text) ==
    [text |-> text, at |-> 1, err |-> FALSE, panic |-> FALSE, aliases |-> <<>>, broken |-> FALSE, node |-> Nothing]

Token(p, k) == IF k <= Len(p.text) THEN p.text[k] ELSE EndOfFile
Current(p) == Token(p, p.at)
Is(p, type) == Current(p)[1] = type
NextIs(p, type) == Token(p, p.at + 1)[1] = type

Advance(p) == IF p.at > Len(p.text) THEN p ELSE [p EXCEPT !.at = @ + 1]
Error(p) == [p EXCEPT !.err = TRUE]
ErrorIf(p, bad) == IF bad THEN Error(p) ELSE p
Panic(p) == IF p.panic THEN p ELSE [p EXCEPT !.err = TRUE, !.panic = TRUE]

\* In panic an unexpected token is neither reported nor skipped.
Eat(p, type) == IF Is(p, type) THEN Advance(p) ELSE Panic(p)
EatAll(p, types) == FoldLeft(Eat, p, types)

Give(p, node) == [p EXCEPT !.node = node]
Lost(p) == Give(p, Nothing)
IsNull(p) == p.node.kind = "nothing"

-----------------------------------------------------------------------------
(* Types.                                                                  *)

\* The first alias of that name, if any.
AliasOf(p, x) == SelectSeq(p.aliases, LAMBDA a : a.name = x)
RegisterAlias(p, a) ==
    IF AliasOf(p, a.name) # <<>> THEN p ELSE [p EXCEPT !.aliases = Append(@, a)]

IsAlias(p) == Is(p, "name") /\ AliasOf(p, Current(p)[2]) # <<>>
StartsType(p) == Current(p) \in TypeWords \/ Current(p)[1] \in Composites \/ IsAlias(p)
IsQualifier(p) == Current(p)[1] \in {"const", "static", "extern"}
\* The word that begins an alias' definition is a name like any other, known
\* by its text.
AliasWord == Name("type")
IsAliasDefinition(p) == Current(p) = AliasWord /\ NextIs(p, "name")

RECURSIVE Stars(_)
Stars(p) == IF Is(p, "*") THEN Stars(Give(Advance(p), PtrT(p.node))) ELSE p

\* A type, NoType when there is none: a word or a composite's name or an alias,
\* and the stars after it.
TypeSpec(p) ==
    LET word == Current(p)
        next == Advance(p)
    IN  CASE word \in TypeWords -> Stars(Give(next, word))
          [] word[1] \in Composites ->
               IF Is(next, "name") THEN Stars(Give(Advance(next), <<word[1], Current(next)[2]>>))
               ELSE Give(Error(next), NoType)
          [] IsAlias(p) -> Stars(Give(next, AliasOf(p, word[2])[1].ty))
          [] OTHER -> Give(p, NoType)

NoQualifiers == [const |-> FALSE, static |-> FALSE, extern |-> FALSE]
RECURSIVE Qualifiers(_)
Qualifiers(p) ==
    IF ~IsQualifier(p) THEN p
    ELSE LET word == Current(p)[1]
         IN  Qualifiers(Advance(Give(ErrorIf(p, p.node[word]), [p.node EXCEPT ![word] = TRUE])))

-----------------------------------------------------------------------------
(* Recovery: the token the parser goes on from.                            *)

DeclarationAnchor(p) == IsAliasDefinition(p) \/ StartsType(p) \/ IsQualifier(p)
StatementAnchor(p) ==
    \/ StartsType(p) \/ IsQualifier(p)
    \/ Current(p)[1] \in {"name", "{", "if", "while", "for", "print", "read", "return", "switch", "break", "continue"}

RECURSIVE Synchronize(_, _)
Synchronize(p, mode) ==
    LET calm == [p EXCEPT !.panic = FALSE]
    IN  CASE Is(p, "end") -> calm
          [] Current(p)[1] \in {".", ";"} -> Advance(calm)
          [] mode = "declaration" /\ Is(p, "}") -> Advance(calm)
          [] \/ mode = "switch" /\ Current(p)[1] \in {"case", "default", "}"}
             \/ mode = "declaration" /\ DeclarationAnchor(p)
             \/ mode = "statement" /\ (StatementAnchor(p) \/ Is(p, "}")) -> calm
          [] OTHER -> Synchronize(Advance(p), mode)

Abandon(p, mode) == Lost(Synchronize(Error(p), mode))

\* Nothing was read and p is where the loop came from, in the same state: it
\* never ends.
GoesRound(p, before) == p.at = before.at /\ p.panic = before.panic

-----------------------------------------------------------------------------
(* Expressions.  The operators by precedence, loosest first.               *)

Levels == <<{"or"}, {"and"}, {"|"}, {"^"}, {"&"}, {"==", "!="}, {"<", ">", "<=", ">="}, {"<<", ">>"},
            {"+", "-"}, {"*", "/", "%"}>>
Binds(p, level) == \E l \in level .. Len(Levels) : Current(p)[1] \in Levels[l]
\* A slip: equal operators group to the right.
LevelBelow(op) == (CHOOSE l \in DOMAIN Levels : op \in Levels[l]) - 1
LevelOf(op) == CHOOSE l \in DOMAIN Levels : op \in Levels[l]

\* Two literals are folded while reading, in 32 bits where both fit.
FoldWidth(l, r) == IF FitsSigned(HalfBits, l) /\ FitsSigned(HalfBits, r) THEN HalfBits ELSE WordBits
Folded(op, l, r) ==
    WrapSigned(FoldWidth(l, r),
        CASE op = "+" -> l + r
          [] op = "-" -> l - r
          [] op = "*" -> l * r
          [] r = 0 -> 0
          [] op = "/" -> TruncDiv(l, r)
          [] op = "%" -> TruncMod(l, r))
Folds(op, l, r) == op \in AddOps /\ l.kind = "int" /\ r.kind = "int"
Combine(p, op, l) ==
    LET r == p.node
    IN  IF Folds(op, l, r) THEN Give(ErrorIf(p, op \in {"/", "%"} /\ r.v = 0), Lit(Folded(op, l.v, r.v)))
        ELSE Give(p, Bin(op, l, r))

PrefixOps == {"-", "not", "~", "&", "*", "++", "--"}
StepOps == {"++", "--"}

RECURSIVE Climb(_, _), Unary(_), Arguments(_, _), Indices(_, _), Members(_)

\* parse_expression, and every level of it
Operation(p, level) == Climb(Unary(p), level)
Expression(p) == Operation(p, 1)

\* Operators of the level and tighter, applied to what was read.
Climb(p, level) ==
    IF IsNull(p) \/ ~Binds(p, level) THEN p
    ELSE LET op == Current(p)[1]
             right == Operation(Advance(p), LevelOf(op) + 1)
         IN  IF IsNull(right) THEN right ELSE Climb(Combine(right, op, p.node), level)

Arguments(p, args) ==
    LET a == Expression(p)
    IN  IF IsNull(a) THEN Give(a, args)
        ELSE IF Is(a, ",") THEN Arguments(Advance(a), Append(args, a.node)) ELSE Give(a, Append(args, a.node))

Indices(p, ixs) ==
    IF ~Is(p, "[") THEN Give(p, ixs)
    ELSE LET e == Expression(Advance(p))
         IN  Indices(Eat(e, "]"), IF IsNull(e) THEN ixs ELSE Append(ixs, e.node))

\* :member, any number of times
Members(p) ==
    IF IsNull(p) \/ ~Is(p, ":") THEN p
    ELSE LET q == Advance(p)
         IN  IF ~Is(q, "name") THEN Error(q) ELSE Members(Give(Advance(q), Member(p.node, Current(q)[2])))

SizeOfOperand(p) ==
    IF StartsType(p)
    THEN LET t == TypeSpec(p) IN Eat(Give(ErrorIf(t, t.node = NoType), SizeOf(t.node)), ")")
    ELSE LET e == Expression(p) IN Eat(Give(e, SizeOfE(e.node)), ")")

\* What a name begins: a call, an element, a variable.
Named(p, x) ==
    CASE Is(p, "(") ->
           LET args == IF NextIs(p, ")") THEN Give(Advance(p), <<>>) ELSE Arguments(Advance(p), <<>>)
           IN  Eat(Give(args, Call(x, args.node)), ")")
      [] Is(p, "[") -> LET ixs == Indices(p, <<>>) IN Give(ixs, Index(x, ixs.node))
      [] OTHER -> Give(p, Var(x))

Operand(p) ==
    LET word == Current(p)
        next == Advance(p)
    IN  CASE word[1] = "number" -> Give(next, Lit(word[2]))
          [] word[1] = "letter" -> Give(next, Chr(word[2]))
          [] word[1] \in {"true", "false"} -> Give(next, Flag(word[1] = "true"))
          [] word = VoidT -> Give(next, Null)
          [] word[1] = "sizeof" -> SizeOfOperand(Eat(next, "("))
          [] word[1] = "name" -> Named(next, word[2])
          [] word[1] = "(" -> Eat(Expression(next), ")")
          [] OTHER -> Lost(Panic(p))

\* parse_primary
Primary(p) ==
    LET m == Members(Operand(p))
    IN  IF ~IsNull(m) /\ Current(m)[1] \in StepOps THEN Give(Advance(m), Post(Current(m)[1], m.node)) ELSE m

CastOf(p) ==
    LET t == TypeSpec(EatAll(p, <<"cast", "<">>))
        e == Expression(EatAll(ErrorIf(t, t.node = NoType), <<">", "(">>))
    IN  Eat(Give(e, Cast(t.node, e.node)), ")")

Unary(p) ==
    CASE Is(p, "cast") -> CastOf(p)
      [] Current(p)[1] \in PrefixOps ->
           LET e == Unary(Advance(p)) IN IF IsNull(e) THEN e ELSE Give(e, Un(Current(p)[1], e.node))
      [] OTHER -> Primary(p)

-----------------------------------------------------------------------------
(* Declarations of variables.                                              *)

\* [n] any number of times; a size that is no positive literal is 0.
RECURSIVE Dimensions(_, _)
Dimensions(p, dims) ==
    IF ~Is(p, "[") THEN Give(p, dims)
    ELSE LET q == Advance(p)
             size == IF Is(q, "number") /\ Current(q)[2] > 0 THEN Current(q)[2] ELSE 0
             r == IF Is(q, "number") THEN Advance(q) ELSE q
         IN  Dimensions(Eat(ErrorIf(r, size = 0), "]"), Append(dims, size))

\* The values of an array: groups nest and are flattened, a comma may end one.
RECURSIVE ArrayGroup(_, _), ArrayItems(_, _)
ArrayItems(p, items) ==
    LET e == Expression(p)
        q == IF Is(p, "{") THEN ArrayGroup(p, items)
             ELSE Give(e, IF IsNull(e) THEN items ELSE Append(items, e.node))
    IN  IF ~Is(q, ",") THEN q
        ELSE IF NextIs(q, "}") THEN Advance(q) ELSE ArrayItems(Advance(q), q.node)
ArrayGroup(p, items) ==
    LET q == Eat(p, "{") IN Eat(IF Is(q, "}") THEN Give(q, items) ELSE ArrayItems(q, items), "}")
ArrayValues(p) ==
    IF ~Is(p, "=") THEN Give(p, <<>>)
    ELSE IF NextIs(p, "{") THEN ArrayGroup(Advance(p), <<>>) ELSE Give(Error(Advance(p)), <<>>)

\* The fields of a structure that are given a value.
RECURSIVE FieldItems(_, _)
FieldItems(p, items) ==
    IF ~Is(p, "name") \/ ~NextIs(p, ":")
    THEN Give(Synchronize(Error(IF Is(p, "name") THEN Advance(p) ELSE p), "statement"), items)
    ELSE LET e == Expression(Advance(Advance(p)))
             more == Append(items, Field(Current(p)[2], e.node))
         IN  CASE IsNull(e) -> Give(e, items)
               [] ~Is(e, ",") -> Give(e, more)
               [] NextIs(e, "}") -> Give(Advance(e), more)
               [] OTHER -> FieldItems(Advance(e), more)
FieldValues(p) ==
    IF ~Is(p, "=") THEN Give(p, <<>>)
    ELSE IF ~NextIs(p, "{") THEN Give(Error(Advance(p)), <<>>)
    ELSE LET q == Advance(Advance(p)) IN Eat(IF Is(q, "}") THEN Give(q, <<>>) ELSE FieldItems(q, <<>>), "}")

\* = expression, when it is there or must be.
Initializer(p, required) ==
    IF Is(p, "=") \/ required THEN LET e == Expression(Eat(p, "=")) IN Give(e, <<e.node>>) ELSE Give(p, <<>>)

Marked(d, q) == [d EXCEPT !.const = q.const, !.static = q.static, !.extern = q.extern]

\* The rest of a variable's declaration, after its name, up to what ends it.
ArrayRest(p, q, t, x) ==
    LET dims == Dimensions(p, <<>>)
        init == ArrayValues(dims)
    IN  Give(Eat(ErrorIf(init, q.extern /\ Is(dims, "=")), "."), Marked(ArrDecl(x, t, dims.node, init.node), q))
StructRest(p, q, t, x) ==
    LET init == FieldValues(p)
        bad == (q.const /\ ~q.extern /\ ~Is(p, "=")) \/ (q.extern /\ Is(p, "="))
    IN  Give(Eat(ErrorIf(init, bad), "."), Marked([NewDecl("decl", x, t, <<>>, <<>>) EXCEPT !.fields = init.node], q))
ScalarRest(p, q, t, x, local, last) ==
    LET bad == \/ local /\ q.const /\ ~q.static /\ ~Is(p, "=")
               \/ q.extern /\ Is(p, "=")
        init == Initializer(ErrorIf(p, bad), local /\ ~q.static)
    IN  Give(Eat(init, last), Marked(Decl(x, t, init.node), q))

VariableRest(p, q, t, x, local) ==
    LET r == ErrorIf(p, t = VoidT)
    IN  IF Is(r, "[") THEN ArrayRest(r, q, t, x)
        ELSE IF IsAggregate(t) THEN StructRest(r, q, t, x) ELSE ScalarRest(r, q, t, x, local, ".")

\* A variable of a function: p is after the qualifiers, in its node.
LocalVariable(p) ==
    LET q == p.node
        t == TypeSpec(ErrorIf(p, q.extern))
    IN  IF ~StartsType(p) \/ t.node = NoType \/ ~Is(t, "name") THEN Abandon(t, "statement")
        ELSE VariableRest(Advance(t), [q EXCEPT !.extern = FALSE], t.node, Current(t)[2], TRUE)

AliasDefinition(p, register) ==
    LET t == TypeSpec(Eat(Advance(Advance(p)), "="))
        d == AliasDef(Current(Advance(p))[2], t.node)
        done == Eat(Give(t, d), ".")
    IN  IF t.node = NoType THEN Abandon(t, "declaration")
        ELSE IF register THEN RegisterAlias(done, d) ELSE done

-----------------------------------------------------------------------------
(* Statements.                                                             *)

RECURSIVE Statement(_), Statements(_, _), CaseBody(_, _), Cases(_, _)

\* The statements of a block, up to its end.
Statements(p, done) ==
    IF Current(p)[1] \in {"}", "end"} THEN Give(p, done)
    ELSE LET s == Statement(p)
             q == IF IsNull(s) THEN Synchronize(s, "statement") ELSE s
         IN  IF s.broken THEN Give(s, done)
             ELSE IF IsNull(s) /\ GoesRound(q, p) THEN Give([q EXCEPT !.broken = TRUE], done)
             ELSE Statements(q, IF IsNull(s) THEN done ELSE Append(done, s.node))
BlockOf(p) == LET q == Statements(Eat(p, "{"), <<>>) IN Give(Eat(q, "}"), Block(q.node))

\* The statements of a case; no block needs to hold them.
CaseBody(p, done) ==
    IF Current(p)[1] \in {"case", "default", "}", "end"} THEN Give(p, done)
    ELSE LET s == Statement(p)
         IN  IF s.broken THEN Give(s, done)
             ELSE IF IsNull(s) THEN CaseBody(Synchronize(s, "switch"), done)
             ELSE CaseBody(s, Append(done, s.node))
CaseLabel(p) ==
    LET q == Advance(p)
    IN  CASE Is(p, "default") -> Give(Eat(q, ":"), <<>>)
          [] Is(q, "number") -> Give(Eat(Advance(q), ":"), <<Lit(Current(q)[2])>>)
          [] Is(q, "letter") -> Give(Eat(Advance(q), ":"), <<Chr(Current(q)[2])>>)
          [] OTHER -> Give(Eat(Error(q), ":"), <<Nothing>>)
Cases(p, done) ==
    CASE Current(p)[1] \in {"}", "end"} -> Give(p, done)
      [] Current(p)[1] \in {"case", "default"} ->
           LET label == CaseLabel(p)
               body == CaseBody(label, <<>>)
           IN  IF body.broken THEN Give(body, done) ELSE Cases(body, Append(done, Case(label.node, body.node)))
      [] OTHER -> Cases(Synchronize(Error(p), "switch"), done)
SwitchOf(p) ==
    LET e == Expression(EatAll(p, <<"switch", "(">>))
        cases == Cases(EatAll(e, <<")", "{">>), <<>>)
    IN  Give(Eat(cases, "}"), Switch(e.node, cases.node))

\* ( condition ), after the statement's word
Condition(p) == LET e == Expression(Eat(Advance(p), "(")) IN Eat(e, ")")
IfOf(p) ==
    LET c == Condition(p)
        yes == Statement(c)
        no == Statement(Advance(yes))
    IN  IF Is(yes, "else") THEN Give(no, If(c.node, yes.node, <<no.node>>)) ELSE Give(yes, If(c.node, yes.node, <<>>))
WhileOf(p) == LET c == Condition(p)
                  body == Statement(c)
              IN  Give(body, While(c.node, body.node))

IsAssignment(p) == Is(p, "name") /\ NextIs(p, "=")
Assignment(p) == LET e == Expression(Advance(Advance(p))) IN Give(e, Assign(Current(p)[2], e.node))

\* for ( init ; condition ; step ) statement: NULL when the init has no variable.
ForVariable(p) ==
    LET q == Qualifiers(Give(p, NoQualifiers))
        t == TypeSpec(ErrorIf(q, q.node.extern))
    IN  IF ~StartsType(q) \/ t.node = NoType \/ ~Is(t, "name") THEN Abandon(t, "statement")
        ELSE ScalarRest(ErrorIf(Advance(t), IsAggregate(t.node)), [q.node EXCEPT !.extern = FALSE], t.node,
                        Current(t)[2], TRUE, ";")
ForInit(p) ==
    LET e == Expression(p)
        a == Assignment(p)
    IN  CASE IsAssignment(p) -> Give(Eat(a, ";"), <<a.node>>)
          [] Is(p, ";") -> Give(Advance(p), <<>>)
          [] OTHER -> Give(Eat(e, ";"), <<Do(e.node)>>)
ForRest(init, list) ==
    LET e == Expression(init)
        cond == IF Is(init, ";") THEN Give(init, <<>>) ELSE Give(e, <<e.node>>)
        from == Eat(cond, ";")
        f == Expression(from)
        step == IF IsAssignment(from) THEN Assignment(from) ELSE Give(f, Do(f.node))
        body == Statement(Eat(step, ")"))
    IN  Give(body, For(list, cond.node, <<step.node>>, body.node))
ForOf(p) ==
    LET q == EatAll(p, <<"for", "(">>)
        v == ForVariable(q)
        init == ForInit(q)
    IN  IF IsQualifier(q) \/ StartsType(q) THEN IF IsNull(v) THEN v ELSE ForRest(v, <<v.node>>)
        ELSE ForRest(init, init.node)

\* word expression .
ReturnOf(p) ==
    LET q == Advance(p)
        e == Expression(q)
    IN  IF Is(q, ".") THEN Give(Advance(q), Return(<<>>)) ELSE Give(Eat(e, "."), Return(<<e.node>>))
ShowOf(p) == LET e == Expression(Advance(p)) IN Give(Eat(e, "."), Show(e.node))
ReadOf(p) ==
    LET q == Advance(p)
    IN  IF Is(q, "name") THEN Give(Eat(Advance(q), "."), Read(Current(q)[2])) ELSE Lost(Error(q))

\* target = expression .
AssignmentTo(p) == LET e == Expression(Eat(p, "=")) IN Give(Eat(e, "."), AssignTo(p.node, e.node))
ThroughPointer(p) ==
    LET target == Unary(p)
    IN  IF ~IsNull(target) /\ Is(target, "=") THEN AssignmentTo(target)
        ELSE LET q == Eat(target, ".") IN IF IsNull(q) THEN q ELSE Give(q, Do(q.node))

\* A slip: the name is not passed over.
UnexpectedStays(p) == Lost(Panic(p))
\* Where no statement begins: a name is passed over.
Unexpected(p) == LET q == Panic(p) IN Lost(IF Is(q, "name") THEN Advance(q) ELSE q)

ElementStatement(p) ==
    LET ixs == Indices(Advance(p), <<>>)
        element == Give(ixs, Index(Current(p)[2], ixs.node))
    IN  CASE Is(ixs, ":") -> AssignmentTo(Members(element))
          [] Is(ixs, "=") -> AssignmentTo(element)
          [] Current(ixs)[1] \in StepOps -> Give(Eat(Advance(ixs), "."), Do(Post(Current(ixs)[1], element.node)))
          [] OTHER -> Unexpected(ixs)

\* A call that goes on as an expression is taken apart as the call it is not.
CallStatement(p) ==
    LET e == Expression(p)
    IN  IF e.node.kind = "call" THEN Give(Eat(e, "."), Do(e.node)) ELSE Lost([e EXCEPT !.broken = TRUE])

NamedStatement(p) ==
    CASE NextIs(p, ":") -> AssignmentTo(Expression(p))
      [] NextIs(p, "[") -> ElementStatement(p)
      [] NextIs(p, "=") -> LET a == Assignment(p) IN Eat(a, ".")
      [] NextIs(p, "(") -> CallStatement(p)
      [] Token(p, p.at + 1)[1] \in StepOps ->
           LET e == Expression(p)
               q == Eat(e, ".")
           IN  IF IsNull(e) THEN q ELSE Give(q, Do(e.node))
      [] OTHER -> Unexpected(p)

Statement(p) ==
    CASE Is(p, "{") -> BlockOf(p)
      [] IsAliasDefinition(p) -> AliasDefinition(Error(p), FALSE)
      [] Is(p, "switch") -> SwitchOf(p)
      [] Is(p, "return") -> ReturnOf(p)
      [] Is(p, "break") -> Give(Eat(Advance(p), "."), Break)
      [] Is(p, "continue") -> Give(Eat(Advance(p), "."), Continue)
      [] Is(p, "print") -> ShowOf(p)
      [] Is(p, "read") -> ReadOf(p)
      [] Is(p, "if") -> IfOf(p)
      [] Is(p, "while") -> WhileOf(p)
      [] Is(p, "for") -> ForOf(p)
      [] IsQualifier(p) ->
           LET q == Qualifiers(Give(p, NoQualifiers))
           IN  IF IsAliasDefinition(q) THEN AliasDefinition(Error(q), FALSE) ELSE LocalVariable(q)
      [] StartsType(p) -> LocalVariable(Give(p, NoQualifiers))
      [] Is(p, "*") -> ThroughPointer(p)
      [] Is(p, "name") -> NamedStatement(p)
      [] OTHER -> Unexpected(p)

-----------------------------------------------------------------------------
(* Declarations.                                                           *)

\* name, name, ... ; a comma may end the list.
RECURSIVE EnumMembers(_, _), StructFields(_, _), Parameters(_, _)
EnumMembers(p, names) ==
    IF ~Is(p, "name") THEN Give(Error(p), names)
    ELSE LET q == Advance(p)
             more == Append(names, Current(p)[2])
         IN  IF ~Is(q, ",") THEN Give(q, more)
             ELSE IF NextIs(q, "}") THEN Give(Advance(q), more) ELSE EnumMembers(Advance(q), more)
EnumRest(p, x) ==
    LET q == Advance(p)
        members == IF Is(q, "}") THEN Give(q, <<>>) ELSE EnumMembers(q, <<>>)
    IN  Give(Eat(members, "}"), EnumDef(x, members.node))

StructFields(p, fields) ==
    IF Current(p)[1] \in {"}", "end"} THEN Give(p, fields)
    ELSE LET t == TypeSpec(IF Is(p, "const") THEN Advance(p) ELSE p)
             field == [FieldDef(Current(t)[2], t.node) EXCEPT !.const = Is(p, "const")]
         IN  IF t.node = NoType \/ ~Is(t, "name") \/ NextIs(t, "[")
             THEN Give(Synchronize(Error(t), "declaration"), fields)
             ELSE StructFields(Eat(Advance(t), "."), Append(fields, field))
CompositeRest(p, t) ==
    LET fields == StructFields(Advance(p), <<>>)
    IN  Give(Eat(fields, "}"), IF t[1] = "struct" THEN StructDef(t[2], fields.node) ELSE UnionDef(t[2], fields.node))

\* type [] name, ...: the name may be missing, [] makes a pointer.  NULL when
\* the list is given up.
Parameters(p, params) ==
    LET t == TypeSpec(p)
        wrong == IsAggregate(t.node) \/ IsEnum(t.node) \/ t.node = VoidT
        type == IF wrong THEN IntT ELSE t.node
        brackets == Is(t, "[")
        q == ErrorIf(IF brackets THEN Advance(Advance(t)) ELSE t, wrong)
        x == IF Is(q, "name") THEN Current(q)[2] ELSE ""
        more == Append(params, Param(x, IF brackets THEN PtrT(type) ELSE type))
        after == IF Is(q, "name") THEN Advance(q) ELSE q
    IN  IF t.node = NoType \/ (brackets /\ (~NextIs(t, "]") \/ Is(q, "["))) THEN Abandon(t, "declaration")
        ELSE IF Is(after, ",") THEN Parameters(Advance(after), more) ELSE Give(after, Block(more))
FunctionRest(p, q, t, x) ==
    LET begun == Advance(ErrorIf(p, q.const \/ q.static))
        params == IF Is(begun, ")") THEN Give(begun, Block(<<>>)) ELSE Parameters(begun, <<>>)
        head == Eat(params, ")")
        body == BlockOf(ErrorIf(head, q.extern))
    IN  CASE IsAggregate(t) \/ IsEnum(t) -> Abandon(p, "declaration")
          [] IsNull(params) -> params
          [] Is(head, ".") -> Give(Advance(head), Proto(x, params.node.body, t))
          [] OTHER -> Give(body, FuncDef(x, params.node.body, t, body.node.body))

\* p is after the qualifiers q and the type t.
DeclarationRest(p, q, t) ==
    LET marked == q.const \/ q.static \/ q.extern
        next == Advance(p)
    IN  CASE Is(p, "{") /\ IsEnum(t) -> EnumRest(ErrorIf(p, marked), t[2])
          [] Is(p, "{") /\ IsAggregate(t) -> CompositeRest(ErrorIf(p, marked), t)
          [] ~Is(p, "name") -> Abandon(p, "declaration")
          [] Is(next, "(") -> FunctionRest(next, q, t, Current(p)[2])
          [] OTHER -> VariableRest(next, q, t, Current(p)[2], FALSE)

Declaration(p0) ==
    LET p == Qualifiers(Give(p0, NoQualifiers))
        q == p.node
        marked == q.const \/ q.static \/ q.extern
        t == TypeSpec(p)
    IN  CASE IsAliasDefinition(p) -> AliasDefinition(ErrorIf(p, marked), ~marked)
          [] StartsType(p) /\ t.node = NoType -> Abandon(t, "declaration")
          [] StartsType(p) -> DeclarationRest(ErrorIf(t, q.extern /\ q.static), q, t.node)
          [] OTHER -> LET r == Panic(p) IN Lost(Synchronize(r, "declaration"))

\* parse
RECURSIVE Declarations(_, _)
Declarations(p, done) ==
    IF Is(p, "end") THEN Give(p, done)
    ELSE LET d == Declaration(p)
         IN  IF d.broken \/ GoesRound(d, p) THEN Give([d EXCEPT !.broken = TRUE], done)
             ELSE Declarations(d, IF IsNull(d) THEN done ELSE Append(done, d.node))
Parse(text) == Declarations(Start(text), <<>>)
=============================================================================

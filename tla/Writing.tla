------------------------------- MODULE Writing --------------------------------
(***************************************************************************)
(* How a program is written (docs/LANGUAGE.md): its tokens, with as few    *)
(* parentheses as the table of precedence (section 8.7) allows.  What the  *)
(* parser must read back.  With FoldLiterals, arithmetic between literals  *)
(* is written as its value.                                                *)
(***************************************************************************)
EXTENDS AST, Words

CONSTANT FoldLiterals

Name(x) == <<"name", x>>
W(word) == <<<<word>>>>

Tightness ==
    <<<<"or">>, <<"and">>, <<"|">>, <<"^">>, <<"&">>, <<"==", "!=">>, <<"<", ">", "<=", ">=">>, <<"<<", ">>">>,
      <<"+", "-">>, <<"*", "/", "%">>>>
HowTight(op) == CHOOSE k \in DOMAIN Tightness : \E j \in DOMAIN Tightness[k] : Tightness[k][j] = op
Prefix == 11
Whole == 12

Joined(parts, comma) == FoldLeft(LAMBDA s, part : IF s = <<>> THEN part ELSE s \o comma \o part, <<>>, parts)
Each(Op(_), s) == [k \in DOMAIN s |-> Op(s[k])]

\* The alias for a type that was defined first stands for it.
RECURSIVE WriteType(_, _)
WriteType(t, aliases) ==
    LET names == SelectSeq(aliases, LAMBDA a : a.ty = t)
    IN  IF names # <<>> THEN <<Name(names[1].name)>>
        ELSE IF IsPointer(t) THEN WriteType(t[2], aliases) \o W("*")
        ELSE IF IsAggregate(t) \/ IsEnum(t) THEN <<<<t[1]>>, Name(t[2])>>
        ELSE <<t>>

\* The value of literals added, multiplied and so on, as numbers of their width.
Width(n) == IF FitsSigned(HalfBits, n) THEN HalfBits ELSE WordBits
RECURSIVE Constant(_)
Constant(e) ==
    IF ~FoldLiterals \/ e.kind # "bin" \/ e.v \notin AddOps THEN e
    ELSE LET l == Constant(e.args[1])
             r == Constant(e.args[2])
             exact == CASE e.v = "+" -> l.v + r.v [] e.v = "-" -> l.v - r.v [] e.v = "*" -> l.v * r.v
                        [] e.v = "/" -> TruncDiv(l.v, r.v) [] e.v = "%" -> TruncMod(l.v, r.v)
         IN  IF l.kind = "int" /\ r.kind = "int"
             THEN Lit(WrapSigned(IF Width(l.v) = WordBits THEN WordBits ELSE Width(r.v), exact))
             ELSE e

\* An operand of an operator of that tightness is in parentheses if it is looser.
RECURSIVE Write(_, _, _)
Write(e0, least, al) ==
    LET e == Constant(e0)
        all == Each(LAMBDA a : Write(a, 1, al), e.args)
        op == HowTight(e.v)
        tight == CASE e.kind = "bin" -> op [] e.kind = "un" -> Prefix [] OTHER -> Whole
        tokens ==
          CASE e.kind = "int" -> <<<<"number", e.v>>>>
            [] e.kind = "char" -> <<<<"letter", e.v>>>>
            [] e.kind = "bool" -> W(IF e.v THEN "true" ELSE "false")
            [] e.kind = "null" -> <<VoidT>>
            [] e.kind = "var" -> <<Name(e.v)>>
            [] e.kind = "bin" -> Write(e.args[1], op, al) \o W(e.v) \o Write(e.args[2], op + 1, al)
            [] e.kind = "un" -> W(e.v) \o Write(e.args[1], Prefix, al)
            [] e.kind = "post" -> Write(e.args[1], Whole, al) \o W(e.v)
            [] e.kind = "index" -> <<Name(e.v)>> \o Joined(Each(LAMBDA i : W("[") \o i \o W("]"), all), <<>>)
            [] e.kind = "call" -> <<Name(e.v)>> \o W("(") \o Joined(all, W(",")) \o W(")")
            [] e.kind = "cast" -> W("cast") \o W("<") \o WriteType(e.v, al) \o W(">") \o W("(") \o all[1] \o W(")")
            [] e.kind = "sizeof" ->
                 W("sizeof") \o W("(") \o (IF e.args = <<>> THEN WriteType(e.of, al) ELSE all[1]) \o W(")")
            [] e.kind = "member" -> Write(e.args[1], Whole, al) \o W(":") \o <<Name(e.v)>>
    IN  IF tight < least THEN W("(") \o tokens \o W(")") ELSE tokens

Marks(d) ==
    (IF d.extern THEN W("extern") ELSE <<>>) \o (IF d.static THEN W("static") ELSE <<>>)
    \o (IF d.const THEN W("const") ELSE <<>>)

\* A variable, up to the token that ends it.
WriteVariable(d, al) ==
    LET values == Joined(Each(LAMBDA e : Write(e, 1, al), d.init), W(","))
        fields == Joined(Each(LAMBDA f : <<Name(f.name)>> \o W(":") \o Write(f.e, 1, al), d.fields), W(","))
    IN  Marks(d) \o WriteType(d.ty, al) \o <<Name(d.name)>>
        \o Joined(Each(LAMBDA n : W("[") \o <<<<"number", n>>>> \o W("]"), d.dims), <<>>)
        \o (IF d.init = <<>> /\ d.fields = <<>> THEN <<>>
            ELSE W("=") \o (IF d.kind = "array" THEN W("{") \o values \o W("}")
                            ELSE IF d.fields = <<>> THEN values ELSE W("{") \o fields \o W("}")))

\* A statement in a loop's head has no end of its own.
WritePlain(s, al) ==
    CASE s.kind \in {"decl", "array"} -> WriteVariable(s, al)
      [] s.kind = "assign" -> <<Name(s.name)>> \o W("=") \o Write(s.e, 1, al)
      [] s.kind = "assign to" -> Write(s.lv, 1, al) \o W("=") \o Write(s.e, 1, al)
      [] s.kind = "expr" -> Write(s.e, 1, al)
      [] s.kind \in {"break", "continue"} -> W(s.kind)
      [] s.kind = "return" -> W("return") \o (IF s.e = <<>> THEN <<>> ELSE Write(s.e[1], 1, al))
      [] s.kind = "print" -> W("print") \o Write(s.e, 1, al)
      [] s.kind = "read" -> W("read") \o <<Name(s.name)>>

RECURSIVE WriteStatement(_, _)
WriteStatement(s, al) ==
    LET list(ss) == Joined(Each(LAMBDA t : WriteStatement(t, al), ss), <<>>)
        head(word, tokens) == W(word) \o W("(") \o tokens \o W(")")
        plain(part) == IF part = <<>> THEN <<>> ELSE WritePlain(part[1], al)
        case(c) == (IF c.label = <<>> THEN W("default") ELSE W("case") \o Write(c.label[1], 1, al)) \o W(":") \o list(c.body)
    IN  CASE s.kind = "block" -> W("{") \o list(s.body) \o W("}")
          [] s.kind = "if" -> head("if", Write(s.c, 1, al)) \o WriteStatement(s.yes, al)
                              \o (IF s.no = <<>> THEN <<>> ELSE W("else") \o WriteStatement(s.no[1], al))
          [] s.kind = "while" -> head("while", Write(s.c, 1, al)) \o WriteStatement(s.body, al)
          [] s.kind = "for" ->
               head("for", plain(s.init) \o W(";") \o (IF s.cond = <<>> THEN <<>> ELSE Write(s.cond[1], 1, al)) \o W(";")
                           \o plain(s.inc))
               \o WriteStatement(s.body, al)
          [] s.kind = "switch" -> head("switch", Write(s.e, 1, al)) \o W("{") \o Joined(Each(case, s.cases), <<>>) \o W("}")
          [] OTHER -> WritePlain(s, al) \o W(".")

WriteDeclaration(d, al) ==
    LET param(p) == WriteType(p.ty, al) \o (IF p.name = "" THEN <<>> ELSE <<Name(p.name)>>)
        field(f) == (IF f.const THEN W("const") ELSE <<>>) \o WriteType(f.ty, al) \o <<Name(f.name)>> \o W(".")
    IN  CASE d.kind = "func" ->
               WriteType(d.ret, al) \o <<Name(d.name)>> \o W("(") \o Joined(Each(param, d.params), W(",")) \o W(")")
               \o (IF d.proto THEN W(".") ELSE WriteStatement(Block(d.body), al))
          [] d.kind \in {"struct", "union"} ->
               <<<<d.kind>>, Name(d.name)>> \o W("{") \o Joined(Each(field, d.fields), <<>>) \o W("}")
          [] d.kind = "enum" -> <<<<d.kind>>, Name(d.name)>> \o W("{") \o Joined(Each(LAMBDA m : <<Name(m)>>, d.members), W(",")) \o W("}")
          [] d.kind = "alias" -> <<Name("type"), Name(d.name)>> \o W("=") \o WriteType(d.ty, al) \o W(".")
          [] OTHER -> WriteVariable(d, al) \o W(".")

\* The tokens of a program; an alias stands for its type from its definition on.
Written(ds) ==
    LET alias(k) == SelectSeq(SubSeq(ds, 1, k - 1), LAMBDA d : d.kind = "alias")
    IN  Joined([k \in DOMAIN ds |-> WriteDeclaration(ds[k], alias(k))], <<>>)
=============================================================================

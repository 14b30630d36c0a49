------------------------------ MODULE Unlowered -------------------------------
(***************************************************************************)
(* The constructs the analysis lets through and a later stage turns down,  *)
(* by reporting an error of its own (ir_lower_report_error) or by building *)
(* IR that the verifier refuses; and those that are lowered to something   *)
(* else than they mean.  Stated on the annotated tree; "env" are the       *)
(* declarations in scope, the latest last.                                 *)
(***************************************************************************)
EXTENDS AST, SequencesExt, FiniteSetsExt

RECURSIVE Operands(_)
\* An expression with every operand in it.
Operands(e) == <<e>> \o FlattenSeq([k \in DOMAIN e.args |-> Operands(e.args[k])])
Has(e, test(_)) == LET all == Operands(e) IN \E k \in DOMAIN all : test(all[k])

IsPlace(e) ==
    CASE e.kind = "member" -> e.to.as = "field"
      [] e.kind = "un" -> e.v = "*"
      [] OTHER -> e.kind \in {"var", "index"}

\* Pointers are compared for equality only (ir_verify_inst.c), results of
\* functions without one not at all.
Incomparable(e) ==
    /\ e.kind = "bin" /\ e.v \in RelOps
    /\ e.args[1].ty = VoidT \/ (IsPointer(e.args[1].ty) /\ e.v \notin {"==", "!="})
\* The analysis takes any unary expression, and the value of an enumeration,
\* for something that has an address; and ++ for an operator on any integer.
Placeless(e) == (e.kind = "post" \/ (e.kind = "un" /\ e.v = "&")) /\ ~IsPlace(e.args[1])
WholeElement(e) == e.kind = "index" /\ IsAggregate(e.ty)

Turned(e) == Has(e, LAMBDA x : Incomparable(x) \/ Placeless(x) \/ WholeElement(x))

\* The type a value is lowered with: a literal's is the widest.
Carried(e) == IF e.kind = "int" \/ IsEnum(e.ty) THEN IntT ELSE e.ty

Declarations(ss) == SelectSeq(ss, LAMBDA s : s.kind \in {"decl", "array"})
InScope(env, x) == {k \in DOMAIN env : env[k].name = x}
Latest(env, x) == env[Max(InScope(env, x))]

\* Reading is into a variable of the frame.
ReadsElsewhere(s, env) ==
    InScope(env, s.name) = {} \/ Latest(env, s.name).static \/ Latest(env, s.name).kind = "array"

\* A declaration of a structure of no size, or of an array of structures that is
\* given any, or one whose value is an element of an outer array of its name: the
\* name is bound before the value is lowered.
Given(d) == d.init \o [k \in DOMAIN d.fields |-> d.fields[k].e]
NamesItself(d) ==
    /\ d.kind = "decl" /\ ~d.static /\ ~IsPointer(d.ty)
    /\ \E k \in DOMAIN Given(d) : Has(Given(d)[k], LAMBDA x : x.kind = "index" /\ x.v = d.name)
TurnedDeclaration(d) ==
    NamesItself(d) \/ (IsAggregate(d.ty) /\ (d.size = 0 \/ d.init # <<>>))

\* The head of a for loop may hold an expression, which the analysis does not
\* look at: good is a variable stepped that is there and is a number.
Unseen(part, env) ==
    /\ part # <<>> /\ part[1].kind = "expr" /\ part[1].e.kind # "call"
    /\ LET e == part[1].e
           x == e.args[1].v
       IN  ~(e.kind = "post" /\ e.args[1].kind = "var" /\ InScope(env, x) # {} /\ Latest(env, x).kind = "decl"
             /\ ~IsPointer(Latest(env, x).ty) /\ ~IsAggregate(Latest(env, x).ty))

\* The block being built ends with s, and nothing may be added to it.
RECURSIVE Ends(_)
Ends(s) ==
    \/ s.kind \in {"return", "break", "continue"}
    \/ s.kind = "block" /\ s.body # <<>> /\ Ends(Last(s.body))

\* The expressions that stand in a statement itself.
Expressions(s) ==
    CASE s.kind \in {"decl", "array"} -> Given(s)
      [] s.kind = "assign to" -> <<s.lv, s.e>>
      [] s.kind \in {"if", "while"} -> <<s.c>>
      [] s.kind = "for" -> s.cond
      [] s.kind = "switch" -> <<s.e>> \o FlattenSeq([k \in DOMAIN s.cases |-> s.cases[k].label])
      [] s.kind = "return" -> s.e
      [] s.kind \in {"assign", "print", "expr"} -> <<s.e>>
      [] s.kind \in {"block", "break", "continue", "read"} -> <<>>

\* The lists of statements in a statement.
Bodies(s) ==
    LET seen(part) == SelectSeq(part, LAMBDA t : t.kind # "expr")
    IN  CASE s.kind = "block" -> <<s.body>>
          [] s.kind = "if" -> <<<<s.yes>>>> \o [k \in DOMAIN s.no |-> <<s.no[k]>>]
          [] s.kind = "while" -> <<<<s.body>>>>
          [] s.kind = "for" -> <<seen(s.init) \o seen(s.inc) \o <<s.body>>>>
          [] s.kind = "switch" -> [k \in DOMAIN s.cases |-> s.cases[k].body]
          [] OTHER -> <<>>

RECURSIVE TurnedIn(_, _)
TurnedStatement(s, env) ==
    \/ \E k \in DOMAIN Expressions(s) : Turned(Expressions(s)[k])
    \/ s.kind \in {"decl", "array"} /\ TurnedDeclaration(s)
    \/ s.kind = "read" /\ ReadsElsewhere(s, env)
    \/ s.kind = "expr" /\ s.e.kind # "call"
    \/ s.kind = "for" /\ (Unseen(s.init, env) \/ Unseen(s.inc, env \o Declarations(s.init)))
    \/ s.kind = "switch" /\ \E k \in DOMAIN s.cases :
          s.cases[k].label # <<>> /\ Carried(s.cases[k].label[1]) # Carried(s.e)
    \/ \E k \in DOMAIN Bodies(s) : TurnedIn(Bodies(s)[k], env)
\* Statements in turn: what follows a jump is added behind it.
TurnedIn(ss, env) ==
    \E k \in DOMAIN ss :
        \/ k < Len(ss) /\ Ends(ss[k])
        \/ TurnedStatement(ss[k], env \o Declarations(SubSeq(ss, 1, k - 1)))

\* A function with a result must end with a jump of its own: two branches that
\* both return do not count.
FallsOff(d) == d.ret # VoidT /\ (d.body = <<>> \/ ~Ends(Last(d.body)))

TurnedDown(ds) ==
    \E k \in DOMAIN ds :
        LET d == ds[k]
            shared == Declarations(SubSeq(ds, 1, k - 1))
            env == [j \in DOMAIN shared |-> Static(shared[j])]
                   \o [j \in DOMAIN d.params |-> Decl(d.params[j].name, d.params[j].ty, <<>>)]
        IN  IF d.kind = "func" THEN ~d.proto /\ (FallsOff(d) \/ TurnedIn(d.body, env))
            ELSE d.kind \in {"decl", "array"} /\ TurnedDeclaration(d)

-----------------------------------------------------------------------------
(* What is lowered to something else than it means.                        *)

\* Evaluating e may change something, print, or go wrong.
Matters(e) ==
    \/ e.kind \in {"call", "post", "index"}
    \/ e.kind = "un" /\ e.v = "*"
    \/ e.kind = "bin" /\ e.v \in {"/", "%", "<<", ">>"}
\* Both sides of "and" and "or" are evaluated, whatever the left one is.
BothSides(e) == e.kind = "bin" /\ e.v \in LogicOps /\ Has(e.args[2], Matters)

\* A variable's name is bound before the value it is given is lowered, and
\* stands for that variable in it, not for an outer one.
GivenItself(d) ==
    \E k \in DOMAIN Given(d) : Has(Given(d)[k], LAMBDA x : x.kind \in {"var", "index"} /\ x.v = d.name)

RECURSIVE WithParts(_)
\* A statement with every statement in it, heads of loops included.
WithParts(s) ==
    LET heads == IF s.kind = "for" THEN <<s.init \o s.inc>> ELSE <<>>
        parts == FlattenSeq(Bodies(s) \o heads)
    IN  <<s>> \o FlattenSeq([k \in DOMAIN parts |-> WithParts(parts[k])])

Odd(s) ==
    \/ \E k \in DOMAIN Expressions(s) : Has(Expressions(s)[k], BothSides)
    \/ s.kind \in {"decl", "array"} /\ GivenItself(s)
LosesMeaning(ds) ==
    \E n \in DOMAIN ds : ds[n].kind = "func" /\
      \E k \in DOMAIN ds[n].body :
        LET all == WithParts(ds[n].body[k]) IN \E j \in DOMAIN all : Odd(all[j])
=============================================================================

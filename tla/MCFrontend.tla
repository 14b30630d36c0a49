------------------------------ MODULE MCFrontend ------------------------------
(***************************************************************************)
(* Frontend on families of small programs.                                 *)
(***************************************************************************)
EXTENDS Frontend, SequencesExt, FiniteSetsExt

CONSTANTS MaxScopes, MaxSymbols,    \* limits of the analysis (64, 100)
          MaxLocals, MaxControl,    \* limits of the lowering (256, 64); its scopes nest as deep
          Fuel                      \* blocks and calls, or rounds and calls, of an execution
ASSUME LimitsAssumption ==
    /\ MaxScopes \in Nat \ {0} /\ MaxSymbols \in Nat \ {0}
    /\ MaxLocals \in Nat \ {0} /\ MaxControl \in Nat \ {0} /\ Fuel \in Nat

-----------------------------------------------------------------------------
(* The stages.                                                             *)

R == INSTANCE Parser
A == INSTANCE Analysis
L == INSTANCE LowerStmt
M == INSTANCE Meaning WITH Steps <- Fuel
AsIs == INSTANCE Writing WITH FoldLiterals <- FALSE
Folded == INSTANCE Writing WITH FoldLiterals <- TRUE
U == INSTANCE Unlowered

\* Of what each gives, what the next stage or a property looks at.
Parsed(t) == LET p == R!Parse(t) IN [node |-> p.node, err |-> p.err, broken |-> p.broken]
Analyzed(ds) == LET a == A!AnalyzeProgram(ds) IN [ds |-> a.ds, g |-> a.g]
Lowered(ds, cs) == LET l == L!LowerProgram(ds, cs) IN [mod |-> l.mod, err |-> l.err]
Verified(m) == L!VerifyModule(m)
Executed(m) == LET r == L!RunModule(m, "main", <<>>) IN [out |-> r.out, end |-> r.end]
Tokens(ds, fold) ==
    LET asIs == AsIs!Written(ds)
        folded == Folded!Written(ds)
    IN  IF fold THEN folded ELSE asIs
Meant(a) == LET r == M!Run(a.ds, a.g.defs, "main") IN [out |-> r.out, end |-> r.end, lost |-> r.lost]
TurnedDown(ds) == U!TurnedDown(ds)
LosesMeaning(ds) == U!LosesMeaning(ds)

-----------------------------------------------------------------------------
(* The programs.                                                           *)

N(n) == IF n < 0 THEN Un("-", Lit(-n)) ELSE Lit(n)
MainOf(ss) == <<FuncDef("main", <<>>, IntT, ss)>>
Range1(n) == [k \in 1 .. n |-> k]
\* Every program of a family with two parameters, in order.
Grid(P(_, _), xs, ys) == FlattenSeq([j \in DOMAIN xs |-> [k \in DOMAIN ys |-> P(xs[j], ys[k])]])

-----------------------------------------------------------------------------
(* Two variables of any two types and every operator on them.              *)

Given == <<<<IntT, Lit(1)>>, <<IntT, N(-20)>>, <<IntT, Lit(100)>>, <<I32T, Lit(3)>>, <<I32T, N(-16)>>,
           <<I8T, N(-1)>>, <<I8T, Lit(3)>>, <<U8T, Lit(7)>>, <<U32T, Lit(31)>>, <<U32T, Lit(0)>>, <<U64T, Lit(2)>>,
           <<U64T, N(-1)>>, <<BoolT, Flag(TRUE)>>, <<CharT, Chr(5)>>, <<CharT, Chr(15)>>, <<U8T, N(-1)>>>>

Given2(p, q, ss) ==
    MainOf(<<Decl("a", p[1], <<p[2]>>), Decl("b", q[1], <<q[2]>>)>> \o ss \o <<Return(<<Var("a")>>)>>)
Numbers(p, q) ==
    LET a == Var("a")
        b == Var("b")
    IN  Given2(p, q, [k \in 1 .. 9 |-> Show(Bin(<<"+", "-", "*", "&", "|", "^", "<", "==", ">=">>[k], a, b))]
                     \o <<Show(SizeOfE(a))>>)
Uses(p, q) ==
    LET a == Var("a")
        b == Var("b")
    IN  Given2(p, q, [k \in 1 .. 3 |-> Show(Un(<<"-", "~", "not">>[k], a))]
                     \o <<Show(Cast(q[1], a)), Decl("c", q[1], <<Bin("+", a, b)>>), Show(Var("c")),
                          Assign("a", b), Show(a), Do(Call("take", <<b>>)),
                          Show(Bin("/", Var("c"), b)), Show(Bin("%", Cast(IntT, Var("c")), b))>>)
        \o <<FuncDef("take", <<Param("x", p[1])>>, VoidT, <<Show(Var("x"))>>)>>
Shifted(p, q) == Given2(p, q, [k \in 1 .. 2 |-> Show(Bin(<<"<<", ">>">>[k], Var("a"), Lit(k)))])

-----------------------------------------------------------------------------
(* A loop or switch whose body leaves it or goes on in every way.          *)

i == Var("i")
Inc(n) == Assign(n, Bin("+", Var(n), Lit(1)))
Leave == <<Break, Continue, Return(<<Lit(9)>>), Show(Lit(7)), Block(<<>>),
           If(Bin("==", i, Lit(2)), Block(<<Break>>), <<Block(<<Continue>>)>>)>>
Around == <<1, 2, 3, 4, 5>>
Looping(n, s) ==
    LET guarded == If(Bin(">", i, Lit(1)), Block(<<s>>), <<>>)
        body == Block(<<Inc("i"), Show(i), guarded, Show(Lit(5))>>)
        step == Do(Post("++", i))
    IN  MainOf(<<Decl("i", IntT, <<Lit(0)>>),
                 CASE n = 1 -> While(Bin("<", i, Lit(4)), body)
                   [] n = 2 -> For(<<>>, <<Bin("<", i, Lit(4))>>, <<step>>, body)
                   [] n = 3 -> For(<<Decl("j", IntT, <<Lit(0)>>)>>, <<Bin("<", Var("j"), Lit(3))>>, <<Inc("j")>>, body)
                   [] n = 4 -> While(Bin("<", i, Lit(4)),
                                 Block(<<Inc("i"),
                                         Switch(i, <<Case(<<Lit(1)>>, <<Show(Lit(1))>>), Case(<<>>, <<Show(Lit(8)), guarded>>),
                                                     Case(<<Lit(3)>>, <<Show(Lit(3)), Break>>)>>), Show(i)>>))
                   [] n = 5 -> For(<<>>, <<>>, <<step>>,
                                 Block(<<If(Bin(">", i, Lit(3)), Block(<<Break>>), <<>>),
                                         While(Bin("<", i, Lit(6)), Block(<<Inc("i"), Show(i), guarded, Break>>))>>)),
                 Show(i), Return(<<i>>)>>)

-----------------------------------------------------------------------------
(* Blocks, branches and loops nested up to the limit of scopes.            *)

RECURSIVE Nest(_, _)
Nest(n, how) ==
    IF n = 0 THEN Block(<<Decl("x", IntT, <<Lit(1)>>), Show(Var("x"))>>)
    ELSE LET b == Block(<<Nest(n - 1, how), Show(i)>>)
         IN  CASE how = "block" -> b
               [] how = "if" -> If(Flag(TRUE), b, <<Block(<<>>)>>)
               [] how = "while" -> While(Bin("<", i, Lit(1)), Block(<<b, Inc("i")>>))
               [] how = "for" -> For(<<Decl("j", IntT, <<Lit(0)>>)>>, <<Bin("<", Var("j"), Lit(1))>>, <<Inc("j")>>, b)
               [] how = "switch" -> Switch(Lit(1), <<Case(<<Lit(1)>>, <<b>>), Case(<<Lit(2)>>, <<>>)>>)
Nesting(how, n) == MainOf(<<Decl("i", IntT, <<Lit(0)>>), Nest(n, how), Return(<<i>>)>>)
Kinds == <<"block", "if", "while", "for", "switch">>

\* n locals and a call deep in them.
Crowd(n, f) ==
    <<FuncDef("f", <<Param("p", IntT)>>, IntT, <<Return(<<Bin("+", Var("p"), Lit(1))>>)>>),
      FuncDef("main", <<>>, IntT, [k \in 1 .. n |-> Decl("v" \o ToString(k), IntT, <<Lit(k)>>)]
                                  \o <<Return(<<Call(f, <<Var("v" \o ToString(n))>>)>>)>>)>>

-----------------------------------------------------------------------------
(* Objects: arrays, structures, unions, enumerations, pointers, statics.   *)

Shape == StructDef("P", <<FieldDef("x", IntT), FieldDef("b", BoolT), FieldDef("e", EnumT("E")), FieldDef("q", PtrT(IntT))>>)
Outer == StructDef("O", <<FieldDef("b", BoolT), FieldDef("p", StructT("P")), FieldDef("n", IntT)>>)
Both == UnionDef("U", <<FieldDef("x", IntT), FieldDef("y", IntT)>>)
Colours == EnumDef("E", <<"red", "green", "blue">>)
s == Var("s")
F(b, f) == Member(b, f)

Shapes == <<Colours, Shape, Outer, Both, Static(ArrDecl("g", StructT("P"), <<2>>, <<>>))>>
Small == StructDef("Q", <<FieldDef("b", BoolT), FieldDef("e", EnumT("E"))>>)
o(f) == F(Var("o"), f)
g(k) == F(Index("g", <<Lit(k)>>), "x")
Structures ==
    Shapes \o
    MainOf(<<Decl("o", StructT("O"), <<>>), Decl("u", UnionT("U"), <<>>),
             AssignTo(F(o("p"), "x"), Lit(11)), AssignTo(o("b"), Flag(FALSE)), AssignTo(o("n"), Lit(12)),
             AssignTo(F(o("p"), "e"), F(Var("E"), "blue")), AssignTo(F(Var("u"), "x"), Lit(3)), Show(F(Var("u"), "y")),
             Show(F(o("p"), "x")), Show(o("n")), Show(o("b")),
             Return(<<Bin("==", F(o("p"), "e"), F(Var("E"), "green"))>>)>>)
StructureInit ==
    <<Colours, Small>> \o
    MainOf(<<StructDecl("s", "Q", <<Field("e", F(Var("E"), "green"))>>), Show(F(s, "b")), AssignTo(F(s, "b"), Flag(TRUE)),
             Show(F(s, "b")), Switch(Cast(IntT, F(s, "e")), <<Case(<<Lit(1)>>, <<Show(SizeOf(StructT("Q")))>>)>>),
             Return(<<Bin("==", F(s, "e"), F(Var("E"), "green"))>>)>>)
StructureArray ==
    Shapes \o
    MainOf(<<Decl("s", StructT("P"), <<>>), AssignTo(F(s, "x"), Lit(4)), AssignTo(g(1), F(s, "x")), AssignTo(g(0), Lit(2)),
             AssignTo(F(s, "q"), Un("&", g(0))), Show(F(s, "x")), Show(g(1)), Show(Un("*", F(s, "q"))), Return(<<g(0)>>)>>)

a(ix) == Index("a", ix)
p == Var("p")
Arrays(m, n) ==
    <<ArrDecl("t", U8T, <<2, 2>>, <<Lit(1), Lit(2), Lit(9)>>)>> \o
    MainOf(<<ArrDecl("a", IntT, <<2, 3>>, <<Lit(4), Lit(5)>>), Decl("m", IntT, <<N(m)>>), Decl("n", IntT, <<N(n)>>),
             AssignTo(a(<<Lit(1), Lit(2)>>), Lit(8)), Show(a(<<Lit(0), Lit(1)>>)), Show(Index("t", <<Lit(1), Lit(0)>>)),
             AssignTo(Index("t", <<Lit(1), Lit(1)>>), Lit(3)), Show(Index("t", <<Lit(1), Lit(1)>>)),
             AssignTo(a(<<Var("m"), Var("n")>>), Lit(6)), Show(a(<<Var("m"), Var("n")>>)),
             Show(Post("++", a(<<Lit(1), Lit(2)>>))), Return(<<a(<<Lit(1), Lit(2)>>)>>)>>)
Pointers(t, n) ==
    LET at(k) == Un("&", Index("a", <<Lit(k)>>))
    IN  <<FuncDef("swap", <<Param("l", PtrT(t)), Param("r", PtrT(t))>>, VoidT,
            <<Decl("h", t, <<Un("*", Var("l"))>>), AssignTo(Un("*", Var("l")), Un("*", Var("r"))),
              AssignTo(Un("*", Var("r")), Var("h"))>>)>>
        \o MainOf(<<ArrDecl("a", t, <<3>>, <<Cast(t, Lit(1)), Cast(t, Lit(2)), Cast(t, Lit(3))>>), Decl("p", PtrT(t), <<at(1)>>),
                    Decl("n", IntT, <<N(n)>>), Decl("pp", PtrT(PtrT(t)), <<Un("&", p)>>), Decl("z", PtrT(t), <<Null>>),
                    Do(Call("swap", <<at(0), Bin("+", p, Lit(1))>>)), Show(Index("a", <<Lit(0)>>)),
                    Assign("p", Bin("+", p, Var("n"))), Show(Bin("-", p, at(0))), Show(Bin("==", p, at(1))), Show(Bin("!=", Var("z"), Null)),
                    Show(Un("*", Un("*", Var("pp")))), Show(Index("p", <<Lit(0)>>)), Show(Index("pp", <<Lit(0), Lit(0)>>)),
                    If(Bin("==", Var("n"), Lit(0)), Block(<<Assign("p", Var("z"))>>), <<>>),
                    AssignTo(Un("*", p), Index("a", <<Lit(1)>>)), Show(Un("*", p)), Return(<<Lit(0)>>)>>)

Stored(t, n) ==
    <<Decl("g", t, <<N(n)>>), Proto("next", <<>>, t)>>
    \o <<FuncDef("next", <<>>, t, <<Static(Decl("c", t, <<Bin("+", Lit(1), Lit(1))>>)), Assign("c", Bin("+", Var("c"), Lit(1))),
                                    Assign("g", Var("c")), Return(<<Var("c")>>)>>)>>
    \o MainOf(<<Show(Var("g")), Show(Call("next", <<>>)), Show(Call("next", <<>>)),
                Block(<<Decl("g", IntT, <<Lit(4)>>), Assign("g", Bin("+", Var("g"), Lit(1))), Show(Var("g"))>>),
                Return(<<Cast(IntT, Var("g"))>>)>>)

\* A value read, and one that calls itself to be computed.
Factorial(t, n) ==
    <<FuncDef("fact", <<Param("n", t)>>, t,
        <<If(Bin("<=", Var("n"), Lit(1)), Block(<<Return(<<Lit(1)>>)>>), <<>>),
          Return(<<Bin("*", Var("n"), Call("fact", <<Bin("-", Var("n"), Lit(1))>>))>>)>>)>>
    \o MainOf(<<Decl("r", t, <<Lit(1)>>), Read("r"), Show(Var("r")), Show(Call("fact", <<Lit(n)>>)), Return(<<Cast(IntT, Var("r"))>>)>>)

\* Counts and divisors only known when the program runs.
Dynamic(op, n) ==
    MainOf(<<Decl("n", IntT, <<N(n)>>), Decl("v", IntT, <<Lit(20)>>), Show(Lit(1)), Show(Bin(op, Var("v"), Var("n"))), Return(<<Var("n")>>)>>)

-----------------------------------------------------------------------------
(* Programs with one mistake each.                                         *)

x == Var("x")
Dx == Decl("x", IntT, <<Lit(1)>>)
Mistakes ==
    <<<<Break>>, <<Switch(Lit(1), <<Case(<<Lit(1)>>, <<Continue>>)>>)>>, <<Dx, Dx>>, <<Show(x)>>, <<Assign("x", Lit(1))>>,
      <<Return(<<>>)>>, <<ConstD(Dx), Assign("x", Lit(2))>>, <<ArrDecl("x", IntT, <<2>>, <<>>), Assign("x", Lit(1))>>,
      <<ArrDecl("x", IntT, <<2>>, <<>>), Show(Index("x", <<Lit(2)>>))>>,
      <<ArrDecl("x", IntT, <<2, 2>>, <<>>), Show(Index("x", <<Lit(1)>>))>>,
      <<Dx, Show(Un("*", x))>>, <<Dx, Show(Index("x", <<Lit(0)>>))>>, <<Do(Call("nothing", <<>>))>>,
      <<Dx, Decl("q", PtrT(IntT), <<Un("&", x)>>), Show(Bin("*", Var("q"), Lit(2)))>>,
      <<Dx, Decl("q", PtrT(U8T), <<Un("&", x)>>), Show(x)>>, <<Static(Decl("x", IntT, <<Call("main", <<>>)>>)), Show(x)>>,
      <<Block(<<Dx>>), Show(x)>>, <<Decl("w", StructT("P"), <<>>)>>>>
Mistaken(k) == MainOf(Mistakes[k] \o <<Return(<<Lit(0)>>)>>)

-----------------------------------------------------------------------------
(* How tokens group: every two operators, signs and stars, aliases, and    *)
(* arithmetic between literals.                                            *)

Ops == <<"+", "-", "*", "/", "%", "&", "|", "^", "<<", ">>", "==", "<", ">=", "and", "or">>
Grouping(op, part) ==
    LET b == Var("b")
        c == Var("c")
        two(k) == <<Show(Bin(op, Bin(Ops[k], Var("a"), b), c)), Show(Bin(op, Var("a"), Bin(Ops[k], b, c)))>>
    IN  MainOf(<<Decl("a", IntT, <<Lit(6)>>), Decl("b", IntT, <<Lit(3)>>), Decl("c", IntT, <<Lit(2)>>)>>
               \o FlattenSeq([k \in 1 .. 5 |-> two(5 * part + k)])
               \o <<Show(Bin(op, Un("-", Var("a")), Un("~", Un("-", b)))), Show(Un("-", Bin(op, b, Lit(1)))),
                    Show(Cast(U8T, Bin(op, b, c))), Return(<<Lit(0)>>)>>)

Literals(op, n) ==
    LET both(l) == Bin(op, Lit(l), Lit(n))
    IN  MainOf(<<Decl("v", IntT, <<both(14)>>), Show(both(9)), Show(both(100)), Show(Bin(op, both(3), Lit(2))),
                 Show(Bin("*", Lit(2), both(3))), Show(Bin(op, Var("v"), both(5))), ArrDecl("t", I8T, <<2>>, <<both(1)>>),
                 Show(Index("t", <<Bin("-", Lit(3), Lit(3))>>)), Return(<<Var("v")>>)>>)

Aliases ==
    <<AliasDef("Age", U8T), AliasDef("Ref", PtrT(IntT)), Static(ConstD(Decl("top", U8T, <<Lit(5)>>))),
      FuncDef("older", <<Param("n", U8T), Param("r", PtrT(IntT))>>, U8T,
        <<AssignTo(Un("*", Var("r")), Bin("+", Un("*", Var("r")), Lit(1))), Return(<<Cast(U8T, Bin("+", Var("n"), Lit(1)))>>)>>),
      FuncDef("main", <<>>, IntT,
        <<ArrDecl("t", U8T, <<2, 1>>, <<Lit(2), Lit(3)>>), Decl("i", IntT, <<Lit(0)>>), Decl("p", PtrT(U8T), <<Null>>),
          For(<<Assign("i", Lit(1))>>, <<Bin("<", i, Lit(3))>>, <<Inc("i")>>, Show(Call("older", <<Var("top"), Un("&", i)>>))),
          Assign("p", Un("&", Index("t", <<Lit(1), Lit(0)>>))), Show(Un("*", Var("p"))), Return(<<i>>)>>)>>
Constants ==
    <<AliasDef("Age", U8T), Static(ConstD(Decl("top", U8T, <<Lit(5)>>)))>>
    \o MainOf(<<ArrDecl("t", U8T, <<2>>, <<Lit(2), Lit(3)>>), Decl("i", IntT, <<Lit(3)>>),
                Show(SizeOf(PtrT(U8T))), Show(Post("++", i)),
                If(Bin("==", Var("top"), Chr(5)), Show(i), <<Return(<<Lit(1)>>)>>), Show(Post("--", Index("t", <<Lit(0)>>))),
                Switch(Bin("+", i, Lit(0)), <<Case(<<Lit(4)>>, <<Show(Lit(4)), Break>>), Case(<<>>, <<Show(Un("not", Flag(FALSE)))>>)>>),
                Return(<<i>>)>>)

-----------------------------------------------------------------------------
(* What the analysis accepts and a later stage turns down, each once, next *)
(* to what is lowered.                                                     *)

Dc == Decl("c", CharT, <<Chr(2)>>)
Dp(t, e) == Decl("p", PtrT(t), <<e>>)
Over(e, label) == Switch(e, <<Case(<<label>>, <<Show(Lit(1)), Break>>), Case(<<>>, <<Show(Lit(2))>>)>>)
Rows == ArrDecl("r", PtrT(IntT), <<2>>, <<Un("&", x), Null>>)
Twice == If(Flag(TRUE), Block(<<Return(<<Lit(1)>>)>>), <<Block(<<Return(<<Lit(2)>>)>>)>>)
Bodies ==
    <<<<Dx, Do(Post("++", x))>>, <<Dx, For(<<>>, <<Bin("<", x, Lit(3))>>, <<Do(Post("++", x))>>, Show(x))>>,
      <<Dx, For(<<>>, <<Bin("<", x, Lit(3))>>, <<Do(Post("++", Var("y")))>>, Inc("x"))>>,
      <<Dx, Show(Post("++", x)), Show(Bin("==", Un("&", x), Null))>>, <<Show(Post("++", Lit(4)))>>, <<Dx, Dp(IntT, Un("&", Un("-", x))), Show(Un("*", p))>>,
      <<Dx, Dp(IntT, Un("&", Un("*", Un("&", x)))), Show(Un("*", p))>>, <<Show(Un("&", F(Var("E"), "red")))>>,
      <<Dx, Dp(IntT, Un("&", x)), Show(Bin("==", p, Null)), Show(Bin("<", p, Un("&", x)))>>,
      <<Dx, Dp(VoidT, Un("&", x)), Show(Un("*", p))>>, <<Show(Bin("==", Call("none", <<>>), Call("none", <<>>)))>>,
      <<Dx, Rows, Show(Un("*", Index("r", <<Lit(0)>>))), AssignTo(Index("r", <<Lit(1)>>), Index("r", <<Lit(0)>>)),
        AssignTo(Un("*", Index("r", <<Lit(1)>>)), Lit(6)), Show(x)>>,
      <<Dx, Dp(IntT, Un("&", x)), AssignTo(Index("p", <<Lit(0)>>), Lit(2))>>, <<Show(Index("k", <<Lit(0)>>))>>,
      <<Dc, Over(Var("c"), Chr(2)), Over(Cast(IntT, Var("c")), Lit(2))>>, <<Dc, Over(Var("c"), Lit(2))>>, <<Dx, Over(x, Chr(1))>>,
      <<Dx, Over(Cast(U8T, x), Lit(1))>>,
      <<Dx, Read("x"), Show(x)>>, <<Read("n"), Show(Var("n"))>>, <<Static(Dx), Read("x"), Show(x)>>, <<ArrDecl("x", IntT, <<2>>, <<>>), Read("x")>>,
      <<Dx, Block(<<Dp(IntT, Un("&", x)), Show(Un("*", p))>>)>>,
      <<ArrDecl("x", IntT, <<2>>, <<Lit(4)>>), Block(<<Decl("x", IntT, <<Index("x", <<Lit(0)>>)>>)>>)>>,
      <<Decl("t", StructT("T"), <<>>)>>, <<Twice, Show(Lit(0))>>, <<Block(<<Return(<<Lit(3)>>)>>), Show(Lit(0))>>,
      <<While(Flag(TRUE), Block(<<Break, Show(Lit(0))>>))>>, <<While(Flag(TRUE), Block(<<Break>>)), Show(Lit(1))>>>>
Around2 ==
    <<Colours, Small, StructDef("T", <<FieldDef("x", U8T)>>), Decl("n", IntT, <<Lit(3)>>), ArrDecl("k", StructT("Q"), <<2>>, <<>>),
      FuncDef("none", <<>>, VoidT, <<>>)>>
Accepted(k) == Around2 \o MainOf(Bodies[k] \o <<Return(<<Lit(0)>>)>>)
Ending(ss) == <<FuncDef("f", <<>>, IntT, ss)>> \o MainOf(<<Return(<<Call("f", <<>>)>>)>>)

\* A wide value given to something narrow.
Wide == <<Decl("v", IntT, <<Lit(100)>>), Decl("b", I8T, <<Lit(1)>>), Decl("p", PtrT(I8T), <<Un("&", Var("b"))>>)>>
Narrowed(how) == MainOf(Wide \o <<AssignTo(how, Var("v")), Show(Var("b")), Return(<<Lit(0)>>)>>)
ThroughPointer == Narrowed(Un("*", p))

\* A right side that need not be run.
Eager ==
    <<Static(Decl("n", IntT, <<Lit(0)>>)), FuncDef("f", <<>>, IntT, <<Inc("n"), Return(<<Var("n")>>)>>)>>
    \o MainOf(<<Show(Bin("and", Flag(FALSE), Call("f", <<>>))), Show(Var("n")), Return(<<Lit(0)>>)>>)
\* A value made from an outer variable of the same name.
Inner == MainOf(<<Decl("x", IntT, <<Lit(5)>>), Block(<<Decl("x", IntT, <<Bin("+", x, Lit(1))>>), Show(x)>>), Return(<<Lit(0)>>)>>)

-----------------------------------------------------------------------------
(* The families.                                                           *)

Checks == {{}, {"bounds", "null", "div", "shift"}}

Language ==
    <<Aliases, Looping(2, If(Bin("==", i, Lit(2)), Break, <<>>)), Structures>>
    \o <<Constants, StructureInit, StructureArray>>
    \o Grid(Numbers, Given, Given)
    \o Grid(Uses, Given, Given)
    \o Grid(Shifted, Given, <<Given[1]>>)
    \o Grid(Looping, Around, Leave)
    \o Grid(Nesting, Kinds, <<1, 2, 3, 4, 5, 6>>)
    \o Grid(Crowd, <<1, MaxSymbols, MaxSymbols + 1>>, <<"f", "g">>)
    \o Grid(Arrays, <<0, 1, -1, 2>>, <<0, 2, 3, -1>>)
    \o Grid(Pointers, <<IntT, U8T, I32T, CharT>>, <<0, 1, -1>>)
    \o Grid(Stored, <<IntT, I32T, U8T, I8T, U64T>>, <<3, -2>>)
    \o Grid(Factorial, <<IntT, I32T, U8T, I8T, U64T>>, <<1, 3>>)
    \o Grid(Dynamic, <<"/", "%", "<<", ">>">>, <<0, 3, 7, 8, -1>>)
    \o [k \in DOMAIN Mistakes |-> Mistaken(k)]
    \o Grid(Grouping, Ops, <<0, 1, 2>>)
    \o Grid(Literals, <<"+", "-", "*", "/", "%">>, <<1, 4, 6>>)
    \o [k \in DOMAIN Bodies |-> Accepted(k)]
    \o <<Ending(<<Twice>>), Ending(<<Twice, Return(<<Lit(3)>>)>>), Ending(<<Block(<<Return(<<Lit(3)>>)>>)>>), Ending(<<Dx>>), ThroughPointer,
         Eager, Inner>>

\* One program, for what a document says and the code does otherwise.
EagerLogic == <<Eager>>
NoSlips == <<>>

\* A token of the first programs left out, said twice, or another in its place;
\* not in the definitions of aliases, which change how all the rest is written.
SomeSlips ==
    LET others == {<<>>} \cup {<<token>> : token \in {<<"}">>, <<"static">>, U32T, R!AliasWord}}
    IN  [n \in 1 .. 3 |->
            LET places == (IF n = 1 THEN 12 ELSE 1) .. 400
            IN  {<<at, at, <<>>>> : at \in places} \cup {<<at - 1, at + 1, ts>> : at \in places, ts \in others}]
=============================================================================

---------------------------- MODULE MCPreprocessor ----------------------------
(***************************************************************************)
(* Every main text of up to four items, every one of up to three with a    *)
(* header, and longer ones: limits, cycles, where files are looked for.    *)
(***************************************************************************)
EXTENDS Preprocessor

Root == Cwd \o <<"main">>
W(n) == Cwd \o <<n>>
Unit(files) == [files |-> files, root |-> Root]
Pair(k, v) == [x \in {k} |-> v]
With(f, g) == [x \in DOMAIN f \cup DOMAIN g |-> IF x \in DOMAIN f THEN f[x] ELSE g[x]]

MainItems == {Tok("a"), Define("a", "1"), Undef("a"), IfDef("a"), Else, EndIf, Include(<<"h">>)}
Header == {Tok("a"), Define("a", "2"), IfDef("a"), Else, EndIf, Include(<<".", "h">>), Include(<<"main">>)}
UpTo(S, n) == UNION {[1 .. m -> S] : m \in 0 .. n}

Alone == {Unit(Pair(Root, m)) : m \in UpTo(MainItems \ {Include(<<"h">>)}, 4)}
Small == {Unit(With(Pair(Root, m), Pair(W("h"), h))) :
            m \in {t \in UpTo(MainItems, 3) : \E k \in DOMAIN t : t[k].kind = "include"},
            h \in UpTo(Header, 1) \cup {<<IfDef("a"), Else>>, <<Else, EndIf>>, <<EndIf, IfDef("a")>>, <<Undef("a"), Define("a", "2")>>}}
Long == {Unit(With(Pair(Root, m), Pair(W("h"), h))) :
           m \in {<<c, Include(<<"h">>), i, j, Tok("a"), k>> : c \in {IfDef("a"), Define("a", "1")},
                    i \in {IfDef("a"), Else, EndIf}, j \in MainItems, k \in {IfDef("a"), Else, EndIf}},
           h \in {<<>>, <<IfDef("b")>>, <<EndIf, IfDef("a")>>, <<Else>>, <<Undef("a"), Other>>, <<IfDef("a"), Other, EndIf>>}}

\* Deep in files, in conditions, and in macros.
Chain(n) == Unit([f \in {Root} \cup {W(k) : k \in {"1", "2", "3", "4"}} |->
                    IF f = Root THEN <<Tok("m"), Include(<<"1">>), Tok("m")>>
                    ELSE LET k == CHOOSE k \in 1 .. 4 : f = W(<<"1", "2", "3", "4">>[k])
                         IN  IF k < n THEN <<Tok("a"), Include(<<<<"2", "3", "4", "4">>[k]>>), Tok("b")>>
                             ELSE IF k = n THEN <<Tok("c"), Include(<<"2">>)>> ELSE <<Tok("d")>>])
Nested(n, c) == Unit(Pair(Root, <<Define("a", "1")>> \o [k \in 1 .. n |-> c] \o <<Tok("a")>> \o [k \in 1 .. n |-> EndIf]))
Many(n) == Unit(Pair(Root, [k \in 1 .. n |-> Define("a", <<"1", "2", "3", "4">>[k])] \o <<Tok("a"), Undef("a"), Tok("a")>>))
Limits == {Chain(n) : n \in 1 .. 4} \cup {Nested(n, c) : n \in 1 .. 4, c \in {IfDef("a"), IfDef("b")}} \cup {Many(n) : n \in 1 .. 4}

\* A header in one or two of the places where it is looked for.
Places == {W("lib"), <<"/", "home", "lib">>, <<"/", "i1", "lib">>, <<"/", "i2", "lib">>, Cwd \o <<"stdlib", "lib">>,
           <<"/", "std", "lib">>, <<"/", "home", "stdlib", "lib">>, Cwd \o <<"sub", "lib">>}
Search == {Unit(With(With(Pair(Root, <<Include(p), Include(<<"sub", "x">>)>>),
                          Pair(Cwd \o <<"sub", "x">>, <<Include(<<"lib">>)>>)),
                     [f \in fs |-> <<Tok(ToString(f))>>])) :
             p \in {<<"lib">>, <<"stdlib", "lib">>, <<"/", "i1", "lib">>, <<".", "lib">>},
             fs \in {{f, g} : f, g \in Places}}

\* What is read otherwise than the language says.
Inactive == {Unit(Pair(Root, <<IfDef("a"), Other, EndIf, Tok("a")>>))}
Repeated == {Unit(Pair(Root, <<Define("a", "1"), Define("a", "2"), Undef("a"), Tok("a")>>))}

MCUnits == Alone \cup Small \cup Long \cup Limits \cup Search \cup Inactive \cup Repeated
MCHome == <<"/", "home">>
MCStdlib == <<"/", "std">>
MCDirs == <<<<"/", "i1">>, <<"/", "i2">>>>
=============================================================================

----------------------------- MODULE Preprocessor -----------------------------
(***************************************************************************)
(* The lexer's directives (src/src/frontend/lexer.c, lexer_tokens.c):      *)
(* included files on a stack, a table of macros, a stack of conditions     *)
(* with the flag derived from it, and the list of files read.              *)
(*                                                                         *)
(* A text is a sequence of items: a name, or a directive.  One step is one *)
(* item: one turn of the loop in lexer_next_token.                         *)
(***************************************************************************)
EXTENDS Integers, Sequences, SequencesExt, FiniteSets

CONSTANTS
    Units,          \* [files: full path -> text, root: full path]: the units to read
    Home, Stdlib,   \* $BAA_HOME and $BAA_STDLIB, <<>> if not set
    IncludeDirs,    \* -I, in order
    MaxIncludes, MaxConditions, MaxMacros   \* limits (10, 32, 100)

\* An item of a text: a name, or a directive.  A path is a sequence of names, "/"
\* first in an absolute one.
Path == Seq(STRING)
TextItem == [kind : {"name", "define", "undef", "ifdef", "else", "endif", "include", "other"},
             x : STRING, value : STRING, path : Path]

ASSUME PreprocessorAssumption ==
    /\ MaxIncludes \in Nat /\ MaxConditions \in Nat /\ MaxMacros \in Nat
    /\ Home \in Path /\ Stdlib \in Path /\ IncludeDirs \in Seq(Path)
    /\ \A u \in Units : /\ u.root \in DOMAIN u.files
                       /\ \A f \in DOMAIN u.files : f \in Path /\ u.files[f] \in Seq(TextItem)

VARIABLES
    unit,       \* the unit being read
    state,      \* [file, at]: the file being read and the next item
    stack,      \* the states of the files that include it, outermost first
    macros,     \* sequence of [name, value]
    ifs,        \* if_stack: sequence of [parent, cond, els]
    skipping,
    deps,       \* files read, in the order of their first inclusion
    out,        \* names delivered to the parser
    status      \* "reading", "end", or the error that ended the compilation
vars == <<unit, state, stack, macros, ifs, skipping, deps, out, status>>

Item(kind, x) == [kind |-> kind, x |-> x, value |-> "", path |-> <<>>]
Tok(x) == Item("name", x)
Define(x, v) == [Item("define", x) EXCEPT !.value = v]
Undef(x) == Item("undef", x)
IfDef(x) == Item("ifdef", x)
Else == Item("else", "")
EndIf == Item("endif", "")
Include(p) == [Item("include", "") EXCEPT !.path = p]
Other == Item("other", "")      \* a directive the lexer does not know

-----------------------------------------------------------------------------
(* Where an included file is looked for.                                   *)

Cwd == <<"/", "w">>
IsAbsolute(p) == p # <<>> /\ Head(p) = "/"
FullPath(p) == SelectSeq(IF IsAbsolute(p) THEN p ELSE Cwd \o p, LAMBDA n : n # ".")
Dir(file) == Front(file)

\* Best first; <<>> where there is no candidate.
Candidates(from, p) ==
    LET in(d, q) == IF d = <<>> THEN <<>> ELSE d \o q
        under(d) == IF IsAbsolute(p) THEN <<>> ELSE in(d, p)
        bare == <<in(Dir(from), <<"stdlib">> \o p), <<"stdlib">> \o p, in(Stdlib, p), in(Home, <<"stdlib">> \o p)>>
    IN  <<under(Dir(from)), p, under(Home)>> \o [k \in DOMAIN IncludeDirs |-> under(IncludeDirs[k])]
        \o (IF Len(p) > 1 THEN <<>> ELSE bare)

First(ks) == CHOOSE k \in ks : \A j \in ks : k <= j

\* The full path of the first that exists, <<>> if none does.
Resolve(files, from, p) ==
    LET c == Candidates(from, p)
        found == {k \in DOMAIN c : c[k] # <<>> /\ FullPath(c[k]) \in DOMAIN files}
    IN  IF found = {} THEN <<>> ELSE FullPath(c[First(found)])

-----------------------------------------------------------------------------
(* The lexer.                                                              *)

\* A slip: a nested file is not recorded.
RecordTopLevel(ds, file) == IF stack # <<>> \/ file \in ToSet(ds) THEN ds ELSE Append(ds, file)
RecordDependency(ds, file) == IF file \in ToSet(ds) THEN ds ELSE Append(ds, file)

Items == unit.files[state.file]
AtEnd == state.at > Len(Items)
At(kind) == status = "reading" /\ ~AtEnd /\ Items[state.at].kind = kind
X == Items[state.at].x
Advance == state' = [state EXCEPT !.at = @ + 1]
Fatal(why) == status' = why /\ UNCHANGED <<unit, state, stack, macros, ifs, skipping, deps, out>>

Defined(ms, n) == {k \in DOMAIN ms : ms[k].name = n}
\* get_macro_value: the first entry of that name replaces it.
Value(n) == IF Defined(macros, n) = {} THEN n ELSE macros[First(Defined(macros, n))].value

\* A slip: only the top of the stack counts.
TopActive(c) == c = <<>> \/ Last(c).cond # Last(c).els
Active(c) == c = <<>> \/ (Last(c).parent /\ Last(c).cond # Last(c).els)

Skip ==
    /\ skipping /\ \E kind \in {"name", "define", "undef", "include"} : At(kind)
    /\ Advance
    /\ UNCHANGED <<unit, stack, macros, ifs, skipping, deps, out, status>>

TakeName ==
    /\ ~skipping /\ At("name")
    /\ out' = Append(out, Value(X))
    /\ Advance
    /\ UNCHANGED <<unit, stack, macros, ifs, skipping, deps, status>>

AddMacro ==
    /\ ~skipping /\ At("define")
    /\ IF Len(macros) >= MaxMacros THEN Fatal("too many macros")
       ELSE /\ macros' = Append(macros, [name |-> X, value |-> Items[state.at].value])
            /\ Advance
            /\ UNCHANGED <<unit, stack, ifs, skipping, deps, out, status>>

RemoveMacro ==
    /\ ~skipping /\ At("undef")
    /\ macros' = IF Defined(macros, X) = {} THEN macros ELSE RemoveAt(macros, First(Defined(macros, X)))
    /\ Advance
    /\ UNCHANGED <<unit, stack, ifs, skipping, deps, out, status>>

SetConditions(c) ==
    /\ ifs' = c
    /\ skipping' = ~Active(c)
    /\ Advance
    /\ UNCHANGED <<unit, stack, macros, deps, out, status>>

\* if_stack grows in skipped text too.
OpenCondition ==
    /\ At("ifdef")
    /\ IF Len(ifs) >= MaxConditions THEN Fatal("too many conditions")
       ELSE SetConditions(Append(ifs, [parent |-> Active(ifs), els |-> FALSE,
                                       cond |-> Active(ifs) /\ Defined(macros, X) # {}]))

TurnCondition ==
    /\ At("else")
    /\ CASE ifs = <<>> -> Fatal("else without condition")
         [] ifs # <<>> /\ Last(ifs).els -> Fatal("second else")
         [] OTHER -> SetConditions([ifs EXCEPT ![Len(ifs)].els = TRUE])

CloseCondition ==
    /\ At("endif")
    /\ IF ifs = <<>> THEN Fatal("end without condition") ELSE SetConditions(Front(ifs))

WouldCycle(file) == file = state.file \/ \E k \in DOMAIN stack : stack[k].file = file

PushFile ==
    /\ ~skipping /\ At("include")
    /\ \E file \in {Resolve(unit.files, state.file, Items[state.at].path)} :
          CASE file = <<>> -> Fatal("no such file")
            [] file # <<>> /\ WouldCycle(file) -> Fatal("cycle")
            [] file # <<>> /\ ~WouldCycle(file) /\ Len(stack) >= MaxIncludes -> Fatal("too deep")
            [] OTHER ->
                 /\ stack' = Append(stack, [state EXCEPT !.at = @ + 1])
                 /\ state' = [file |-> file, at |-> 1]
                 /\ deps' = RecordDependency(deps, file)
                 /\ UNCHANGED <<unit, macros, ifs, skipping, out, status>>

\* Also in text that is skipped.
UnknownDirective == At("other") /\ Fatal("unknown directive")

PopFile ==
    /\ status = "reading" /\ AtEnd /\ stack # <<>>
    /\ state' = Last(stack) /\ stack' = Front(stack)
    /\ UNCHANGED <<unit, macros, ifs, skipping, deps, out, status>>

\* A slip: skipped text has no end.
EndWhenRead ==
    /\ status = "reading" /\ AtEnd /\ stack = <<>> /\ ~skipping
    /\ Fatal(IF ifs # <<>> THEN "open condition" ELSE "end")
EndOfText ==
    /\ status = "reading" /\ AtEnd /\ stack = <<>>
    /\ Fatal(IF ifs # <<>> THEN "open condition" ELSE "end")

-----------------------------------------------------------------------------
Init ==
    /\ unit \in Units
    /\ state = [file |-> unit.root, at |-> 1]
    /\ stack = <<>> /\ macros = <<>> /\ ifs = <<>> /\ skipping = FALSE
    /\ deps = <<unit.root>> /\ out = <<>> /\ status = "reading"

Next ==
    \/ Skip \/ TakeName
    \/ AddMacro \/ RemoveMacro
    \/ OpenCondition \/ TurnCondition \/ CloseCondition
    \/ PushFile \/ UnknownDirective \/ PopFile \/ EndOfText
Spec == Init /\ [][Next]_vars /\ WF_vars(Next)

-----------------------------------------------------------------------------
(* Properties.                                                             *)

\* What is left: of the file being read, and then of those that include it.
Eof == Item("end of file", "")
From(u, s) == SubSeq(u.files[s.file], s.at, Len(u.files[s.file]))
Beyond(u, below) ==
    LET upTo[k \in 0 .. Len(below)] == IF k = 0 THEN <<>> ELSE <<Eof>> \o From(u, below[k]) \o upTo[k - 1]
    IN  upTo[Len(below)]

\* How many conditions are read: those before the first that does not hold.
Holds(c) == c.parent /\ c.cond # c.els
Read(c) == LET failing == {k \in DOMAIN c : ~Holds(c[k])} IN IF failing = {} THEN Len(c) ELSE First(failing) - 1
Part(c) == IF c.els THEN "else" ELSE "then"
Open(c) == [k \in 1 .. Read(c) |-> Part(c[k])]
Over(c) == [k \in 1 .. Len(c) - Read(c) |-> Part(c[Read(c) + k])]

Promise == INSTANCE Expansion WITH
    rest <- From(unit, state) \o Beyond(unit, stack),
    chain <- Append([k \in DOMAIN stack |-> stack[k].file], state.file),
    deps <- ToSet(deps),
    defs <- macros,
    open <- Open(ifs),
    over <- Over(ifs),
    tokens <- out,
    end <- status

\* Two steps the lexer takes that the language does not have: a directive it does
\* not know ends the compilation in text that is passed over (docs/LANGUAGE.md
\* 139-151), and a name that was defined twice is defined still when its definition
\* is withdrawn (124-137).
Departs ==
    \/ skipping /\ UnknownDirective
    \/ RemoveMacro /\ \E j, k \in Defined(macros, X) : j # k

\* Otherwise the lexer delivers the tokens the unit stands for, in order, whatever
\* files conditions are opened and closed in, ends where the text ends or with the
\* same error, and its list of files is that of the files met: every step but these
\* two is one of the language's, also after one of them.
DeliversTheText == Promise!Init /\ [][Promise!Next \/ Departs]_(Promise!vars)

\* No unit makes the lexer read for ever.
ReadingEnds == <>(status # "reading")

\* The build cache is told of every file once, before anything of it is read.
DependenciesAreFilesRead ==
    IsInjective(deps) /\ {state.file} \cup {stack[k].file : k \in DOMAIN stack} \subseteq ToSet(deps)
=============================================================================

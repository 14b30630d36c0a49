------------------------------- MODULE Frontend -------------------------------
(***************************************************************************)
(* One translation unit from its tokens to verified IR                     *)
(* (src/src/driver/driver_pipeline.c): the parser reads it, the analysis   *)
(* accepts or rejects it, the lowering builds the module, the verifier     *)
(* judges the module.                                                      *)
(*                                                                         *)
(* The stages are parameters, with the definitions they are judged by:     *)
(* MCFrontend composes the modules Parser, Analysis, LowerStmt, Writing,   *)
(* Meaning and Unlowered by giving each its operator.                      *)
(***************************************************************************)
EXTENDS AST, FiniteSets

CONSTANTS Programs,                 \* the translation units: a sequence of sequences of declarations
          Slips,                    \* of the first units: the <<j, k, ts>> where ts stands between the j-th token and the k-th
          CheckSets,                \* sets of runtime checks asked for
          ParseText(_),             \* Parser: the parser's state at the end of a text
          AnalyzeTree(_),           \* Analysis: the annotated declarations ds, the state g of the analysis
          LowerTree(_, _),          \* LowerStmt: the module mod of annotated declarations under checks
          VerifyIR(_),              \* LowerStmt: the verifier's verdict on a module
          RunIR(_),                 \* LowerStmt: what the world sees of the main function of a module
          WrittenAs(_, _),          \* Writing: the tokens of declarations, arithmetic on literals folded or not
          MeaningOf(_),             \* Meaning: what the world should see of annotated declarations and their types
          IsTurnedDown(_),          \* Unlowered: the constructs that are accepted and not lowered
          IsMeantOtherwise(_)       \* Unlowered: those that are lowered to something else
ASSUME FrontendAssumption == CheckSets \subseteq SUBSET {"bounds", "null", "div", "shift"}

VARIABLES prog,     \* the number of the unit
          slip,     \* what its text got wrong, if anything
          text,     \* its tokens
          checks,   \* the runtime checks asked for
          stage,    \* how far it is
          tree,     \* the declarations; after the analysis ds the annotated ones, g the analysis' state
          ir        \* the module
vars == <<prog, slip, text, checks, stage, tree, ir>>

None == [none |-> TRUE]
Correct == <<>>
Slipped(t, j, k, ts) == SubSeq(t, 1, j) \o ts \o SubSeq(t, k, Len(t))

Init ==
    /\ prog \in DOMAIN Programs
    /\ checks \in CheckSets
    /\ stage = "program" /\ slip = Correct /\ text = <<>> /\ tree = None /\ ir = None

\* The surroundings: the program is written, some of the units with a slip.
Write ==
    /\ stage = "program" /\ stage' = "text"
    /\ \E ds \in {Programs[prog]} : \E t \in {WrittenAs(ds, FALSE)} :
          \/ slip' = Correct /\ text' = t
          \/ /\ prog \in DOMAIN Slips /\ checks = {}
             /\ slip' \in {s \in Slips[prog] : s[1] < Len(t)}
             /\ text' = Slipped(t, slip'[1], slip'[2], slip'[3])
    /\ UNCHANGED <<prog, checks, tree, ir>>

\* A unit with an error in its text is not analysed.
Parse ==
    /\ stage = "text"
    /\ \E p \in {ParseText(text)} :
          /\ tree' = IF p.broken THEN None ELSE p.node
          /\ stage' = IF p.broken THEN "broken" ELSE IF p.err THEN "misread" ELSE "parsed"
    /\ UNCHANGED <<prog, slip, text, checks, ir>>

\* A unit with an error is not lowered.  (Bound: a text with a slip is followed
\* through the parser only.)
Analyze ==
    /\ stage = "parsed" /\ slip = Correct
    /\ tree' = AnalyzeTree(tree)
    /\ stage' = IF tree'.g.err THEN "rejected" ELSE "analysed"
    /\ UNCHANGED <<prog, slip, text, checks, ir>>

Lower ==
    /\ stage = "analysed"
    /\ \E r \in {LowerTree(tree.ds, checks)} :
          /\ ir' = r.mod
          /\ stage' = IF r.err THEN "not lowered" ELSE "lowered"
    /\ UNCHANGED <<prog, slip, text, checks, tree>>

Verify ==
    /\ stage = "lowered"
    /\ stage' = IF VerifyIR(ir) THEN "verified" ELSE "refused"
    /\ UNCHANGED <<prog, slip, text, checks, tree, ir>>

Next == Write \/ Parse \/ Analyze \/ Lower \/ Verify
Spec == Init /\ [][Next]_vars

-----------------------------------------------------------------------------
Words(t) == SelectSeq(t, LAMBDA token : token[1] \notin {"(", ")", ","})

\* A program reads as it is written: with the precedence the language's table
\* states, its tokens give back its declarations, but for arithmetic between
\* literals; and whatever text is accepted, nothing of it was passed over.
ReadsAsWritten ==
    /\ stage = "parsed" =>
          IF slip = Correct THEN WrittenAs(tree, FALSE) = WrittenAs(Programs[prog], TRUE)
          ELSE Words(WrittenAs(tree, FALSE)) = Words(text)
    /\ stage = "misread" => slip # Correct

\* A token too few, too many or of the wrong kind: the parser recovers and comes
\* to the end of the text, whatever mode it recovers in.
RecoveryEnds == stage # "broken"

Stopped == stage \in {"not lowered", "refused"}

\* What the analysis accepts, the lowering lowers and the verifier passes, but
\* for the constructs Unlowered names, and those it never passes: everywhere else
\* the limits and type rules written twice agree, and a user does not meet an
\* internal error.
AcceptedLowers == Stopped \/ stage = "verified" => (Stopped <=> IsTurnedDown(tree.ds))

\* What the written program means, its literals not folded.
Reference == MeaningOf(AnalyzeTree(Programs[prog]))
Observed == RunIR(ir)
IsUndefined(r) == r.end[1] = "undefined"

AsMeant == LET r == Reference IN ~IsUndefined(r) => Observed.out = r.out /\ Observed.end = r.end

\* The lowered program does what the source means: it prints the same values
\* and returns the same one; unless it has an "and" or "or" with a right side
\* that matters, or a variable whose value names the variable itself.
SameMeaning == stage = "verified" /\ checks = {} /\ ~IsMeantOtherwise(tree.ds) => AsMeant

\* The same of every program.  The right side of "and" is not to be evaluated
\* when the left one is false (docs/LANGUAGE.md:1272).
AlwaysSameMeaning == stage = "verified" /\ checks = {} => AsMeant

Guarded(why) ==
    \/ why = "bounds" /\ "bounds" \in checks
    \/ why = "null" /\ "null" \in checks
    \/ why = "division" /\ "div" \in checks
    \/ why = "shift" /\ "shift" \in checks

\* A runtime check that was asked for ends the program with status 1 where it
\* would go wrong, after everything printed before; and changes nothing where
\* it does not; with the condition of SameMeaning.
ChecksStop ==
    stage = "verified" /\ checks # {} /\ ~IsMeantOtherwise(tree.ds) =>
        LET r == Reference
        IN  /\ AsMeant
            /\ IsUndefined(r) /\ Guarded(r.end[2]) => Observed.out = r.out /\ Observed.end = <<"exit", 1>>

Unwarned == stage = "verified" /\ \A w \in tree.g.warns : w[1] # "narrowing"

\* Without a narrowing warning no value is changed by being given to a variable,
\* an element, a field, a parameter or as a result; assignments through a pointer
\* (*p = v), of which the analysis never warns, are the exception.
NoSilentLoss == Unwarned => "name" \notin Reference.lost
=============================================================================

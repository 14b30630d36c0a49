------------------------------ MODULE Expansion -------------------------------
(***************************************************************************)
(* What a compilation unit stands for: one text, in which every file is in *)
(* the place of the directive that includes it, with a mark at its end.    *)
(* The tokens are its names, those defined replaced by their values; a     *)
(* condition that does not hold passes over the items up to its else or    *)
(* its end, whatever they are.                                             *)
(*                                                                         *)
(* From docs/LANGUAGE.md:46-151.  It does not say which of several         *)
(* definitions of a name counts, nor what the limits are: the oldest, and  *)
(* those of the lexer.                                                     *)
(***************************************************************************)
EXTENDS Integers, Sequences, SequencesExt

CONSTANTS
    Resolve(_, _, _),   \* the file that an include names, <<>> if there is none
    Eof,                \* the mark at the end of an included file
    MaxIncludes, MaxConditions, MaxMacros

VARIABLES
    unit,           \* [files: full path -> text, root: full path]: any unit
    rest,           \* what is left of the text
    chain,          \* the files that the rest begins in, the root first
    deps,           \* the files met
    defs,           \* the definitions in force, oldest first
    open,           \* the conditions that are read: in which part, "then" or "else"?
    over,           \* those passed over, the one that fails first: in which part?
    tokens,
    end             \* "reading", or how the text ended
vars == <<unit, rest, chain, deps, defs, open, over, tokens, end>>

Meets(kinds) == end = "reading" /\ rest # <<>> /\ Head(rest).kind \in kinds
Goes == rest' = Tail(rest) /\ UNCHANGED <<unit, end>>
Ends(why) == end' = why /\ UNCHANGED <<unit, rest, chain, deps, defs, open, over, tokens>>

Named == {k \in DOMAIN defs : defs[k].name = Head(rest).x}
Oldest == CHOOSE k \in Named : \A j \in Named : k <= j

\* The definitions of the other names.
Others ==
    LET kept[k \in 0 .. Len(defs)] ==
          IF k = 0 THEN <<>> ELSE IF k \in Named THEN kept[k - 1] ELSE Append(kept[k - 1], defs[k])
    IN  kept[Len(defs)]

PassOver ==
    /\ over # <<>> /\ Meets({"name", "define", "undef", "include", "other"}) /\ Goes
    /\ UNCHANGED <<chain, deps, defs, open, over, tokens>>

Token ==
    /\ over = <<>> /\ Meets({"name"}) /\ Goes
    /\ tokens' = Append(tokens, IF Named = {} THEN Head(rest).x ELSE defs[Oldest].value)
    /\ UNCHANGED <<chain, deps, defs, open, over>>

Definition ==
    /\ over = <<>> /\ Meets({"define"})
    /\ IF Len(defs) >= MaxMacros THEN Ends("too many macros")
       ELSE /\ Goes /\ defs' = Append(defs, [name |-> Head(rest).x, value |-> Head(rest).value])
            /\ UNCHANGED <<chain, deps, open, over, tokens>>

Withdrawal ==
    /\ over = <<>> /\ Meets({"undef"}) /\ Goes
    /\ defs' = Others
    /\ UNCHANGED <<chain, deps, open, over, tokens>>

Conditions(o, p) == Goes /\ open' = o /\ over' = p /\ UNCHANGED <<chain, deps, defs, tokens>>

Condition ==
    /\ Meets({"ifdef"})
    /\ IF Len(open) + Len(over) >= MaxConditions THEN Ends("too many conditions")
       ELSE \/ over = <<>> /\ Named # {} /\ Conditions(Append(open, "then"), over)
            \/ (over # <<>> \/ Named = {}) /\ Conditions(open, Append(over, "then"))

Alternative ==
    /\ Meets({"else"})
    /\ \/ open = <<>> /\ over = <<>> /\ Ends("else without condition")
       \/ open # <<>> /\ over = <<>> /\ Last(open) = "then" /\ Conditions(Front(open), <<"else">>)
       \/ over = <<"then">> /\ Conditions(Append(open, "else"), <<>>)
       \/ Len(over) > 1 /\ Last(over) = "then" /\ Conditions(open, Append(Front(over), "else"))
       \/ (IF over # <<>> THEN Last(over) = "else" ELSE open # <<>> /\ Last(open) = "else") /\ Ends("second else")

EndOfCondition ==
    /\ Meets({"endif"})
    /\ \/ open = <<>> /\ over = <<>> /\ Ends("end without condition")
       \/ open # <<>> /\ over = <<>> /\ Conditions(Front(open), over)
       \/ over # <<>> /\ Conditions(open, Front(over))

Inclusion ==
    /\ over = <<>> /\ Meets({"include"})
    /\ \E file \in {Resolve(unit.files, Last(chain), Head(rest).path)} :
          CASE file = <<>> -> Ends("no such file")
            [] file # <<>> /\ file \in ToSet(chain) -> Ends("cycle")
            [] file # <<>> /\ file \notin ToSet(chain) /\ Len(chain) > MaxIncludes -> Ends("too deep")
            [] OTHER ->
                 /\ rest' = unit.files[file] \o <<Eof>> \o Tail(rest)
                 /\ chain' = Append(chain, file) /\ deps' = deps \cup {file}
                 /\ UNCHANGED <<unit, defs, open, over, tokens, end>>
EndOfFile ==
    /\ Meets({Eof.kind}) /\ Goes /\ chain' = Front(chain)
    /\ UNCHANGED <<deps, defs, open, over, tokens>>

Unknown == over = <<>> /\ Meets({"other"}) /\ Ends("unknown directive")
Finish ==
    /\ end = "reading" /\ rest = <<>>
    /\ Ends(IF open = <<>> /\ over = <<>> THEN "end" ELSE "open condition")

Init ==
    /\ rest = unit.files[unit.root] /\ chain = <<unit.root>> /\ deps = {unit.root}
    /\ defs = <<>> /\ open = <<>> /\ over = <<>> /\ tokens = <<>>
    /\ end = "reading"

Next ==
    \/ PassOver \/ Token \/ Definition \/ Withdrawal \/ Condition \/ Alternative \/ EndOfCondition
    \/ Inclusion \/ EndOfFile \/ Unknown \/ Finish
Spec == Init /\ [][Next]_vars
=============================================================================

------------------------------ MODULE MCDriver ------------------------------
(***************************************************************************)
(* Two compilers in one directory.  a and b define the same name, c and d  *)
(* other ones; d is a Nazm source given directly, in one -c beside a Baa    *)
(* source of that name: both are to be d.o.                                *)
(***************************************************************************)
EXTENDS Driver

CONSTANTS p1, p2

Baa(b) == [base |-> b, direct |-> FALSE]
Nazm(b) == [base |-> b, direct |-> TRUE]

MCExports == [b \in {"a", "b", "c", "d", "e"} |->
                CASE b \in {"a", "b"} -> {"f"} [] b = "c" -> {"g"} [] b = "d" -> {"h"} [] b = "e" -> {"i"}]

Command(modes, assemblers, out, inputs) ==
    [mode : modes, assembler : assemblers, verbose : BOOLEAN, incremental : BOOLEAN,
     out : {out}, inputs : inputs]

Modes == {"link", "compile", "assembly", "check"}

\* Every mode for the first; a link or -c of one unit for the second, where a
\* link may have the output of the first, or -c of two, one of them the first's.
MCJobs == [p \in {p1, p2} |->
    IF p = p1 THEN Command(Modes, {"gas", "nazm"}, "x", {<<Baa("a"), Nazm("d")>>, <<Baa("a"), Baa("b")>>, <<Baa("c")>>})
                      \cup Command({"compile"}, {"gas"}, "x", {<<Baa("d"), Nazm("d")>>})
    ELSE {j \in Command({"link", "compile"}, {"nazm", "gas"}, "y", {<<Baa("e")>>})
               \cup Command({"link"}, {"gas"}, "x", {<<Baa("e")>>})
               \cup Command({"compile"}, {"gas"}, "y", {<<Baa("b"), Baa("e")>>}) : ~j.verbose /\ ~j.incremental}]
=============================================================================

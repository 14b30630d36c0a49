----------------------------- MODULE MCRegAlloc -----------------------------
(***************************************************************************)
(* A loop over three virtual registers and two allocatable registers, one  *)
(* caller-saved and one callee-saved: the loop body does two arbitrary     *)
(* instructions (calls among them), the header reads any register and the  *)
(* exit one of two.  The exit block is before or after the body.  Every    *)
(* block begins with a label and ends with a jump or return.  Loops nested *)
(* in one another have one instruction in the innermost body.              *)
(***************************************************************************)
EXTENDS RegAlloc

MCOrder == <<"r10", "rsi", "rbx">>
MCReserved == {"rsi"}
MCCalleeSaved == {"rbx"}

I(d, u) == [op |-> "op", def |-> d, use |-> u, base |-> {}]
Load(d, v) == [op |-> "op", def |-> {d}, use |-> {}, base |-> {v}]
Label == [op |-> "label", def |-> {}, use |-> {}, base |-> {}]
Jmp(u) == [op |-> "jump", def |-> {}, use |-> u, base |-> {}]
Call == [op |-> "call", def |-> {}, use |-> {}, base |-> {}]

Body == {Call} \cup {I({d}, {u}) : d, u \in VReg} \cup {Load(0, u) : u \in VReg}

Loop(a, c, x, y, exit, body) ==
    LET entry == [insts |-> <<Label, I({0}, {}), I({1}, {}), I({2}, {0}), Jmp({})>>, succs |-> <<2>>]
        header == [insts |-> <<Label, Jmp({x})>>, succs |-> <<body, exit>>]
        bodyB == [insts |-> <<Label, a, c, Jmp({})>>, succs |-> <<2>>]
        exitB == [insts |-> <<Label, Jmp({y})>>, succs |-> <<>>]
    IN  [n \in 1 .. 4 |-> CASE n = 1 -> entry [] n = 2 -> header
                            [] n = body -> bodyB [] n = exit -> exitB]

\* Loops "for" inside one another, laid out as lower_for_stmt makes their blocks:
\* header, body, step and exit of the outer one before those of the inner one.
\* Each header reads a register written in the entry, the last block another, and
\* the innermost body does one instruction.
Nested(n, a, x, y) ==
    LET level(k) == 4 * (k - 1)
        header(k) == [insts |-> <<Label, Jmp({x})>>, succs |-> <<level(k) + 3, level(k) + 5>>]
        bodyOf(k) == IF k < n THEN [insts |-> <<Label, Jmp({})>>, succs |-> <<level(k + 1) + 2>>]
                     ELSE [insts |-> <<Label, a, Jmp({})>>, succs |-> <<level(k) + 4>>]
        step(k) == [insts |-> <<Label, Jmp({})>>, succs |-> <<level(k) + 2>>]
        exitOf(k) == IF k > 1 THEN [insts |-> <<Label, Jmp({})>>, succs |-> <<level(k - 1) + 4>>]
                     ELSE [insts |-> <<Label, Jmp({y})>>, succs |-> <<>>]
        entry == [insts |-> <<Label, I({x}, {}), I({y}, {}), Jmp({})>>, succs |-> <<2>>]
        part(k) == <<header(k), bodyOf(k), step(k), exitOf(k)>>
    IN  <<entry>> \o FlattenSeq([k \in 1 .. n |-> part(k)])

MCFuncs == {Loop(a, c, x, y, l[1], l[2]) :
              a, c \in Body, x \in VReg, y \in {0, 2}, l \in {<<3, 4>>, <<4, 3>>}}
           \cup {Nested(n, a, 2, 0) : n \in {1, 2}, a \in {Call, I({1}, {0})}}
=============================================================================

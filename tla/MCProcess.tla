------------------------------ MODULE MCProcess -------------------------------
(***************************************************************************)
(* Two children, two process numbers, so that one comes by the number the  *)
(* other had.                                                              *)
(***************************************************************************)
EXTENDS Process

CONSTANTS h1, h2, p1, p2
MCHandles == {h1, h2}
MCPids == {p1, p2}
Plain == [args |-> TRUE, cwd |-> TRUE, out |-> "", err |-> "", env |-> FALSE, path |-> <<"there">>, run |-> FALSE]
Starts ==
    {Plain, [Plain EXCEPT !.args = FALSE], [Plain EXCEPT !.run = TRUE], [Plain EXCEPT !.cwd = FALSE, !.out = "log"],
     [Plain EXCEPT !.out = "log", !.err = "log"], [Plain EXCEPT !.out = "log", !.err = "err", !.run = TRUE],
     [Plain EXCEPT !.out = "bad", !.err = "err"],
     [Plain EXCEPT !.env = TRUE, !.path = <<"absent", "denied", "there">>],
     [Plain EXCEPT !.path = <<"denied", "there">>], [Plain EXCEPT !.path = <<"denied">>, !.run = TRUE]}
MCPlans == {[h \in {h1} |-> r] : r \in Starts} \cup {[h \in MCHandles |-> r] : r \in {Plain, [Plain EXCEPT !.run = TRUE]}}
=============================================================================

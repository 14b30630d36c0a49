----------------------------- MODULE ChildProcess -----------------------------
(***************************************************************************)
(* What a program is promised of a child process and of the answers it is  *)
(* given about it: each is true at the moment it is given, and the handle  *)
(* is released when the child has ended.                                   *)
(***************************************************************************)
EXTENDS Integers

CONSTANTS
    Children,
    Outcomes,       \* how a child may end
    Alive       \* how a child ended that has not, or has not been started
VARIABLES
    ended,      \* child -> Alive, or [how, n]: exit with n, or killed by signal n
    answer      \* [child, op, value]: the last answer

Code(e) == IF e.how = "exit" THEN e.n ELSE 128 + e.n
Say(c, op, v) == answer' = [child |-> c, op |-> op, value |-> v] /\ UNCHANGED ended

Init == ended = [c \in Children |-> Alive] /\ answer.op = "none"

End(c) ==
    /\ ended[c] = Alive
    /\ \E e \in Outcomes : ended' = [ended EXCEPT ![c] = e]
    /\ UNCHANGED answer

Start(c) == \E v \in {0, -1} : Say(c, "start", v)
Poll(c) == Say(c, "poll", IF ended[c] = Alive THEN 0 ELSE 1)
ExitCode(c) == Say(c, "code", IF ended[c] = Alive THEN -1 ELSE Code(ended[c]))
Wait(c) == ended[c] # Alive /\ Say(c, "wait", Code(ended[c]))
Run(c) == Say(c, "run", IF ended[c] = Alive THEN -1 ELSE Code(ended[c]))
Cancel(c) == Say(c, "cancel", 1)
Free(c) == ended[c] # Alive /\ Say(c, "free", 0)

Next == \E c \in Children :
    End(c) \/ Start(c) \/ Poll(c) \/ ExitCode(c) \/ Wait(c) \/ Run(c) \/ Cancel(c) \/ Free(c)
Spec == Init /\ [][Next]_<<ended, answer>>
=============================================================================

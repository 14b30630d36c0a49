---------------------------- MODULE MCLinearScan ----------------------------
(***************************************************************************)
(* One caller-saved and two callee-saved registers, one reserved register  *)
(* early in the preference order: enough for every spill decision.         *)
(***************************************************************************)
EXTENDS LinearScan

MCOrder == <<"r10", "rsi", "rbx", "r12">>
MCReserved == {"rsi"}
MCCalleeSaved == {"rbx", "r12"}

\* At most one call, at any position.
MCInit == \E n \in 0 .. MaxIntervals :
          \E x \in SortedIntervals(n), c \in {{}} \cup {{p} : p \in 1 .. MaxPos - 1} :
            BeginScan(x, c)
MCSpec == MCInit /\ [][LSNext]_lsvars
=============================================================================

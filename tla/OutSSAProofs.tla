---------------------------- MODULE OutSSAProofs ----------------------------
(***************************************************************************)
(* For every number of registers, every list of copies and every register  *)
(* file: the sequence emitted by ir_emit_parallel_copies has the effect of *)
(* performing the copies at once.  For every function, with any number of  *)
(* blocks, phis and registers: the function ir_outssa_func leaves without  *)
(* phis behaves as the one with them, along every path.                    *)
(***************************************************************************)
EXTENDS OutSSA, TLAPS, FiniteSetTheorems, SequenceTheorems, WellFoundedInduction, NaturalsInduction

-----------------------------------------------------------------------------
(* The emission of the copies of one edge.                                 *)

\* Distinct copies have distinct destinations (phi nodes are SSA names).
DistinctDests ==
    \A i, j \in Index : copies0[i].dest = copies0[j].dest => i = j

\* Registers of the function that no copy writes keep their entry value.
Untouched ==
    \A r \in Reg : (\A i \in Index : copies0[i].dest # r) => env[r] = env0[r]

\* The inductive invariant: ParallelValues alone does not say that writing
\* one destination leaves the delivered ones alone, nor what happens to the
\* registers outside the copies.
PCInv ==
    /\ PCTypeOK
    /\ DistinctDests
    /\ ParallelValues
    /\ Untouched
    /\ mode = "done" => done = Index

LEMMA CopiesInitInv == PCInit => PCInv
<1> SUFFICES ASSUME NEW n \in 1 .. MaxCopies,
                    NEW c \in EdgeCopies(n), NEW e \in [Reg -> Val],
                    BeginCopies(c, e, NumRegs)
             PROVE  PCInv
  BY DEF PCInit
<1> USE RegsAssumption, ValAssumption
<1>1. c \in [1 .. n -> [dest : Reg, src : Source]]
  BY DEF EdgeCopies
<1>2. DOMAIN copies = 1 .. n /\ copies0 = c /\ copies = c
  BY <1>1 DEF BeginCopies
<1>3. PCTypeOK
  <2>1. \A i \in 1 .. n : c[i].src \in
              [kind : {"reg"}, num : 0 .. NumRegs - 1] \cup [kind : {"const"}, num : Val]
    BY <1>1 DEF Source, Reg
  <2>2. nextReg = NumRegs /\ done = {} /\ scan = 1 /\ mode = "scan"
        /\ env = e /\ env0 = e
    BY DEF BeginCopies
  <2>3. progress \in BOOLEAN
    BY DEF BeginCopies
  <2>4. env \in [0 .. nextReg - 1 -> Val]
    BY <2>2 DEF Reg
  <2>5. \A i \in Index :
         /\ copies0[i] \in [dest : Reg, src : Source]
         /\ copies[i].dest = copies0[i].dest
         /\ copies[i].src \in
              [kind : {"reg"}, num : 0 .. nextReg - 1] \cup [kind : {"const"}, num : Val]
    BY <1>1, <1>2, <2>1, <2>2 DEF Index
  <2> QED BY <1>1, <1>2, <2>2, <2>3, <2>4, <2>5 DEF PCTypeOK, Index
<1>4. DistinctDests
  BY <1>1, <1>2 DEF DistinctDests, EdgeCopies, Index
<1>5. ParallelValues /\ Untouched
  BY <1>2 DEF ParallelValues, Untouched, BeginCopies, Index
<1> QED BY <1>3, <1>4, <1>5 DEF PCInv, BeginCopies

\* Steps of the scan that emit nothing.
LEMMA IdleStepInv ==
  ASSUME PCInv,
         scan' \in Nat \ {0}, progress' \in BOOLEAN, mode' \in {"scan", "done"},
         mode' = "done" => done = Index,
         UNCHANGED <<copies0, env0, copies, done, nextReg, code, env>>
  PROVE  PCInv'
<1>1. Index' = Index
  BY DEF Index
<1>2. PCTypeOK'
  BY <1>1 DEF PCInv, PCTypeOK
<1>3. DistinctDests'
  BY <1>1 DEF PCInv, DistinctDests
<1>4. ParallelValues'
  BY <1>1 DEF PCInv, ParallelValues, Eval
<1>5. Untouched'
  BY <1>1 DEF PCInv, Untouched
<1> QED BY <1>1, <1>2, <1>3, <1>4, <1>5 DEF PCInv

\* Emitting a copy whose destination no remaining copy reads.
LEMMA EmitSafeCopyInv == PCInv /\ EmitSafeCopy => PCInv'
<1> SUFFICES ASSUME PCInv, EmitSafeCopy PROVE PCInv'
  OBVIOUS
<1> DEFINE k == scan
           d == copies[k].dest
           s == copies[k].src
<1>1. /\ k \in Index /\ k \notin done
      /\ env' = [env EXCEPT ![d] = Eval(s, env)]
      /\ done' = done \cup {k}
      /\ copies0' = copies0 /\ env0' = env0 /\ copies' = copies
      /\ nextReg' = nextReg /\ mode' = "scan"
      /\ scan' = scan + 1
  BY DEF EmitSafeCopy, EmitCopy
<1>2. Index' = Index
  BY <1>1 DEF Index
<1>3. d = copies0[k].dest /\ d \in Reg /\ d \in 0 .. nextReg - 1
  BY <1>1, RegsAssumption DEF PCInv, PCTypeOK, Reg
<1>4. Eval(s, env) \in Val
  BY <1>1 DEF PCInv, PCTypeOK, Eval
<1>5. PCTypeOK'
  <2>1. progress' \in BOOLEAN
    BY DEF EmitSafeCopy
  <2>2. env' \in [0 .. nextReg' - 1 -> Val]
    BY <1>1, <1>3, <1>4 DEF PCInv, PCTypeOK
  <2>3. done' \subseteq Index'
    BY <1>1, <1>2 DEF PCInv, PCTypeOK
  <2>4. scan' \in Nat \ {0}
    BY <1>1 DEF PCInv, PCTypeOK
  <2> QED BY <1>1, <1>2, <2>1, <2>2, <2>3, <2>4 DEF PCInv, PCTypeOK
<1>6. DistinctDests'
  BY <1>1, <1>2 DEF PCInv, DistinctDests
<1>7. ParallelValues'
  <2> SUFFICES ASSUME NEW i \in Index
               PROVE  IF i \in done'
                        THEN env'[copies0[i].dest] = Eval(copies0[i].src, env0)
                        ELSE Eval(copies[i].src, env') = Eval(copies0[i].src, env0)
    BY <1>1, <1>2 DEF ParallelValues, Eval
  <2>0. copies0[i].dest \in 0 .. nextReg - 1 /\ DOMAIN env = 0 .. nextReg - 1
    BY RegsAssumption DEF PCInv, PCTypeOK, Reg
  <2>1. CASE i = k
    <3>1. env'[d] = Eval(s, env)
      BY <1>1, <1>3, <2>0
    <3>2. Eval(s, env) = Eval(copies0[k].src, env0)
      BY <1>1 DEF PCInv, ParallelValues
    <3> QED BY <1>1, <1>3, <2>1, <3>1, <3>2
  <2>2. CASE i \in done
    <3>1. i # k
      BY <1>1, <2>2
    <3>2. copies0[i].dest # d
      BY <1>1, <1>3, <3>1 DEF PCInv, DistinctDests
    <3>3. env'[copies0[i].dest] = env[copies0[i].dest]
      BY <1>1, <2>0, <3>2
    <3> QED BY <1>1, <2>2, <3>3 DEF PCInv, ParallelValues
  <2>3. CASE i \notin done /\ i # k
    <3>1. ~(copies[i].src.kind = "reg" /\ copies[i].src.num = d)
      BY <1>1, <2>3 DEF EmitSafeCopy, DestIsUsedAsSource
    <3>2. copies[i].src.kind = "reg" => copies[i].src.num \in 0 .. nextReg - 1
      BY DEF PCInv, PCTypeOK
    <3>3. Eval(copies[i].src, env') = Eval(copies[i].src, env)
      BY <1>1, <2>0, <3>1, <3>2 DEF Eval
    <3> QED BY <1>1, <2>3, <3>3 DEF PCInv, ParallelValues
  <2> QED BY <2>1, <2>2, <2>3
<1>8. Untouched'
  <2> SUFFICES ASSUME NEW r \in Reg, \A i \in Index : copies0[i].dest # r
               PROVE  env'[r] = env0[r]
    BY <1>1, <1>2 DEF Untouched
  <2>1. r # d /\ r \in DOMAIN env
    BY <1>1, <1>3, RegsAssumption DEF PCInv, PCTypeOK, Reg
  <2>2. env'[r] = env[r]
    BY <1>1, <2>1
  <2> QED BY <2>2 DEF PCInv, Untouched
<1> QED BY <1>1, <1>5, <1>6, <1>7, <1>8 DEF PCInv

\* Saving a destination in a fresh register and redirecting its readers.
LEMMA BreakCycleInv == PCInv /\ BreakCycle => PCInv'
<1> SUFFICES ASSUME PCInv, BreakCycle PROVE PCInv'
  OBVIOUS
<1>1. PICK pick \in Index \ done :
        /\ env' = [r \in 0 .. nextReg |->
                     IF r = nextReg THEN env[copies[pick].dest] ELSE env[r]]
        /\ copies' = [i \in Index |->
             IF i \notin done /\ copies[i].src = RegSrc(copies[pick].dest)
               THEN [dest |-> copies[i].dest, src |-> RegSrc(nextReg)]
               ELSE copies[i]]
  BY DEF BreakCycle, FreshReg, RestartScan
<1> DEFINE d == copies[pick].dest
<1>2. /\ nextReg' = nextReg + 1 /\ scan' = 1 /\ mode' = "scan"
      /\ done' = done /\ copies0' = copies0 /\ env0' = env0 /\ mode = "scan"
  BY DEF BreakCycle, FreshReg, RestartScan
<1>3. Index' = Index
  BY <1>1 DEF Index
<1>4. d \in 0 .. nextReg - 1 /\ d \in Reg /\ nextReg \in Nat
  BY <1>1, RegsAssumption DEF PCInv, PCTypeOK, Reg
<1>5. \A r \in 0 .. nextReg - 1 : env'[r] = env[r]
  BY <1>1, <1>4
<1>6. env'[nextReg] = env[d]
  BY <1>1, <1>4
<1>7. \A i \in Index :
        /\ copies'[i].dest = copies[i].dest
        /\ copies'[i].src = IF i \notin done /\ copies[i].src = RegSrc(d)
                              THEN RegSrc(nextReg) ELSE copies[i].src
  BY <1>1
<1>8. PCTypeOK'
  <2>1. progress' \in BOOLEAN
    BY DEF BreakCycle, FreshReg, RestartScan
  <2>2. env' \in [0 .. nextReg' - 1 -> Val]
    <3>1. \A r \in 0 .. nextReg :
            (IF r = nextReg THEN env[d] ELSE env[r]) \in Val
      BY <1>4 DEF PCInv, PCTypeOK
    <3>2. nextReg' - 1 = nextReg
      BY <1>2, <1>4
    <3> QED BY <1>1, <3>1, <3>2
  <2>3. \A i \in Index' :
         /\ copies0'[i] \in [dest : Reg, src : Source]
         /\ copies'[i].dest = copies0'[i].dest
         /\ copies'[i].src \in
              [kind : {"reg"}, num : 0 .. nextReg' - 1] \cup [kind : {"const"}, num : Val]
    <3> SUFFICES ASSUME NEW i \in Index
                 PROVE /\ copies0[i] \in [dest : Reg, src : Source]
                       /\ copies'[i].dest = copies0[i].dest
                       /\ copies'[i].src \in
                           [kind : {"reg"}, num : 0 .. nextReg]
                             \cup [kind : {"const"}, num : Val]
      BY <1>2, <1>3, <1>4
    <3>1. copies[i].src \in [kind : {"reg"}, num : 0 .. nextReg]
                             \cup [kind : {"const"}, num : Val]
      BY <1>4 DEF PCInv, PCTypeOK
    <3>2. RegSrc(nextReg) \in [kind : {"reg"}, num : 0 .. nextReg]
      BY <1>4 DEF RegSrc
    <3> QED BY <1>7, <3>1, <3>2 DEF PCInv, PCTypeOK
  <2>4. nextReg' \in Nat /\ nextReg' >= NumRegs /\ scan' \in Nat \ {0}
    BY <1>2, <1>4, RegsAssumption DEF PCInv, PCTypeOK
  <2> QED BY <1>2, <1>3, <2>1, <2>2, <2>3, <2>4 DEF PCInv, PCTypeOK
<1>9. DistinctDests'
  BY <1>2, <1>3 DEF PCInv, DistinctDests
<1>10. ParallelValues'
  <2> SUFFICES ASSUME NEW i \in Index
               PROVE  IF i \in done
                        THEN env'[copies0[i].dest] = Eval(copies0[i].src, env0)
                        ELSE Eval(copies'[i].src, env') = Eval(copies0[i].src, env0)
    BY <1>2, <1>3 DEF ParallelValues, Eval
  <2>1. CASE i \in done
    <3>1. copies0[i].dest \in 0 .. nextReg - 1
      BY RegsAssumption DEF PCInv, PCTypeOK, Reg
    <3> QED BY <1>5, <2>1, <3>1 DEF PCInv, ParallelValues
  <2>2. CASE i \notin done /\ copies[i].src = RegSrc(d)
    <3>1. Eval(copies'[i].src, env') = env[d]
      BY <1>6, <1>7, <2>2 DEF Eval, RegSrc
    <3>2. Eval(copies[i].src, env) = env[d]
      BY <2>2 DEF Eval, RegSrc
    <3> QED BY <2>2, <3>1, <3>2 DEF PCInv, ParallelValues
  <2>3. CASE i \notin done /\ copies[i].src # RegSrc(d)
    <3>1. copies'[i].src = copies[i].src
      BY <1>7, <2>3
    <3>2. copies[i].src.kind = "reg" => copies[i].src.num \in 0 .. nextReg - 1
      BY DEF PCInv, PCTypeOK
    <3>3. Eval(copies[i].src, env') = Eval(copies[i].src, env)
      BY <1>5, <3>2 DEF Eval
    <3> QED BY <2>3, <3>1, <3>3 DEF PCInv, ParallelValues
  <2> QED BY <2>1, <2>2, <2>3
<1>11. Untouched'
  <2>1. \A r \in Reg : r \in 0 .. nextReg - 1
    BY <1>4, RegsAssumption DEF PCInv, PCTypeOK, Reg
  <2> QED BY <1>2, <1>3, <1>5, <2>1 DEF PCInv, Untouched
<1> QED BY <1>2, <1>8, <1>9, <1>10, <1>11 DEF PCInv

LEMMA StepInv == PCInv /\ [PCNext]_pcvars => PCInv'
<1> SUFFICES ASSUME PCInv, [PCNext]_pcvars PROVE PCInv'
  OBVIOUS
<1>t. scan \in Nat \ {0} /\ progress \in BOOLEAN /\ mode \in {"scan", "done"}
      /\ (mode = "done" => done = Index)
  BY DEF PCInv, PCTypeOK
<1>1. CASE SkipDone
  BY <1>1, <1>t, IdleStepInv DEF SkipDone
<1>2. CASE EmitSafeCopy
  BY <1>2, EmitSafeCopyInv
<1>3. CASE SkipBlocked
  BY <1>3, <1>t, IdleStepInv DEF SkipBlocked
<1>4. CASE Rescan
  <2>1. UNCHANGED <<copies0, env0, copies, done, nextReg, code, env>>
    BY <1>4 DEF Rescan, RestartScan, NoneRemaining
  <2>2. CASE done = Index
    BY <1>4, <1>t, <2>1, <2>2, IdleStepInv DEF Rescan, RestartScan, NoneRemaining
  <2>3. CASE done # Index
    <3>1. scan' = 1 /\ mode' = "scan"
      BY <1>4, <2>3 DEF Rescan, RestartScan, NoneRemaining
    <3>2. progress' \in BOOLEAN
      BY <1>4, <2>3, Zenon DEF Rescan, RestartScan, NoneRemaining
    <3> QED BY <2>1, <3>1, <3>2, IdleStepInv
  <2> QED BY <2>2, <2>3
<1>5. CASE BreakCycle
  BY <1>5, BreakCycleInv
<1>6. CASE UNCHANGED pcvars
  BY <1>6, <1>t, IdleStepInv DEF pcvars
<1> QED BY <1>1, <1>2, <1>3, <1>4, <1>5, <1>6 DEF PCNext

\* The type invariant of the emission loop, for every instance.
THEOREM TypeCorrect == PCSpec => []PCTypeOK
<1>1. PCInv => PCTypeOK
  BY DEF PCInv
<1> QED BY CopiesInitInv, StepInv, <1>1, PTL DEF PCSpec

\* No interleaving of emissions and broken cycles ever loses the value a
\* remaining copy has to read (ir_emit_parallel_copies, the done[] loop).
THEOREM NoLostCopy == PCSpec => []ParallelValues
<1>1. PCInv => ParallelValues
  BY DEF PCInv
<1> QED BY CopiesInitInv, StepInv, <1>1, PTL DEF PCSpec

\* When the loop ends the emitted sequence equals the parallel copy, and all
\* other registers of the function are untouched.
THEOREM ParallelCopyCorrect == PCSpec => []CopiesAreParallel
<1>1. PCInv => CopiesAreParallel
  <2> SUFFICES ASSUME PCInv, mode = "done", NEW r \in Reg
               PROVE  env[r] = IF \E i \in Index : copies0[i].dest = r
                                 THEN LET i == CHOOSE i \in Index : copies0[i].dest = r
                                      IN  Eval(copies0[i].src, env0)
                                 ELSE env0[r]
    BY DEF CopiesAreParallel
  <2>1. CASE \E i \in Index : copies0[i].dest = r
    <3> DEFINE i == CHOOSE i \in Index : copies0[i].dest = r
    <3>1. i \in Index /\ copies0[i].dest = r
      BY <2>1
    <3> HIDE DEF i
    <3>2. i \in done
      BY <3>1 DEF PCInv
    <3>3. env[copies0[i].dest] = Eval(copies0[i].src, env0)
      BY <3>1, <3>2 DEF PCInv, ParallelValues
    <3>4. env[r] = Eval(copies0[i].src, env0)
      BY <3>1, <3>3
    <3> QED BY <2>1, <3>4, Zenon DEF i
  <2>2. CASE ~\E i \in Index : copies0[i].dest = r
    BY <2>2 DEF PCInv, Untouched
  <2> QED BY <2>1, <2>2
<1> QED BY CopiesInitInv, StepInv, <1>1, PTL DEF PCSpec

-----------------------------------------------------------------------------
(* The pass over a function.                                               *)

LEMMA LeastNatural ==
  ASSUME NEW T \in SUBSET Nat, T # {}
  PROVE  \E n \in T : \A m \in T : n <= m
<1>1. IsWellFoundedOn(OpToRel(<, Nat), Nat)
  BY NatLessThanWellFounded
<1>2. PICK n \in T : \A m \in T : ~(<<m, n>> \in OpToRel(<, Nat))
  BY <1>1, WFMin
<1>3. \A m \in T : ~(m < n)
  BY <1>2 DEF OpToRel
<1> QED BY <1>3

-----------------------------------------------------------------------------
(* Running a list of copies.                                               *)

\* g[k] is the register file after the first k of n copies.
Trace(g, n, cs, e) == g = [k \in 0 .. n |-> IF k = 0 THEN e ELSE Assign(g[k - 1], cs[k])]

LEMMA TraceIs ==
  ASSUME NEW n \in Nat, NEW g, NEW cs, NEW e, Trace(g, n, cs, e)
  PROVE  g[0] = e /\ \A k \in 1 .. n : g[k] = Assign(g[k - 1], cs[k])
<1>1. \A k \in 0 .. n : g[k] = IF k = 0 THEN e ELSE Assign(g[k - 1], cs[k])
  BY DEF Trace
<1> QED BY <1>1

LEMMA TraceExists ==
  ASSUME NEW cs, NEW e
  PROVE  \A n \in Nat : \E g : Trace(g, n, cs, e)
<1> DEFINE Bad == {n \in Nat : ~ \E g : Trace(g, n, cs, e)}
<1> SUFFICES ASSUME Bad # {} PROVE FALSE
  OBVIOUS
<1>1. PICK n \in Bad : \A m \in Bad : n <= m
  BY LeastNatural
<1>2. n \in Nat /\ ~ \E g : Trace(g, n, cs, e)
  OBVIOUS
<1>3. n # 0
  <2> DEFINE g == [k \in {0} |-> e]
  <2>1. 0 .. 0 = {0}
    OBVIOUS
  <2>2. g = [k \in 0 .. 0 |-> IF k = 0 THEN e ELSE Assign(g[k - 1], cs[k])]
    BY <2>1
  <2>3. Trace(g, 0, cs, e)
    BY <2>2 DEF Trace
  <2> QED BY <1>2, <2>3
<1>4. n - 1 \in Nat /\ n - 1 \notin Bad
  <2>1. n - 1 \in Nat /\ \A m \in Bad : m # n - 1
    <3>1. n - 1 \in Nat
      BY <1>2, <1>3
    <3>2. \A m \in Bad : n <= m /\ m \in Nat
      BY <1>1
    <3> HIDE DEF Bad
    <3> QED BY <3>1, <3>2
  <2> QED BY <2>1
<1>5. PICK g : Trace(g, n - 1, cs, e)
  BY <1>4
<1> DEFINE h == [k \in 0 .. n |-> IF k = n THEN Assign(g[n - 1], cs[n]) ELSE g[k]]
<1>6. \A k \in 0 .. n : h[k] = IF k = 0 THEN e ELSE Assign(h[k - 1], cs[k])
  <2> SUFFICES ASSUME NEW k \in 0 .. n PROVE h[k] = IF k = 0 THEN e ELSE Assign(h[k - 1], cs[k])
    OBVIOUS
  <2>1. g[0] = e /\ \A i \in 1 .. n - 1 : g[i] = Assign(g[i - 1], cs[i])
    BY <1>4, <1>5, TraceIs
  <2>2. CASE k = n
    <3>1. h[k - 1] = g[n - 1] /\ h[k] = Assign(g[n - 1], cs[n])
      BY <1>2, <1>3, <2>2
    <3> QED BY <1>3, <2>2, <3>1
  <2>3. CASE k # n /\ k # 0
    <3>1. k \in 1 .. n - 1 /\ h[k] = g[k] /\ h[k - 1] = g[k - 1]
      BY <1>2, <2>3
    <3> QED BY <2>1, <2>3, <3>1
  <2>4. CASE k = 0
    BY <1>3, <2>1, <2>4
  <2> QED BY <2>2, <2>3, <2>4
<1>7. h = [k \in 0 .. n |-> h[k]]
  OBVIOUS
<1> HIDE DEF h
<1>8. Trace(h, n, cs, e)
  BY <1>6, <1>7 DEF Trace
<1> QED BY <1>2, <1>8

\* Two lists that agree on their first n copies have the same files so far.
LEMMA TraceSame ==
  ASSUME NEW e, NEW cs, NEW ds, NEW n \in Nat, NEW m \in Nat, n <= m,
         \A k \in 1 .. n : cs[k] = ds[k],
         NEW g, Trace(g, n, cs, e), NEW h, Trace(h, m, ds, e)
  PROVE  g[n] = h[n]
<1> DEFINE Bad == {k \in Nat : k <= n /\ g[k] # h[k]}
<1>1. ASSUME Bad # {} PROVE FALSE
  <2>1. PICK k \in Bad : \A i \in Bad : k <= i
    BY <1>1, LeastNatural
  <2>2. k \in Nat /\ k <= n /\ g[k] # h[k]
    BY <2>1
  <2>3. /\ g[0] = e /\ h[0] = e
        /\ \A i \in 1 .. n : g[i] = Assign(g[i - 1], cs[i])
        /\ \A i \in 1 .. m : h[i] = Assign(h[i - 1], ds[i])
    BY TraceIs
  <2>4. k # 0
    BY <2>2, <2>3
  <2>5. k \in 1 .. n /\ k \in 1 .. m /\ k - 1 \in Nat /\ k - 1 <= n
    BY <2>2, <2>4
  <2>6. k - 1 \notin Bad
    <3>1. \A i \in Bad : k <= i
      BY <2>1
    <3> HIDE DEF Bad
    <3> QED BY <2>5, <3>1
  <2>7. g[k - 1] = h[k - 1]
    BY <2>5, <2>6
  <2> QED BY <2>2, <2>3, <2>5, <2>7
<1> QED BY <1>1

LEMMA RunIs ==
  ASSUME NEW cs, Len(cs) \in Nat, NEW e
  PROVE  \E g : Trace(g, Len(cs), cs, e) /\ RunCopies(cs, e) = g[Len(cs)]
<1>1. RunCopies(cs, e) = (CHOOSE g : Trace(g, Len(cs), cs, e))[Len(cs)]
  BY DEF RunCopies, Trace
<1>2. \E g : Trace(g, Len(cs), cs, e)
  BY TraceExists
<1> QED BY <1>1, <1>2

LEMMA RunEmpty ==
  ASSUME NEW e
  PROVE  RunCopies(<<>>, e) = e
<1>1. Len(<<>>) = 0
  OBVIOUS
<1>2. PICK g : Trace(g, 0, <<>>, e) /\ RunCopies(<<>>, e) = g[0]
  BY <1>1, RunIs
<1> QED BY <1>2, TraceIs

LEMMA RunAppend ==
  ASSUME NEW S, NEW cs \in Seq(S), NEW c \in S, NEW e
  PROVE  RunCopies(Append(cs, c), e) = Assign(RunCopies(cs, e), c)
<1> DEFINE n == Len(cs)
           ds == Append(cs, c)
<1>1. /\ n \in Nat /\ Len(ds) = n + 1 /\ ds[n + 1] = c
      /\ \A k \in 1 .. n : cs[k] = ds[k]
  BY AppendProperties, LenProperties
<1> HIDE DEF n, ds
<1>2. PICK g : Trace(g, n, cs, e) /\ RunCopies(cs, e) = g[n]
  BY <1>1, RunIs DEF n
<1>3. PICK h : Trace(h, n + 1, ds, e) /\ RunCopies(ds, e) = h[n + 1]
  BY <1>1, RunIs
<1>4. g[n] = h[n]
  BY <1>1, <1>2, <1>3, TraceSame
<1>5. h[n + 1] = Assign(h[n], c)
  <2>1. n + 1 \in 1 .. n + 1 /\ (n + 1) - 1 = n /\ n + 1 \in Nat
    BY <1>1
  <2>2. h[n + 1] = Assign(h[(n + 1) - 1], ds[n + 1])
    BY <1>3, <2>1, TraceIs
  <2> QED BY <1>1, <2>1, <2>2
<1> QED BY <1>2, <1>3, <1>4, <1>5 DEF ds

-----------------------------------------------------------------------------
(* Predecessors.                                                           *)

LEMMA FunctionsAre ==
  ASSUME NEW f \in Functions0
  PROVE  /\ DOMAIN f = 1 .. Len(f) /\ Len(f) \in Nat \ {0}
         /\ \A x \in DOMAIN f :
              /\ f[x] \in [phis : Seq(Phi(f)), copies : {<<>>}, targets : Seq(DOMAIN f)]
              /\ f[x].copies = <<>>
              /\ Len(f[x].targets) \in Nat /\ Len(f[x].targets) <= 2
              /\ DOMAIN f[x].targets = 1 .. Len(f[x].targets)
              /\ \A k \in DOMAIN f[x].targets : f[x].targets[k] \in DOMAIN f
              /\ \A i, j \in DOMAIN f[x].phis : f[x].phis[i].dest = f[x].phis[j].dest => i = j
              /\ \A i \in DOMAIN f[x].phis :
                   /\ f[x].phis[i].dest \in Reg
                   /\ \A q \in DOMAIN f[x].phis[i].in : f[x].phis[i].in[q] \in Source
<1> DEFINE B == [phis : Seq(Phi(f)), copies : {<<>>}, targets : Seq(DOMAIN f)]
<1>1. f # <<>> /\ f \in Seq(B)
  BY FunctionsAssumption
<1>2. DOMAIN f = 1 .. Len(f) /\ Len(f) \in Nat \ {0}
  <2> HIDE DEF B
  <2> QED BY <1>1, EmptySeq, LenProperties
<1>3. \A x \in DOMAIN f : f[x] \in B
  <2> HIDE DEF B
  <2> QED BY <1>1, <1>2, ElementOfSeq
<1> SUFFICES ASSUME NEW x \in DOMAIN f
             PROVE  /\ f[x].copies = <<>>
                    /\ Len(f[x].targets) \in Nat /\ Len(f[x].targets) <= 2
                    /\ DOMAIN f[x].targets = 1 .. Len(f[x].targets)
                    /\ \A k \in DOMAIN f[x].targets : f[x].targets[k] \in DOMAIN f
                    /\ \A i, j \in DOMAIN f[x].phis : f[x].phis[i].dest = f[x].phis[j].dest => i = j
                    /\ \A i \in DOMAIN f[x].phis :
                         /\ f[x].phis[i].dest \in Reg
                         /\ \A q \in DOMAIN f[x].phis[i].in : f[x].phis[i].in[q] \in Source
  BY <1>2, <1>3
<1>4. f[x].copies = <<>> /\ f[x].targets \in Seq(DOMAIN f) /\ f[x].phis \in Seq(Phi(f))
  BY <1>3
<1>5. /\ Len(f[x].targets) <= 2
      /\ \A i, j \in DOMAIN f[x].phis : f[x].phis[i].dest = f[x].phis[j].dest => i = j
  BY FunctionsAssumption
<1>6. /\ Len(f[x].targets) \in Nat /\ DOMAIN f[x].targets = 1 .. Len(f[x].targets)
      /\ \A k \in DOMAIN f[x].targets : f[x].targets[k] \in DOMAIN f
  BY <1>4, LenProperties, ElementOfSeq
<1>7. \A i \in DOMAIN f[x].phis : f[x].phis[i] \in Phi(f)
  <2> DEFINE P == Phi(f)
  <2>1. f[x].phis \in Seq(P)
    BY <1>4
  <2> HIDE DEF P
  <2>2. \A i \in DOMAIN f[x].phis : f[x].phis[i] \in P
    BY <2>1, LenProperties, ElementOfSeq
  <2> QED BY <2>2 DEF P
<1>8. ASSUME NEW i \in DOMAIN f[x].phis
      PROVE  /\ f[x].phis[i].dest \in Reg
             /\ \A q \in DOMAIN f[x].phis[i].in : f[x].phis[i].in[q] \in Source
  <2>1. f[x].phis[i].dest \in Reg /\ f[x].phis[i].in \in UNION {[P -> Source] : P \in SUBSET (DOMAIN f)}
    BY <1>7, <1>8 DEF Phi
  <2> QED BY <2>1
<1> QED BY <1>4, <1>5, <1>6, <1>8

\* In a finite set of edges, each has a place of its own by the order, and
\* every place is taken.
LEMMA Ranks ==
  ASSUME NEW S \in SUBSET (Nat \X Nat), IsFiniteSet(S)
  PROVE  /\ Cardinality(S) \in Nat
         /\ \A i \in 1 .. Cardinality(S) : \E e \in S : Cardinality({d \in S : EarlierEdge(d, e)}) = i - 1
         /\ \A e \in S : \E i \in 1 .. Cardinality(S) : Cardinality({d \in S : EarlierEdge(d, e)}) = i - 1
         /\ \A d, e \in S : Cardinality({c \in S : EarlierEdge(c, d)}) = Cardinality({c \in S : EarlierEdge(c, e)}) => d = e
<1> DEFINE Below(e) == {d \in S : EarlierEdge(d, e)}
           n == Cardinality(S)
<1>1. n \in Nat
  BY FS_CardinalityType
<1>2. \A e \in S : IsFiniteSet(Below(e)) /\ Cardinality(Below(e)) \in Nat /\ Cardinality(Below(e)) < n
  <2> SUFFICES ASSUME NEW e \in S
               PROVE  IsFiniteSet(Below(e)) /\ Cardinality(Below(e)) \in Nat /\ Cardinality(Below(e)) < n
    OBVIOUS
  <2>1. Below(e) \in SUBSET S /\ e \notin Below(e)
    BY DEF EarlierEdge
  <2> HIDE DEF Below
  <2>2. IsFiniteSet(Below(e)) /\ Cardinality(Below(e)) <= n /\ (n = Cardinality(Below(e)) => S = Below(e))
    BY <2>1, FS_Subset
  <2>3. Cardinality(Below(e)) \in Nat
    BY <2>2, FS_CardinalityType
  <2> QED BY <1>1, <2>1, <2>2, <2>3
<1>3. ASSUME NEW d \in S, NEW e \in S, EarlierEdge(d, e)
      PROVE  Cardinality(Below(d)) < Cardinality(Below(e))
  <2>1. Below(d) \in SUBSET Below(e)
    BY <1>3 DEF EarlierEdge
  <2>2. d \in Below(e) /\ d \notin Below(d)
    BY <1>3 DEF EarlierEdge
  <2> HIDE DEF Below
  <2>3. /\ Cardinality(Below(d)) <= Cardinality(Below(e))
        /\ Cardinality(Below(e)) = Cardinality(Below(d)) => Below(e) = Below(d)
    BY <1>2, <2>1, FS_Subset
  <2> QED BY <1>2, <2>2, <2>3
<1>4. \A d, e \in S : d = e \/ EarlierEdge(d, e) \/ EarlierEdge(e, d)
  BY DEF EarlierEdge
<1>5. \A d, e \in S : Cardinality(Below(d)) = Cardinality(Below(e)) => d = e
  <2> HIDE DEF Below
  <2> QED BY <1>2, <1>3, <1>4
<1> DEFINE r == [e \in S |-> Cardinality(Below(e)) + 1]
<1>6. r \in Injection(S, 1 .. n)
  <2>1. r \in [S -> 1 .. n]
    <3> HIDE DEF Below, n
    <3> QED BY <1>1, <1>2
  <2>2. \A d, e \in S : r[d] = r[e] => d = e
    <3> HIDE DEF Below
    <3> QED BY <1>2, <1>5
  <2> HIDE DEF r
  <2> QED BY <2>1, <2>2 DEF Injection, IsInjective
<1>7. IsFiniteSet(1 .. n) /\ Cardinality(1 .. n) = n
  <2> HIDE DEF n
  <2> QED BY <1>1, FS_Interval
<1>8. r \in Surjection(S, 1 .. n)
  <2> HIDE DEF r
  <2> QED BY <1>6, <1>7, FS_Injection
<1>9. \A i \in 1 .. n : \E e \in S : r[e] = i
  <2> HIDE DEF r
  <2> QED BY <1>8 DEF Surjection
<1>10. \A i \in 1 .. n : \E e \in S : Cardinality(Below(e)) = i - 1
  <2> SUFFICES ASSUME NEW i \in 1 .. n PROVE \E e \in S : Cardinality(Below(e)) = i - 1
    OBVIOUS
  <2>1. PICK e \in S : Cardinality(Below(e)) + 1 = i
    BY <1>9
  <2>2. Cardinality(Below(e)) \in Nat
    BY <1>2
  <2> HIDE DEF Below
  <2> QED BY <2>1, <2>2
<1>11. \A e \in S : \E i \in 1 .. n : Cardinality(Below(e)) = i - 1
  <2> SUFFICES ASSUME NEW e \in S PROVE \E i \in 1 .. n : Cardinality(Below(e)) = i - 1
    OBVIOUS
  <2> HIDE DEF Below, n
  <2> QED BY <1>1, <1>2
<1> QED BY <1>1, <1>5, <1>10, <1>11

\* The predecessors of a block are the blocks with an edge to it, and one
\* with a single edge is there once.
PredsRight(f, y) ==
    /\ RebuildPreds(f)[y] \in Seq(DOMAIN f)
    /\ \A i \in DOMAIN RebuildPreds(f)[y] :
         \E k \in DOMAIN f[RebuildPreds(f)[y][i]].targets : f[RebuildPreds(f)[y][i]].targets[k] = y
    /\ \A x \in DOMAIN f : \A k \in DOMAIN f[x].targets :
         f[x].targets[k] = y => \E i \in DOMAIN RebuildPreds(f)[y] : RebuildPreds(f)[y][i] = x
    /\ \A i, j \in DOMAIN RebuildPreds(f)[y] :
         RebuildPreds(f)[y][i] = RebuildPreds(f)[y][j] /\ SuccCount(f, RebuildPreds(f)[y][i]) = 1 => i = j

LEMMA PredsAre ==
  ASSUME NEW f \in Functions0, NEW y \in DOMAIN f
  PROVE  PredsRight(f, y)
<1> DEFINE S == InEdges(f, y)
           n == Cardinality(S)
           ps == RebuildPreds(f)[y]
<1>1. DOMAIN f = 1 .. Len(f) /\ Len(f) \in Nat
  BY FunctionsAre
<1>2. S \in SUBSET (Nat \X Nat) /\ IsFiniteSet(S)
  <2>1. S \in SUBSET ((DOMAIN f) \X {1, 2})
    BY DEF InEdges
  <2>2. {1, 2} = 1 .. 2
    OBVIOUS
  <2>3. IsFiniteSet(DOMAIN f) /\ IsFiniteSet({1, 2})
    <3> DEFINE m == Len(f)
    <3>1. m \in Int
      BY <1>1
    <3> HIDE DEF m
    <3>2. IsFiniteSet(1 .. m)
      BY <3>1, FS_Interval
    <3> DEFINE two == 2
    <3>3. two \in Int
      OBVIOUS
    <3> HIDE DEF two
    <3>4. IsFiniteSet(1 .. two)
      BY <3>3, FS_Interval
    <3> QED BY <1>1, <2>2, <3>2, <3>4 DEF m, two
  <2>4. IsFiniteSet((DOMAIN f) \X {1, 2})
    BY <2>3, FS_Product
  <2> HIDE DEF S
  <2> QED BY <1>1, <2>1, <2>4, FS_Subset
<1>3. /\ n \in Nat
      /\ \A i \in 1 .. n : \E e \in S : Cardinality({d \in S : EarlierEdge(d, e)}) = i - 1
      /\ \A e \in S : \E i \in 1 .. n : Cardinality({d \in S : EarlierEdge(d, e)}) = i - 1
      /\ \A d, e \in S : Cardinality({c \in S : EarlierEdge(c, d)}) = Cardinality({c \in S : EarlierEdge(c, e)}) => d = e
  <2> HIDE DEF S
  <2> QED BY <1>2, Ranks
<1>4. \A i \in 1 .. n : InEdge(f, y, i) \in S /\ Cardinality({d \in S : EarlierEdge(d, InEdge(f, y, i))}) = i - 1
  <2> SUFFICES ASSUME NEW i \in 1 .. n
               PROVE  InEdge(f, y, i) \in S /\ Cardinality({d \in S : EarlierEdge(d, InEdge(f, y, i))}) = i - 1
    OBVIOUS
  <2>1. \E e \in S : Cardinality({d \in S : EarlierEdge(d, e)}) = i - 1
    BY <1>3
  <2>2. InEdge(f, y, i) = CHOOSE e \in S : Cardinality({d \in S : EarlierEdge(d, e)}) = i - 1
    BY DEF InEdge
  <2> HIDE DEF S
  <2> QED BY <2>1, <2>2
<1>5. ps = [i \in 1 .. n |-> InEdge(f, y, i)[1]]
  BY DEF RebuildPreds
<1>6. DOMAIN ps = 1 .. n /\ \A i \in 1 .. n : ps[i] = InEdge(f, y, i)[1]
  BY <1>5
<1>7. \A e \in S : e = <<e[1], e[2]>> /\ e[1] \in DOMAIN f /\ e[2] \in DOMAIN f[e[1]].targets /\ f[e[1]].targets[e[2]] = y
  BY DEF InEdges
<1>8. ps \in Seq(DOMAIN f)
  <2>1. \A i \in 1 .. n : InEdge(f, y, i)[1] \in DOMAIN f
    BY <1>4, <1>7
  <2> HIDE DEF n, S, ps
  <2> QED BY <1>3, <1>5, <2>1
<1>9. ASSUME NEW i \in DOMAIN ps
      PROVE  \E k \in DOMAIN f[ps[i]].targets : f[ps[i]].targets[k] = y
  <2> DEFINE e == InEdge(f, y, i)
  <2>1. ps[i] = e[1] /\ e \in S
    BY <1>4, <1>6
  <2>2. e[2] \in DOMAIN f[e[1]].targets /\ f[e[1]].targets[e[2]] = y
    BY <1>7, <2>1
  <2> HIDE DEF e, ps, S
  <2> QED BY <2>1, <2>2
<1>10. ASSUME NEW x \in DOMAIN f, NEW k \in DOMAIN f[x].targets, f[x].targets[k] = y
       PROVE  \E i \in DOMAIN ps : ps[i] = x
  <2>1. <<x, k>> \in S
    <3>1. DOMAIN f[x].targets = 1 .. Len(f[x].targets) /\ Len(f[x].targets) \in Nat /\ Len(f[x].targets) <= 2
      BY FunctionsAre
    <3>2. k \in 1 .. Len(f[x].targets)
      BY <3>1
    <3>3. k \in {1, 2}
      BY <3>1, <3>2
    <3> QED BY <1>10, <3>3 DEF InEdges
  <2>2. PICK i \in 1 .. n : Cardinality({d \in S : EarlierEdge(d, <<x, k>>)}) = i - 1
    BY <1>3, <2>1
  <2>3. InEdge(f, y, i) = <<x, k>>
    <3>1. /\ InEdge(f, y, i) \in S
          /\ Cardinality({d \in S : EarlierEdge(d, InEdge(f, y, i))}) = Cardinality({d \in S : EarlierEdge(d, <<x, k>>)})
      BY <1>4, <2>2
    <3> HIDE DEF S, n
    <3> QED BY <1>3, <2>1, <3>1
  <2> QED BY <1>6, <2>2, <2>3
<1>11. ASSUME NEW i \in DOMAIN ps, NEW j \in DOMAIN ps, ps[i] = ps[j], SuccCount(f, ps[i]) = 1
       PROVE  i = j
  <2>1. i \in 1 .. n /\ j \in 1 .. n
    BY <1>6
  <2>2. InEdge(f, y, i) \in S /\ InEdge(f, y, j) \in S
    BY <1>4, <2>1
  <2>3. InEdge(f, y, i)[1] = ps[i] /\ InEdge(f, y, j)[1] = ps[j]
    BY <1>6, <2>1
  <2>4. DOMAIN f[ps[i]].targets = {1}
    <3>1. ps[i] \in DOMAIN f
      BY <1>7, <2>2, <2>3
    <3>2. DOMAIN f[ps[i]].targets = 1 .. 1
      BY <1>11, <3>1, FunctionsAre DEF SuccCount
    <3>3. 1 .. 1 = {1}
      OBVIOUS
    <3> QED BY <3>2, <3>3
  <2>5. InEdge(f, y, i) = InEdge(f, y, j)
    <3> HIDE DEF S, ps
    <3> QED BY <1>7, <1>11, <2>2, <2>3, <2>4
  <2>6. i - 1 = j - 1
    BY <1>4, <2>1, <2>5
  <2> QED BY <1>3, <2>1, <2>6
<1> QED BY <1>8, <1>9, <1>10, <1>11 DEF PredsRight

-----------------------------------------------------------------------------
(* The inductive invariant.                                                *)

Operand == [kind : {"reg"}, num : Nat] \cup [kind : {"const"}, num : Val]
Copy == [dest : Nat, src : Operand]
PhiLists == {func0[x].phis : x \in DOMAIN func0} \cup {NoPhis}
BlockType == [phis : PhiLists, copies : Seq(Copy), targets : Seq(Nat)]

TypeInv ==
    /\ func0 \in Functions0
    /\ func \in Seq(BlockType) /\ Len(func) >= Len(func0)
    /\ b \in Nat \ {0} /\ p \in Nat \ {0}
    /\ nextReg \in Nat /\ nextReg >= NumRegs

\* The pass works with the predecessors of the function as it found it.
PredsInv ==
    status # "run" =>
        /\ preds \in Seq(Seq(Nat)) /\ Len(preds) >= Len(func0)
        /\ \A y \in DOMAIN func0 : preds[y] = RebuildPreds(func0)[y]

\* The blocks not reached yet have their phis; no other block has any.
PhisInv ==
    \A x \in DOMAIN func : func[x].phis = IF x \in b .. Len(func0) THEN func0[x].phis ELSE NoPhis

\* The copies for the edges from x to y have been placed.
Done(x, y) ==
    \/ y < b
    \/ y = b /\ status \in {"edges", "emit"} /\ \E i \in 1 .. p - 1 : preds[y][i] = x

\* The k-th edge of x leads to its block as before, or through a block of
\* its own.
Direct(x, k) ==
    LET y == func0[x].targets[k]
    IN  func[x].targets[k] = y /\ (y = b /\ Done(x, y) => SuccCount(func0, x) = 1)
Bridged(x, k) ==
    LET y == func0[x].targets[k]
        t == func[x].targets[k]
    IN  /\ t \in Len(func0) + 1 .. Len(func) /\ func[t].targets = <<y>>
        /\ SuccCount(func0, x) # 1
        /\ Done(x, y) \/ (status = "emit" /\ y = b /\ x = preds[b][p] /\ t = ins)

\* What runs on that edge.
EdgeCode(x, k) ==
    IF func[x].targets[k] > Len(func0) THEN func[func[x].targets[k]].copies ELSE func[x].copies

\* The copies do on a register file e what the phis do on f, for files that
\* agree on the function's registers, whatever the temporaries hold.
Agree(e, f) == Reg \subseteq DOMAIN e /\ Reg \subseteq DOMAIN f /\ \A r \in Reg : e[r] = f[r]
Correct(cs, phis, x) == \A e, f : Agree(e, f) => Agree(RunCopies(cs, e), RunPhis(phis, x, f))

EdgeInv(x, k) ==
    LET y == func0[x].targets[k]
    IN  /\ Direct(x, k) \/ Bridged(x, k)
        /\ Done(x, y) => Correct(EdgeCode(x, k), func0[y].phis, x)
        /\ ~Done(x, y) => func[x].copies = <<>>

EdgesInv ==
    \A x \in DOMAIN func0 :
        /\ DOMAIN func[x].targets = DOMAIN func0[x].targets
        /\ SuccCount(func0, x) # 1 => func[x].copies = <<>>
        /\ \A k \in DOMAIN func0[x].targets : EdgeInv(x, k)

EnteredInv ==
    status \in {"edges", "emit"} =>
        /\ b \in DOMAIN func0
        /\ \A i \in DOMAIN func0[b].phis, q \in DOMAIN preds[b] :
             HasIncoming(func0[b].phis[i], preds[b][q])

\* Where the copies of the current edge will go: nothing is there yet, and
\* only that edge passes there.
InsInv ==
    LET x == preds[b][p]
    IN  /\ SuccCount(func0, x) = 1 => ins = x
        /\ SuccCount(func0, x) # 1 =>
             /\ ins \in Len(func0) + 1 .. Len(func) /\ func[ins].copies = <<>>
             /\ \A k \in DOMAIN func0[x].targets :
                  func0[x].targets[k] = b /\ ~Done(x, b) => func[x].targets[k] = ins
             /\ \A z \in DOMAIN func0 : \A k \in DOMAIN func0[z].targets :
                  func[z].targets[k] = ins => z = x /\ func0[z].targets[k] = b

CopiesInv ==
    LET x == preds[b][p]
        phis == func0[b].phis
    IN  /\ DOMAIN copies0 = DOMAIN phis /\ DOMAIN copies = DOMAIN phis
        /\ \A i \in DOMAIN phis :
             /\ copies0[i] = [dest |-> phis[i].dest, src |-> phis[i].in[x]]
             /\ copies[i].dest = phis[i].dest
             /\ copies[i].src \in Operand
             /\ copies[i].src.kind = "reg" => copies[i].src.num < nextReg
        /\ done \subseteq DOMAIN phis
        /\ mode = "done" => done = DOMAIN phis
        /\ code \in Seq(Copy)

\* What the copies emitted so far do, on any register file.
Delivers(e, o) ==
    /\ Reg \subseteq DOMAIN o
    /\ \A i \in DOMAIN copies :
         IF i \in done
           THEN o[copies0[i].dest] = Eval(copies0[i].src, e)
           ELSE /\ copies[i].src.kind = "reg" => copies[i].src.num \in DOMAIN o
                /\ Eval(copies[i].src, o) = Eval(copies0[i].src, e)
    /\ \A r \in Reg : (\A i \in DOMAIN copies : copies0[i].dest # r) => o[r] = e[r]

CodeInv == \A e : Reg \subseteq DOMAIN e => Delivers(e, RunCopies(code, e))

EmitInv ==
    status = "emit" => p \in DOMAIN preds[b] /\ InsInv /\ CopiesInv /\ CodeInv

RunInv ==
    /\ sat = tat /\ sat \in DOMAIN func0
    /\ Agree(tenv, senv)
    /\ status = "run" => b > Len(func0)

Inv == TypeInv /\ PredsInv /\ PhisInv /\ EdgesInv /\ EnteredInv /\ EmitInv /\ RunInv


LEMMA Facts ==
  ASSUME TypeInv
  PROVE  /\ func0 \in Functions0 /\ DOMAIN func0 = 1 .. Len(func0) /\ Len(func0) \in Nat \ {0}
         /\ DOMAIN func = 1 .. Len(func) /\ Len(func) \in Nat /\ Len(func) >= Len(func0)
         /\ \A x \in DOMAIN func0 : x \in DOMAIN func
         /\ \A x \in DOMAIN func : func[x] \in BlockType
         /\ b \in Nat \ {0} /\ p \in Nat \ {0}
<1>1. /\ func0 \in Functions0 /\ func \in Seq(BlockType) /\ Len(func) >= Len(func0)
      /\ b \in Nat \ {0} /\ p \in Nat \ {0}
  BY DEF TypeInv
<1>2. DOMAIN func0 = 1 .. Len(func0) /\ Len(func0) \in Nat \ {0}
  BY <1>1, FunctionsAre
<1>3. DOMAIN func = 1 .. Len(func) /\ Len(func) \in Nat
  BY <1>1, LenProperties
<1>4. \A x \in DOMAIN func : func[x] \in BlockType
  BY <1>1, <1>3, ElementOfSeq
<1>5. \A x \in DOMAIN func0 : x \in DOMAIN func
  BY <1>1, <1>2, <1>3
<1> QED BY <1>1, <1>2, <1>3, <1>4, <1>5

LEMMA InitInv == Init => Inv
<1> SUFFICES ASSUME Init PROVE Inv
  OBVIOUS
<1>1. /\ func0 \in Functions0 /\ func = func0 /\ preds = RebuildPreds(func0)
      /\ b = 1 /\ p = 1 /\ status = "blocks" /\ sat = 1 /\ tat = 1
      /\ senv = [r \in Reg |-> r] /\ tenv = senv /\ nextReg = NumRegs
  BY DEF Init, BeginCopies
<1>2. DOMAIN func0 = 1 .. Len(func0) /\ Len(func0) \in Nat \ {0}
  BY <1>1, FunctionsAre
<1>3. \A x \in DOMAIN func0 : func0[x] \in BlockType /\ func0[x].copies = <<>>
  <2> SUFFICES ASSUME NEW x \in DOMAIN func0 PROVE func0[x] \in BlockType /\ func0[x].copies = <<>>
    OBVIOUS
  <2> DEFINE P == Seq(Phi(func0))
  <2>1. func0[x] \in [phis : P, copies : {<<>>}, targets : Seq(DOMAIN func0)] /\ func0[x].copies = <<>>
    BY <1>1, FunctionsAre
  <2>2. func0[x].targets \in Seq(Nat)
    <3>1. func0[x].targets \in Seq(DOMAIN func0)
      <4> HIDE DEF P
      <4> QED BY <2>1
    <3>2. DOMAIN func0 \subseteq Nat
      BY <1>2
    <3> QED BY <3>1, <3>2
  <2>3. func0[x] = [phis |-> func0[x].phis, copies |-> <<>>, targets |-> func0[x].targets]
    <3> HIDE DEF P
    <3> QED BY <2>1
  <2>4. func0[x].phis \in PhiLists /\ <<>> \in Seq(Copy)
    BY DEF PhiLists
  <2> HIDE DEF P
  <2> QED BY <2>1, <2>2, <2>3, <2>4 DEF BlockType
<1>4. TypeInv
  <2>1. func0 \in Seq(BlockType)
    <3> DEFINE B == [phis : Seq(Phi(func0)), copies : {<<>>}, targets : Seq(DOMAIN func0)]
    <3>1. func0 \in Seq(B)
      BY <1>1, FunctionsAssumption
    <3> HIDE DEF B
    <3>2. func0 = [x \in 1 .. Len(func0) |-> func0[x]]
      BY <1>2, <3>1, LenProperties
    <3>3. func0 \in [1 .. Len(func0) -> BlockType]
      BY <1>2, <1>3, <3>2
    <3> QED BY <1>2, <3>3, SeqDef
  <2> QED BY <1>1, <1>2, <2>1, RegsAssumption DEF TypeInv
<1>5. PredsInv
  <2>1. \A y \in DOMAIN func0 : RebuildPreds(func0)[y] \in Seq(Nat)
    <3> SUFFICES ASSUME NEW y \in DOMAIN func0 PROVE RebuildPreds(func0)[y] \in Seq(Nat)
      OBVIOUS
    <3>1. RebuildPreds(func0)[y] \in Seq(DOMAIN func0)
      BY <1>1, PredsAre DEF PredsRight
    <3>2. DOMAIN func0 \subseteq Nat
      BY <1>2
    <3> QED BY <3>1, <3>2
  <2>2. DOMAIN RebuildPreds(func0) = DOMAIN func0 /\ RebuildPreds(func0) = [y \in DOMAIN func0 |-> RebuildPreds(func0)[y]]
    BY DEF RebuildPreds
  <2>3. preds \in [1 .. Len(func0) -> Seq(Nat)]
    BY <1>1, <1>2, <2>1, <2>2
  <2>4. preds \in Seq(Seq(Nat)) /\ Len(preds) = Len(func0)
    BY <1>2, <2>3
  <2> QED BY <1>1, <1>2, <2>4 DEF PredsInv
<1>6. PhisInv
  BY <1>1, <1>2 DEF PhisInv
<1>7. \A x, y \in DOMAIN func0 : ~Done(x, y)
  BY <1>1, <1>2 DEF Done
<1>8. EdgesInv
  <2> SUFFICES ASSUME NEW x \in DOMAIN func0, NEW k \in DOMAIN func0[x].targets
               PROVE  EdgeInv(x, k)
    BY <1>1, <1>3 DEF EdgesInv
  <2>1. func0[x].targets[k] \in DOMAIN func0
    BY <1>1, FunctionsAre
  <2> QED BY <1>1, <1>3, <1>7, <2>1 DEF EdgeInv, Direct
<1>9. EnteredInv /\ EmitInv
  BY <1>1 DEF EnteredInv, EmitInv
<1>10. RunInv
  <2>1. DOMAIN senv = Reg /\ DOMAIN tenv = Reg
    BY <1>1
  <2> QED BY <1>1, <1>2, <2>1 DEF RunInv, Agree
<1> QED BY <1>4, <1>5, <1>6, <1>8, <1>9, <1>10 DEF Inv

LEMMA EdgeFacts ==
  ASSUME TypeInv, EdgesInv, NEW x \in DOMAIN func0, NEW k \in DOMAIN func0[x].targets
  PROVE  /\ func0[x].targets[k] \in DOMAIN func0
         /\ func0[x].targets[k] \in Nat /\ func0[x].targets[k] <= Len(func0)
         /\ x \in DOMAIN func /\ x \in Nat
         /\ EdgeInv(x, k)
<1>1. func0[x].targets[k] \in DOMAIN func0
  BY Facts, FunctionsAre
<1>2. DOMAIN func0 = 1 .. Len(func0) /\ Len(func0) \in Nat /\ x \in DOMAIN func
  BY Facts
<1> QED BY <1>1, <1>2 DEF EdgesInv

\* The edges when a step leaves targets and copies alone: what is done stays
\* done, and what became done is right.
LEMMA EdgesFrame ==
  ASSUME TypeInv, EdgesInv, func0' = func0, Len(func') = Len(func),
         \A x \in DOMAIN func : func'[x].targets = func[x].targets /\ func'[x].copies = func[x].copies,
         \A x, y \in DOMAIN func0 : \A k \in DOMAIN func0[x].targets :
            func0[x].targets[k] = y =>
              /\ Done(x, y) => Done(x, y)'
              /\ Done(x, y)' /\ ~Done(x, y) => Correct(EdgeCode(x, k), func0[y].phis, x)
              /\ y = b' /\ Done(x, y)' => SuccCount(func0, x) = 1 \/ (y = b /\ Done(x, y)),
         status = "emit" => status' = "emit" /\ b' = b /\ preds'[b'][p'] = preds[b][p] /\ ins' = ins
  PROVE  EdgesInv'
<1> SUFFICES ASSUME NEW x \in DOMAIN func0
             PROVE  /\ DOMAIN func'[x].targets = DOMAIN func0[x].targets
                    /\ SuccCount(func0, x) # 1 => func'[x].copies = <<>>
                    /\ \A k \in DOMAIN func0[x].targets : EdgeInv(x, k)'
  BY DEF EdgesInv, SuccCount
<1>1. x \in DOMAIN func /\ DOMAIN func = 1 .. Len(func) /\ Len(func0) \in Nat /\ Len(func) \in Nat
  BY Facts
<1>2. /\ DOMAIN func'[x].targets = DOMAIN func0[x].targets
      /\ SuccCount(func0, x) # 1 => func'[x].copies = <<>>
  BY <1>1 DEF EdgesInv
<1>3. ASSUME NEW k \in DOMAIN func0[x].targets
      PROVE  EdgeInv(x, k)'
  <2> DEFINE t == func[x].targets[k]
  <2>1. EdgeInv(x, k)
    BY DEF EdgesInv
  <2>0. PICK y \in DOMAIN func0 : y = func0[x].targets[k] /\ y \in Nat /\ y <= Len(func0)
    BY EdgeFacts
  <2>2. func'[x].targets[k] = t /\ func'[x].copies = func[x].copies
    BY <1>1
  <2>3. ASSUME t \in Len(func0) + 1 .. Len(func)
        PROVE  func'[t].targets = func[t].targets /\ func'[t].copies = func[t].copies
    BY <1>1, <2>3
  <2>4. /\ Done(x, y) => Done(x, y)'
        /\ Done(x, y)' /\ ~Done(x, y) => Correct(EdgeCode(x, k), func0[y].phis, x)
        /\ y = b' /\ Done(x, y)' => SuccCount(func0, x) = 1 \/ (y = b /\ Done(x, y))
    BY <2>0
  <2>5. y = b /\ Done(x, y) => t # y \/ SuccCount(func0, x) = 1
    BY <1>1, <2>0, <2>1 DEF EdgeInv, Direct, Bridged
  <2>6. (Direct(x, k) \/ Bridged(x, k))'
    <3>1. CASE Direct(x, k)
      <4>1. t = y
        BY <2>0, <3>1 DEF Direct
      <4>2. y = b' /\ Done(x, y)' => SuccCount(func0, x) = 1
        BY <2>4, <2>5, <4>1
      <4> QED BY <2>0, <2>2, <4>1, <4>2 DEF Direct, SuccCount
    <3>2. CASE Bridged(x, k)
      BY <2>0, <2>2, <2>3, <2>4, <3>2 DEF Bridged, SuccCount
    <3> QED BY <2>1, <3>1, <3>2 DEF EdgeInv
  <2>7. EdgeCode(x, k)' = EdgeCode(x, k)
    <3>1. CASE t > Len(func0)
      <4>2. t \in Len(func0) + 1 .. Len(func)
        BY <1>1, <2>0, <2>1, <3>1 DEF EdgeInv, Direct, Bridged
      <4> QED BY <2>2, <2>3, <3>1, <4>2 DEF EdgeCode
    <3>2. CASE ~(t > Len(func0))
      BY <2>2, <3>2 DEF EdgeCode
    <3> QED BY <3>1, <3>2
  <2>8. Done(x, y)' => Correct(EdgeCode(x, k)', func0[y].phis, x)
    BY <2>0, <2>1, <2>4, <2>7 DEF EdgeInv
  <2>9. (~Done(x, y))' => func'[x].copies = <<>>
    BY <2>0, <2>1, <2>2, <2>4 DEF EdgeInv
  <2> QED BY <2>0, <2>6, <2>8, <2>9 DEF EdgeInv
<1> QED BY <1>2, <1>3

\* Where no copies are needed, none is right.
LEMMA NothingToDo ==
  ASSUME NEW x
  PROVE  Correct(<<>>, NoPhis, x)
<1> SUFFICES ASSUME NEW e, NEW f, Agree(e, f)
             PROVE  Agree(RunCopies(<<>>, e), RunPhis(NoPhis, x, f))
  BY DEF Correct
<1>1. RunCopies(<<>>, e) = e
  BY RunEmpty
<1>2. DOMAIN RunPhis(NoPhis, x, f) = DOMAIN f /\ \A r \in DOMAIN f : RunPhis(NoPhis, x, f)[r] = f[r]
  BY DEF RunPhis, NoPhis
<1> QED BY <1>1, <1>2 DEF Agree

LEMMA SkipBlockInv == Inv /\ SkipBlock => Inv'
<1> SUFFICES ASSUME Inv, SkipBlock PROVE Inv'
  OBVIOUS
<1> USE DEF Inv
<1>1. /\ status = "blocks" /\ b <= Len(func) /\ func[b].phis = NoPhis
      /\ b' = b + 1 /\ status' = status
      /\ UNCHANGED <<func0, func, preds, p, ins, sat, senv, tat, tenv, nextReg>>
  BY DEF SkipBlock, runvars, pcvars
<1>2. /\ DOMAIN func = 1 .. Len(func) /\ Len(func) \in Nat /\ Len(func0) \in Nat
      /\ DOMAIN func0 = 1 .. Len(func0) /\ b \in Nat \ {0}
  BY Facts
<1>3. TypeInv'
  <2>1. b' \in Nat \ {0} /\ BlockType' = BlockType
    BY <1>1, <1>2 DEF BlockType, PhiLists
  <2> QED BY <1>1, <2>1 DEF TypeInv
<1>4. PredsInv'
  BY <1>1 DEF PredsInv
<1>5. PhisInv'
  BY <1>1, <1>2 DEF PhisInv
<1>6. EdgesInv'
  <2> SUFFICES ASSUME NEW x \in DOMAIN func0, NEW k \in DOMAIN func0[x].targets,
                      NEW y \in DOMAIN func0, func0[x].targets[k] = y
               PROVE  /\ Done(x, y) => Done(x, y)'
                      /\ Done(x, y)' /\ ~Done(x, y) => Correct(EdgeCode(x, k), func0[y].phis, x)
                      /\ y = b' /\ Done(x, y)' => SuccCount(func0, x) = 1 \/ (y = b /\ Done(x, y))
    BY <1>1, EdgesFrame
  <2>1. y \in Nat /\ y <= Len(func0) /\ EdgeInv(x, k)
    BY EdgeFacts
  <2>2. (Done(x, y) <=> y < b) /\ (Done(x, y)' <=> y < b')
    BY <1>1 DEF Done
  <2>3. ASSUME Done(x, y)', ~Done(x, y)
        PROVE  Correct(EdgeCode(x, k), func0[y].phis, x)
    <3>1. y = b
      BY <1>1, <1>2, <2>1, <2>2, <2>3
    <3>2. func0[y].phis = NoPhis
      BY <1>1, <1>2, <2>1, <3>1 DEF PhisInv
    <3>3. func[x].targets[k] = y /\ func[x].copies = <<>>
      BY <1>1, <2>1, <2>3 DEF EdgeInv, Direct, Bridged
    <3>4. EdgeCode(x, k) = <<>>
      BY <1>2, <2>1, <3>3 DEF EdgeCode
    <3> QED BY <3>2, <3>4, NothingToDo
  <2> QED BY <1>1, <1>2, <2>1, <2>2, <2>3
<1>7. EnteredInv' /\ EmitInv'
  BY <1>1 DEF EnteredInv, EmitInv
<1>8. RunInv'
  BY <1>1 DEF RunInv
<1> QED BY <1>3, <1>4, <1>5, <1>6, <1>7, <1>8

\* Steps that change neither the function nor the place the pass is at.
LEMMA EdgesStay ==
  ASSUME Inv, UNCHANGED <<func0, func, b>>,
         \A x, y \in DOMAIN func0 : Done(x, y)' <=> Done(x, y),
         status = "emit" => status' = "emit" /\ UNCHANGED <<preds, p, ins>>
  PROVE  EdgesInv'
<1>1. \A x, y \in DOMAIN func0 :
        /\ Done(x, y) => Done(x, y)'
        /\ ~(Done(x, y)' /\ ~Done(x, y))
        /\ y = b' /\ Done(x, y)' => y = b /\ Done(x, y)
  OBVIOUS
<1> QED BY <1>1, EdgesFrame DEF Inv

LEMMA MissingIncomingInv == Inv /\ MissingIncoming => Inv'
<1> SUFFICES ASSUME Inv, MissingIncoming PROVE Inv'
  OBVIOUS
<1>1. /\ status = "blocks" /\ status' = "fail"
      /\ UNCHANGED <<func0, func, preds, b, p, ins, sat, senv, tat, tenv, nextReg>>
  BY DEF MissingIncoming, runvars, pcvars
<1>2. \A x, y \in DOMAIN func0 : Done(x, y)' <=> Done(x, y)
  BY <1>1 DEF Done
<1>3. EdgesInv'
  BY <1>1, <1>2, EdgesStay
<1>4. TypeInv' /\ PredsInv' /\ PhisInv'
  BY <1>1 DEF Inv, TypeInv, BlockType, PhiLists, PredsInv, PhisInv
<1>5. EnteredInv' /\ EmitInv' /\ RunInv'
  BY <1>1 DEF Inv, EnteredInv, EmitInv, RunInv
<1> QED BY <1>3, <1>4, <1>5 DEF Inv

LEMMA EnterBlockInv == Inv /\ EnterBlock => Inv'
<1> SUFFICES ASSUME Inv, EnterBlock PROVE Inv'
  OBVIOUS
<1>1. /\ status = "blocks" /\ status' = "edges" /\ p' = 1
      /\ b <= Len(func) /\ func[b].phis # NoPhis
      /\ \A i \in DOMAIN func[b].phis, q \in DOMAIN preds[b] :
           HasIncoming(func[b].phis[i], preds[b][q])
      /\ UNCHANGED <<func0, func, preds, b, ins, sat, senv, tat, tenv, nextReg>>
  BY DEF EnterBlock, runvars, pcvars
<1>2. /\ DOMAIN func = 1 .. Len(func) /\ Len(func) \in Nat /\ Len(func0) \in Nat
      /\ DOMAIN func0 = 1 .. Len(func0) /\ b \in Nat \ {0}
  BY Facts DEF Inv
<1>3. \A x, y \in DOMAIN func0 : Done(x, y)' <=> Done(x, y)
  <2>1. p' - 1 = 0
    BY <1>1
  <2> QED BY <1>1, <2>1 DEF Done
<1>4. EdgesInv'
  BY <1>1, <1>3, EdgesStay
<1>5. TypeInv' /\ PredsInv' /\ PhisInv'
  BY <1>1 DEF Inv, TypeInv, BlockType, PhiLists, PredsInv, PhisInv
<1>6. EnteredInv'
  <2>1. b \in b .. Len(func0) /\ func[b].phis = func0[b].phis
    <3>1. b \in DOMAIN func
      BY <1>1, <1>2
    <3>2. func[b].phis = IF b \in b .. Len(func0) THEN func0[b].phis ELSE NoPhis
      BY <3>1 DEF Inv, PhisInv
    <3> QED BY <1>1, <3>2
  <2>2. b \in DOMAIN func0
    BY <1>2, <2>1
  <2> QED BY <1>1, <2>1, <2>2 DEF EnteredInv
<1>7. EmitInv' /\ RunInv'
  BY <1>1 DEF Inv, EmitInv, RunInv
<1> QED BY <1>4, <1>5, <1>6, <1>7 DEF Inv

LEMMA FinishFuncInv == Inv /\ FinishFunc => Inv'
<1> SUFFICES ASSUME Inv, FinishFunc PROVE Inv'
  OBVIOUS
<1>1. /\ status = "blocks" /\ status' = "run" /\ b > Len(func)
      /\ UNCHANGED <<func0, func, b, p, ins, sat, senv, tat, tenv, nextReg>>
  BY DEF FinishFunc, runvars, pcvars
<1>2. \A x, y \in DOMAIN func0 : Done(x, y)' <=> Done(x, y)
  BY <1>1 DEF Done
<1>3. EdgesInv'
  BY <1>1, <1>2, EdgesStay
<1>4. TypeInv' /\ PredsInv' /\ PhisInv'
  BY <1>1 DEF Inv, TypeInv, BlockType, PhiLists, PredsInv, PhisInv
<1>5. EnteredInv' /\ EmitInv'
  BY <1>1 DEF EnteredInv, EmitInv
<1>6. RunInv'
  <2>1. b > Len(func0)
    BY <1>1, Facts DEF Inv
  <2> QED BY <1>1, <2>1 DEF Inv, RunInv
<1> QED BY <1>3, <1>4, <1>5, <1>6 DEF Inv

LEMMA RemovePhisInv == Inv /\ RemovePhis => Inv'
<1> SUFFICES ASSUME Inv, RemovePhis PROVE Inv'
  OBVIOUS
<1>1. /\ status = "edges" /\ p > Len(preds[b])
      /\ func' = [func EXCEPT ![b].phis = NoPhis]
      /\ b' = b + 1 /\ status' = "blocks"
      /\ UNCHANGED <<func0, preds, p, ins, sat, senv, tat, tenv, nextReg>>
  BY DEF RemovePhis, runvars, pcvars
<1>2. /\ DOMAIN func = 1 .. Len(func) /\ Len(func) \in Nat /\ Len(func0) \in Nat
      /\ DOMAIN func0 = 1 .. Len(func0) /\ b \in Nat \ {0} /\ p \in Nat \ {0}
      /\ func0 \in Functions0 /\ \A x \in DOMAIN func : func[x] \in BlockType
  BY Facts DEF Inv
<1>3. b \in DOMAIN func0 /\ b \in DOMAIN func
  <2>1. b \in DOMAIN func0
    BY <1>1 DEF Inv, EnteredInv
  <2> QED BY <2>1, Facts DEF Inv
<1> DEFINE new == [func[b] EXCEPT !.phis = NoPhis]
<1>4. /\ new \in BlockType /\ new.phis = NoPhis
      /\ new.targets = func[b].targets /\ new.copies = func[b].copies
  BY <1>2, <1>3 DEF BlockType, PhiLists
<1>5. func' = [func EXCEPT ![b] = new]
  BY <1>1
<1> HIDE DEF new
<1>6. /\ func' \in Seq(BlockType) /\ Len(func') = Len(func)
      /\ \A x \in 1 .. Len(func) : func'[x] = IF x = b THEN new ELSE func[x]
  BY <1>2, <1>3, <1>4, <1>5, ExceptSeq DEF Inv, TypeInv
<1>7. TypeInv'
  <2>1. b' \in Nat \ {0} /\ BlockType' = BlockType
    BY <1>1, <1>2 DEF BlockType, PhiLists
  <2> QED BY <1>1, <1>6, <2>1 DEF Inv, TypeInv
<1>8. PredsInv'
  BY <1>1 DEF Inv, PredsInv
<1>9. PhisInv'
  <2> SUFFICES ASSUME NEW x \in 1 .. Len(func)
               PROVE  func'[x].phis = IF x \in b + 1 .. Len(func0) THEN func0[x].phis ELSE NoPhis
    BY <1>1, <1>6, LenProperties DEF PhisInv
  <2>1. func[x].phis = IF x \in b .. Len(func0) THEN func0[x].phis ELSE NoPhis
    BY <1>2 DEF Inv, PhisInv
  <2>2. CASE x = b
    BY <1>2, <1>4, <1>6, <2>2
  <2>3. CASE x # b
    BY <1>2, <1>6, <2>1, <2>3
  <2> QED BY <2>2, <2>3
<1>10. EdgesInv'
  <2>1. \A x \in DOMAIN func : func'[x].targets = func[x].targets /\ func'[x].copies = func[x].copies
    BY <1>2, <1>4, <1>6
  <2> SUFFICES ASSUME NEW x \in DOMAIN func0, NEW k \in DOMAIN func0[x].targets,
                      NEW y \in DOMAIN func0, func0[x].targets[k] = y
               PROVE  /\ Done(x, y) => Done(x, y)'
                      /\ Done(x, y)' /\ ~Done(x, y) => Correct(EdgeCode(x, k), func0[y].phis, x)
                      /\ y = b' /\ Done(x, y)' => SuccCount(func0, x) = 1 \/ (y = b /\ Done(x, y))
    BY <1>1, <1>6, <2>1, EdgesFrame DEF Inv
  <2>2. y \in Nat
    BY <1>2
  <2>3. y = b => Done(x, y)
    <3> SUFFICES ASSUME y = b PROVE Done(x, y)
      OBVIOUS
    <3>1. preds[b] = RebuildPreds(func0)[b]
      BY <1>1, <1>3 DEF Inv, PredsInv
    <3>2. PICK i \in DOMAIN preds[b] : preds[b][i] = x
      <4>0. PredsRight(func0, b)
        BY <1>2, <1>3, PredsAre
      <4>1. \E i \in DOMAIN RebuildPreds(func0)[b] : RebuildPreds(func0)[b][i] = x
        BY <4>0 DEF PredsRight
      <4> QED BY <3>1, <4>1
    <3>3. preds[b] \in Seq(DOMAIN func0)
      BY <1>2, <1>3, <3>1, PredsAre DEF PredsRight
    <3>4. i \in 1 .. Len(preds[b]) /\ Len(preds[b]) \in Nat
      BY <3>2, <3>3, LenProperties
    <3>5. i \in 1 .. p - 1
      BY <1>1, <1>2, <3>4
    <3> QED BY <1>1, <3>2, <3>5 DEF Done
  <2>4. (Done(x, y) => y <= b) /\ (y < b => Done(x, y)) /\ (Done(x, y)' <=> y < b + 1)
    <3>1. Done(x, y)' <=> y < b + 1
      BY <1>1 DEF Done
    <3>2. Done(x, y) => y < b \/ y = b
      BY DEF Done
    <3>3. y < b => Done(x, y)
      BY DEF Done
    <3> QED BY <1>2, <2>2, <3>1, <3>2, <3>3
  <2> QED BY <1>1, <1>2, <2>2, <2>3, <2>4
<1>11. EnteredInv' /\ EmitInv'
  BY <1>1 DEF EnteredInv, EmitInv
<1>12. RunInv'
  BY <1>1 DEF Inv, RunInv
<1> QED BY <1>7, <1>8, <1>9, <1>10, <1>11, <1>12 DEF Inv

\* Both functions take the same branch: what the copies on the edge leave in
\* the registers is what the phis would.
LEMMA BranchInv == Inv /\ Branch => Inv'
<1> SUFFICES ASSUME Inv, Branch PROVE Inv'
  OBVIOUS
<1>1. /\ status = "run" /\ UNCHANGED <<func0, func, preds, b, p, ins, status, nextReg>>
      /\ sat = tat /\ sat \in DOMAIN func0 /\ Agree(tenv, senv) /\ b > Len(func0)
  BY DEF Inv, Branch, RunInv, pcvars
<1>2. PICK x \in DOMAIN func0 : x = sat
  BY <1>1
<1>3. PICK k \in DOMAIN func0[x].targets :
        LET succ == func0[x].targets[k]
            next == func[x].targets[k]
            onEdge == next > Len(func0)
            out == RunCopies(func[x].copies, tenv)
        IN  /\ sat' = succ
            /\ senv' = RunPhis(func0[succ].phis, x, senv)
            /\ tat' = IF onEdge THEN func[next].targets[1] ELSE next
            /\ tenv' = IF onEdge THEN RunCopies(func[next].copies, out) ELSE out
  BY <1>1, <1>2 DEF Branch
<1>4. PICK y \in DOMAIN func0 : y = func0[x].targets[k]
  BY EdgeFacts DEF Inv
<1>5. y \in Nat /\ y <= Len(func0) /\ EdgeInv(x, k) /\ Len(func0) \in Nat /\ b \in Nat
  BY <1>4, EdgeFacts, Facts DEF Inv
<1>6. Done(x, y)
  BY <1>1, <1>5 DEF Done
<1>7. Correct(EdgeCode(x, k), func0[y].phis, x)
  BY <1>4, <1>5, <1>6 DEF EdgeInv
<1>8. sat' = y /\ tat' = y /\ tenv' = RunCopies(EdgeCode(x, k), tenv)
  <2>1. CASE func[x].targets[k] > Len(func0)
    <3>1. Bridged(x, k)
      BY <1>4, <1>5, <2>1 DEF EdgeInv, Direct
    <3>2. func[func[x].targets[k]].targets = <<y>> /\ func[x].copies = <<>>
      BY <1>4, <3>1 DEF Bridged, Inv, EdgesInv
    <3>3. RunCopies(func[x].copies, tenv) = tenv
      BY <3>2, RunEmpty
    <3> QED BY <1>3, <1>4, <2>1, <3>2, <3>3 DEF EdgeCode
  <2>2. CASE ~(func[x].targets[k] > Len(func0))
    <3>1. func[x].targets[k] = y
      BY <1>4, <1>5, <2>2 DEF EdgeInv, Direct, Bridged
    <3> QED BY <1>3, <1>4, <2>2, <3>1 DEF EdgeCode
  <2> QED BY <2>1, <2>2
<1>9. senv' = RunPhis(func0[y].phis, x, senv)
  BY <1>3, <1>4
<1>10. RunInv'
  <2>1. Agree(tenv', senv')
    BY <1>1, <1>7, <1>8, <1>9 DEF Correct
  <2>2. Agree(tenv, senv)'
    BY <2>1 DEF Agree
  <2> QED BY <1>1, <1>8, <2>2 DEF RunInv
<1>11. \A z, y1 \in DOMAIN func0 : Done(z, y1)' <=> Done(z, y1)
  BY <1>1 DEF Done
<1>12. EdgesInv'
  BY <1>1, <1>11, EdgesStay
<1>13. TypeInv' /\ PredsInv' /\ PhisInv'
  BY <1>1 DEF Inv, TypeInv, BlockType, PhiLists, PredsInv, PhisInv
<1>14. EnteredInv' /\ EmitInv'
  BY <1>1 DEF EnteredInv, EmitInv
<1> QED BY <1>10, <1>12, <1>13, <1>14 DEF Inv

-----------------------------------------------------------------------------
(* The copies of one edge.                                                 *)

\* The edge the pass is at: from x to b.
LEMMA CurrentEdge ==
  ASSUME Inv, status \in {"edges", "emit"}, p \in 1 .. Len(preds[b])
  PROVE  \E x \in DOMAIN func0 :
           /\ x = preds[b][p] /\ b \in DOMAIN func0 /\ p \in DOMAIN preds[b]
           /\ preds[b] = RebuildPreds(func0)[b] /\ DOMAIN preds[b] = 1 .. Len(preds[b])
           /\ \E k \in DOMAIN func0[x].targets : func0[x].targets[k] = b
           /\ SuccCount(func0, x) = 1 =>
                /\ ~ \E i \in 1 .. p - 1 : preds[b][i] = x
                /\ \A k \in DOMAIN func0[x].targets : func0[x].targets[k] = b
           /\ \A i \in DOMAIN func0[b].phis :
                func0[b].phis[i].dest \in Reg /\ func0[b].phis[i].in[x] \in Source
<1>1. b \in DOMAIN func0 /\ preds[b] = RebuildPreds(func0)[b] /\ func0 \in Functions0
  <2>1. b \in DOMAIN func0
    BY DEF Inv, EnteredInv
  <2> QED BY <2>1, Facts DEF Inv, PredsInv
<1>2. PredsRight(func0, b)
  BY <1>1, PredsAre
<1>3. preds[b] \in Seq(DOMAIN func0)
  BY <1>1, <1>2 DEF PredsRight
<1>4. DOMAIN preds[b] = 1 .. Len(preds[b]) /\ Len(preds[b]) \in Nat
  BY <1>3, LenProperties
<1>5. PICK x \in DOMAIN func0 : x = preds[b][p]
  BY <1>3, ElementOfSeq
<1>6. \E k \in DOMAIN func0[x].targets : func0[x].targets[k] = b
  BY <1>1, <1>2, <1>4, <1>5 DEF PredsRight
<1>7. ASSUME SuccCount(func0, x) = 1
      PROVE  /\ ~ \E i \in 1 .. p - 1 : preds[b][i] = x
             /\ \A k \in DOMAIN func0[x].targets : func0[x].targets[k] = b
  <2>1. \A i \in DOMAIN preds[b] : preds[b][i] = x => i = p
    BY <1>1, <1>2, <1>4, <1>5, <1>7 DEF PredsRight
  <2>2. \A i \in 1 .. p - 1 : i \in DOMAIN preds[b] /\ i # p
    BY <1>4
  <2>3. DOMAIN func0[x].targets = 1 .. 1
    BY <1>1, <1>7, FunctionsAre DEF SuccCount
  <2>4. \A k \in 1 .. 1 : k = 1
    OBVIOUS
  <2> QED BY <1>6, <2>1, <2>2, <2>3, <2>4
<1>8. \A i \in DOMAIN func0[b].phis :
        func0[b].phis[i].dest \in Reg /\ func0[b].phis[i].in[x] \in Source
  <2>1. \A i \in DOMAIN func0[b].phis : x \in DOMAIN func0[b].phis[i].in
    BY <1>4, <1>5 DEF Inv, EnteredInv, HasIncoming
  <2> QED BY <1>1, <2>1, FunctionsAre
<1> QED BY <1>1, <1>4, <1>5, <1>6, <1>7, <1>8

\* One copy more: c after o gives o2.
IsAfter(o2, o, c) ==
    /\ DOMAIN o2 = DOMAIN o \cup {c.dest}
    /\ o2[c.dest] = Eval(c.src, o)
    /\ \A r \in DOMAIN o : r # c.dest => o2[r] = o[r]

LEMMA OneMore ==
  ASSUME NEW cs \in Seq(Copy), NEW c \in Copy, NEW e,
         NEW o, o = RunCopies(cs, e), NEW o2, o2 = RunCopies(Append(cs, c), e)
  PROVE  IsAfter(o2, o, c)
<1>1. o2 = Assign(o, c)
  BY RunAppend
<1>2. o2 = [r \in DOMAIN o \cup {c.dest} |-> IF r = c.dest THEN Eval(c.src, o) ELSE o[r]]
  BY <1>1 DEF Assign
<1> QED BY <1>2 DEF IsAfter

\* A source reads the same where its register has kept its value.
LEMMA EvalKept ==
  ASSUME NEW s \in Operand, NEW o, NEW o2,
         s.kind = "reg" => o2[s.num] = o[s.num]
  PROVE  Eval(s, o2) = Eval(s, o)
BY DEF Eval

LEMMA EmitFacts ==
  ASSUME Inv, status = "emit"
  PROVE  /\ Index = DOMAIN func0[b].phis /\ DOMAIN copies0 = Index /\ done \subseteq Index
         /\ code \in Seq(Copy) /\ nextReg \in Nat
         /\ \A r \in Reg : r \in Nat /\ r < nextReg
         /\ \A i \in Index :
              /\ copies[i].dest \in Reg /\ copies0[i].dest = copies[i].dest
              /\ copies0[i] = [dest |-> func0[b].phis[i].dest, src |-> func0[b].phis[i].in[preds[b][p]]]
              /\ copies[i].src \in Operand
              /\ copies[i].src.kind = "reg" => copies[i].src.num < nextReg
         /\ \A i, j \in Index : copies0[i].dest = copies0[j].dest => i = j
<1>1. CopiesInv /\ p \in DOMAIN preds[b] /\ b \in DOMAIN func0 /\ func0 \in Functions0
  BY Facts DEF Inv, EmitInv, EnteredInv
<1>2. /\ Index = DOMAIN func0[b].phis /\ DOMAIN copies0 = Index /\ done \subseteq Index
      /\ code \in Seq(Copy)
      /\ \A i \in Index :
           /\ copies0[i] = [dest |-> func0[b].phis[i].dest, src |-> func0[b].phis[i].in[preds[b][p]]]
           /\ copies[i].dest = func0[b].phis[i].dest
           /\ copies[i].src \in Operand
           /\ copies[i].src.kind = "reg" => copies[i].src.num < nextReg
  BY <1>1 DEF CopiesInv, Index
<1>3. \A i \in Index : func0[b].phis[i].dest \in Reg
  BY <1>1, <1>2, FunctionsAre
<1>4. \A i, j \in Index : func0[b].phis[i].dest = func0[b].phis[j].dest => i = j
  BY <1>1, <1>2, FunctionsAre
<1>5. nextReg \in Nat /\ nextReg >= NumRegs
  BY DEF Inv, TypeInv
<1>6. \A r \in Reg : r \in Nat /\ r < nextReg
  BY <1>5, RegsAssumption DEF Reg
<1>7. ASSUME NEW i \in Index
      PROVE  copies0[i].dest = func0[b].phis[i].dest
  <2>1. copies0[i] = [dest |-> func0[b].phis[i].dest, src |-> func0[b].phis[i].in[preds[b][p]]]
    BY <1>2
  <2> QED BY <2>1
<1>8. \A i, j \in Index : copies0[i].dest = copies0[j].dest => i = j
  BY <1>4, <1>7
<1>9. \A i \in Index : copies[i].dest \in Reg /\ copies0[i].dest = copies[i].dest
  BY <1>2, <1>3, <1>7
<1> QED BY <1>2, <1>5, <1>6, <1>8, <1>9

\* Emitting a copy whose destination no remaining copy reads.
LEMMA EmitSafeCopyStep ==
  ASSUME Inv, status = "emit", EmitSafeCopy, UNCHANGED ovars
  PROVE  CopiesInv' /\ CodeInv'
<1> DEFINE k == scan
           d == copies[k].dest
           s == copies[k].src
           c == [dest |-> d, src |-> s]
<1>1. /\ k \in Index /\ k \notin done /\ mode = "scan"
      /\ code' = Append(code, c) /\ done' = done \cup {k}
      /\ UNCHANGED <<copies0, copies, nextReg, mode, func0, preds, b, p>>
      /\ \A j \in Index \ done : ~(copies[j].src.kind = "reg" /\ copies[j].src.num = d)
  BY DEF EmitSafeCopy, EmitCopy, DestIsUsedAsSource, ovars
<1>2. d \in Reg /\ d \in Nat /\ s \in Operand /\ c \in Copy
  BY <1>1, EmitFacts DEF Copy
<1>3. CopiesInv'
  <2>1. CopiesInv
    BY DEF Inv, EmitInv
  <2>2. code' \in Seq(Copy)
    BY <1>1, <1>2, EmitFacts, AppendProperties
  <2>3. done' \subseteq DOMAIN func0[b].phis
    BY <1>1, EmitFacts
  <2> QED BY <1>1, <2>1, <2>2, <2>3 DEF CopiesInv
<1>4. CodeInv'
  <2> SUFFICES ASSUME NEW e, Reg \subseteq DOMAIN e
               PROVE  Delivers(e, RunCopies(code, e))'
    BY DEF CodeInv
  <2>a. PICK o : o = RunCopies(code, e)
    OBVIOUS
  <2>b. PICK o2 : o2 = RunCopies(code', e)
    OBVIOUS
  <2>1. Delivers(e, o)
    BY <2>a DEF Inv, EmitInv, CodeInv
  <2>2. /\ DOMAIN o2 = DOMAIN o \cup {d}
        /\ o2[d] = Eval(s, o)
        /\ \A r \in DOMAIN o : r # d => o2[r] = o[r]
    <3>1. code \in Seq(Copy)
      BY EmitFacts
    <3>2. c.dest = d /\ c.src = s
      OBVIOUS
    <3>3. c \in Copy /\ o2 = RunCopies(Append(code, c), e)
      BY <1>1, <1>2, <2>b
    <3> HIDE DEF c, d, s
    <3>4. IsAfter(o2, o, c)
      BY <2>a, <3>1, <3>3, OneMore
    <3> QED BY <3>2, <3>4 DEF IsAfter
  <2>3. Reg \subseteq DOMAIN o
    BY <2>1 DEF Delivers
  <2>4. ASSUME NEW i \in Index
        PROVE  IF i \in done'
                 THEN o2[copies0[i].dest] = Eval(copies0[i].src, e)
                 ELSE /\ copies[i].src.kind = "reg" => copies[i].src.num \in DOMAIN o2
                      /\ Eval(copies[i].src, o2) = Eval(copies0[i].src, e)
    <3>1. CASE i = k
      <4>1. Eval(s, o) = Eval(copies0[k].src, e)
        BY <1>1, <2>1 DEF Delivers, Index
      <4>2. copies0[k].dest = d
        BY <1>1, EmitFacts
      <4> HIDE DEF k, d, s
      <4> QED BY <1>1, <2>2, <3>1, <4>1, <4>2
    <3>2. CASE i \in done
      <4>1. copies0[i].dest # d /\ copies0[i].dest \in Reg
        BY <1>1, <3>2, EmitFacts
      <4>2. o[copies0[i].dest] = Eval(copies0[i].src, e)
        BY <2>1, <3>2 DEF Delivers, Index
      <4> HIDE DEF k, d, s
      <4> QED BY <1>1, <2>2, <2>3, <3>2, <4>1, <4>2
    <3>3. CASE i \notin done /\ i # k
      <4>1. /\ copies[i].src.kind = "reg" => copies[i].src.num \in DOMAIN o
            /\ Eval(copies[i].src, o) = Eval(copies0[i].src, e)
        BY <2>1, <3>3 DEF Delivers, Index
      <4>2. ~(copies[i].src.kind = "reg" /\ copies[i].src.num = d)
        BY <1>1, <3>3
      <4>3. copies[i].src \in Operand
        BY EmitFacts
      <4>4. copies[i].src.kind = "reg" => o2[copies[i].src.num] = o[copies[i].src.num]
        BY <2>2, <4>1, <4>2
      <4>5. Eval(copies[i].src, o2) = Eval(copies[i].src, o)
        BY <4>3, <4>4, EvalKept
      <4>6. i \notin done'
        BY <1>1, <3>3
      <4> HIDE DEF d
      <4> QED BY <2>2, <4>1, <4>5, <4>6
    <3> QED BY <3>1, <3>2, <3>3
  <2>5. ASSUME NEW r \in Reg, \A i \in Index : copies0[i].dest # r
        PROVE  o2[r] = e[r]
    <3>1. o[r] = e[r]
      BY <2>1, <2>5 DEF Delivers, Index
    <3>2. r # d
      BY <1>1, <2>5, EmitFacts
    <3> QED BY <2>2, <2>3, <3>1, <3>2
  <2>6. Reg \subseteq DOMAIN o2
    BY <2>2, <2>3
  <2>7. Delivers(e, o2)'
    BY <1>1, <2>4, <2>5, <2>6 DEF Delivers, Index
  <2> QED BY <2>b, <2>7 DEF Delivers
<1> QED BY <1>3, <1>4

\* Saving a destination in a fresh register and redirecting its readers.
LEMMA BreakCycleStep ==
  ASSUME Inv, status = "emit", BreakCycle, UNCHANGED ovars
  PROVE  CopiesInv' /\ CodeInv' /\ nextReg' = nextReg + 1
<1>1. PICK pick \in Index \ done :
        /\ code' = Append(code, [dest |-> nextReg, src |-> RegSrc(copies[pick].dest)])
        /\ copies' = [i \in Index |->
             IF i \notin done /\ copies[i].src = RegSrc(copies[pick].dest)
               THEN [dest |-> copies[i].dest, src |-> RegSrc(nextReg)]
               ELSE copies[i]]
  BY DEF BreakCycle, FreshReg
<1>2. /\ mode = "scan" /\ nextReg' = nextReg + 1
      /\ UNCHANGED <<copies0, done, mode, func0, preds, b, p>>
  BY DEF BreakCycle, FreshReg, ovars
<1> DEFINE d == copies[pick].dest
           c == [dest |-> nextReg, src |-> RegSrc(d)]
<1>3. d \in Reg /\ d \in Nat /\ d < nextReg /\ nextReg \in Nat /\ c \in Copy
  <2>1. d \in Reg /\ d \in Nat /\ d < nextReg /\ nextReg \in Nat
    BY EmitFacts
  <2> QED BY <2>1 DEF Copy, Operand, RegSrc
<1>4. DOMAIN copies' = Index /\ Index' = Index
  BY <1>1 DEF Index
<1>5. \A i \in Index :
        /\ copies'[i].dest = copies[i].dest
        /\ copies'[i].src = IF i \notin done /\ copies[i].src = RegSrc(d)
                              THEN RegSrc(nextReg) ELSE copies[i].src
  BY <1>1
<1>6. CopiesInv'
  <2>1. CopiesInv
    BY DEF Inv, EmitInv
  <2>2. code' \in Seq(Copy)
    BY <1>1, <1>3, EmitFacts, AppendProperties
  <2>3. \A i \in Index :
          /\ copies'[i].dest = copies[i].dest /\ copies'[i].src \in Operand
          /\ copies'[i].src.kind = "reg" => copies'[i].src.num < nextReg + 1
    <3> SUFFICES ASSUME NEW i \in Index
                 PROVE  /\ copies'[i].src \in Operand
                        /\ copies'[i].src.kind = "reg" => copies'[i].src.num < nextReg + 1
      BY <1>5
    <3>1. RegSrc(nextReg) \in Operand /\ RegSrc(nextReg).num = nextReg
      BY <1>3 DEF Operand, RegSrc
    <3>2. copies[i].src \in Operand /\ (copies[i].src.kind = "reg" => copies[i].src.num < nextReg)
      BY EmitFacts
    <3>3. copies[i].src.kind = "reg" => copies[i].src.num \in Nat
      BY <3>2 DEF Operand
    <3> QED BY <1>3, <1>5, <3>1, <3>2, <3>3
  <2> QED BY <1>2, <1>4, <2>1, <2>2, <2>3, EmitFacts DEF CopiesInv
<1>7. CodeInv'
  <2> SUFFICES ASSUME NEW e, Reg \subseteq DOMAIN e
               PROVE  Delivers(e, RunCopies(code, e))'
    BY DEF CodeInv
  <2>a. PICK o : o = RunCopies(code, e)
    OBVIOUS
  <2>b. PICK o2 : o2 = RunCopies(code', e)
    OBVIOUS
  <2>1. Delivers(e, o)
    BY <2>a DEF Inv, EmitInv, CodeInv
  <2>2. /\ DOMAIN o2 = DOMAIN o \cup {nextReg}
        /\ o2[nextReg] = Eval(RegSrc(d), o)
        /\ \A r \in DOMAIN o : r # nextReg => o2[r] = o[r]
    <3>1. code \in Seq(Copy)
      BY EmitFacts
    <3>2. c.dest = nextReg /\ c.src = RegSrc(d)
      OBVIOUS
    <3>3. c \in Copy /\ o2 = RunCopies(Append(code, c), e)
      BY <1>1, <1>3, <2>b
    <3> HIDE DEF c, d
    <3>4. IsAfter(o2, o, c)
      BY <2>a, <3>1, <3>3, OneMore
    <3> QED BY <3>2, <3>4 DEF IsAfter
  <2>3. Reg \subseteq DOMAIN o
    BY <2>1 DEF Delivers
  <2>4. \A r \in Reg : o2[r] = o[r]
    <3>1. \A r \in Reg : r # nextReg
      BY EmitFacts
    <3> QED BY <2>2, <2>3, <3>1
  <2>5. ASSUME NEW i \in Index
        PROVE  IF i \in done
                 THEN o2[copies0[i].dest] = Eval(copies0[i].src, e)
                 ELSE /\ copies'[i].src.kind = "reg" => copies'[i].src.num \in DOMAIN o2
                      /\ Eval(copies'[i].src, o2) = Eval(copies0[i].src, e)
    <3>1. CASE i \in done
      <4>1. copies0[i].dest \in Reg
        BY EmitFacts
      <4>2. o[copies0[i].dest] = Eval(copies0[i].src, e)
        BY <2>1, <3>1 DEF Delivers, Index
      <4> QED BY <2>4, <3>1, <4>1, <4>2
    <3>2. CASE i \notin done /\ copies[i].src = RegSrc(d)
      <4>1. copies'[i].src = RegSrc(nextReg)
        BY <1>5, <3>2
      <4>2. Eval(RegSrc(d), o) = Eval(copies0[i].src, e)
        BY <2>1, <3>2 DEF Delivers, Index
      <4>3. Eval(RegSrc(nextReg), o2) = o2[nextReg] /\ RegSrc(nextReg).num = nextReg
        BY DEF Eval, RegSrc
      <4> QED BY <2>2, <3>2, <4>1, <4>2, <4>3
    <3>3. CASE i \notin done /\ copies[i].src # RegSrc(d)
      <4>1. copies'[i].src = copies[i].src
        BY <1>5, <3>3
      <4>2. /\ copies[i].src.kind = "reg" => copies[i].src.num \in DOMAIN o
            /\ Eval(copies[i].src, o) = Eval(copies0[i].src, e)
        BY <2>1, <3>3 DEF Delivers, Index
      <4>3. copies[i].src \in Operand /\ (copies[i].src.kind = "reg" => copies[i].src.num # nextReg)
        BY <1>3, EmitFacts
      <4>4. copies[i].src.kind = "reg" => o2[copies[i].src.num] = o[copies[i].src.num]
        BY <2>2, <4>2, <4>3
      <4>5. Eval(copies[i].src, o2) = Eval(copies[i].src, o)
        BY <4>3, <4>4, EvalKept
      <4> QED BY <2>2, <3>3, <4>1, <4>2, <4>5
    <3> QED BY <3>1, <3>2, <3>3
  <2>6. ASSUME NEW r \in Reg, \A i \in Index : copies0[i].dest # r
        PROVE  o2[r] = e[r]
    BY <2>1, <2>4, <2>6 DEF Delivers, Index
  <2>7. Reg \subseteq DOMAIN o2
    BY <2>2, <2>3
  <2>8. Delivers(e, o2)'
    BY <1>2, <1>4, <2>5, <2>6, <2>7 DEF Delivers, Index
  <2> QED BY <2>b, <2>8 DEF Delivers
<1> QED BY <1>2, <1>6, <1>7

LEMMA EmitStepInv == Inv /\ EmitStep => Inv'
<1> SUFFICES ASSUME Inv, EmitStep PROVE Inv'
  OBVIOUS
<1>1. status = "emit" /\ PCNext /\ UNCHANGED ovars
  BY DEF EmitStep
<1>2. UNCHANGED <<func0, func, preds, b, p, ins, status, sat, senv, tat, tenv>>
  BY <1>1 DEF ovars, runvars
<1>3. ASSUME UNCHANGED <<copies0, copies, done, nextReg, code>>, mode' = "done" => done = Index
      PROVE  CopiesInv' /\ CodeInv'
  <2>1. CopiesInv'
    BY <1>1, <1>2, <1>3 DEF Inv, EmitInv, CopiesInv, Index
  <2>2. CodeInv'
    BY <1>1, <1>3 DEF Inv, EmitInv, CodeInv, Delivers
  <2> QED BY <2>1, <2>2
<1>4. CopiesInv' /\ CodeInv' /\ nextReg' \in Nat /\ nextReg' >= NumRegs
  <2>0. nextReg \in Nat /\ nextReg >= NumRegs /\ NumRegs \in Nat
    BY RegsAssumption DEF Inv, TypeInv
  <2>1. CASE SkipDone
    BY <1>3, <2>0, <2>1 DEF SkipDone
  <2>2. CASE EmitSafeCopy
    BY <1>1, <2>0, <2>2, EmitSafeCopyStep DEF EmitSafeCopy
  <2>3. CASE SkipBlocked
    BY <1>3, <2>0, <2>3 DEF SkipBlocked
  <2>4. CASE Rescan
    <3>1. UNCHANGED <<copies0, copies, done, nextReg, code>> /\ mode = "scan"
      BY <2>4 DEF Rescan
    <3>2. mode' = "done" => done = Index
      BY <2>4, <3>1 DEF Rescan, NoneRemaining
    <3> QED BY <1>3, <2>0, <3>1, <3>2
  <2>5. CASE BreakCycle
    BY <1>1, <2>0, <2>5, BreakCycleStep
  <2> QED BY <1>1, <2>1, <2>2, <2>3, <2>4, <2>5 DEF PCNext
<1>5. \A x, y \in DOMAIN func0 : Done(x, y)' <=> Done(x, y)
  BY <1>2 DEF Done
<1>6. EdgesInv'
  BY <1>2, <1>5, EdgesStay
<1>7. TypeInv' /\ PredsInv' /\ PhisInv'
  BY <1>2, <1>4 DEF Inv, TypeInv, BlockType, PhiLists, PredsInv, PhisInv
<1>8. EnteredInv' /\ RunInv'
  BY <1>2 DEF Inv, EnteredInv, RunInv
<1>9. EmitInv'
  <2>1. InsInv'
    BY <1>1, <1>2 DEF Inv, EmitInv, InsInv, SuccCount, Done
  <2>2. p \in DOMAIN preds[b]
    BY <1>1 DEF Inv, EmitInv
  <2> QED BY <1>2, <1>4, <2>1, <2>2 DEF EmitInv
<1> QED BY <1>6, <1>7, <1>8, <1>9 DEF Inv

\* Once the loop has ended the code does what the phis do on this edge.
LEMMA CodeIsCorrect ==
  ASSUME Inv, status = "emit", mode = "done"
  PROVE  Correct(code, func0[b].phis, preds[b][p])
<1> DEFINE phis == func0[b].phis
           x == preds[b][p]
<1> SUFFICES ASSUME NEW e, NEW f, Agree(e, f)
             PROVE  Agree(RunCopies(code, e), RunPhis(phis, x, f))
  BY DEF Correct
<1>1. PICK o : o = RunCopies(code, e)
  OBVIOUS
<1>2. Delivers(e, o)
  BY <1>1 DEF Inv, EmitInv, CodeInv, Agree
<1>3. CopiesInv /\ p \in DOMAIN preds[b] /\ b \in DOMAIN func0 /\ func0 \in Functions0
  BY Facts DEF Inv, EmitInv, EnteredInv
<1>4. done = Index /\ Index = DOMAIN phis
  BY <1>3 DEF CopiesInv, Index
<1>5. ASSUME NEW i \in DOMAIN phis
      PROVE  /\ copies0[i].dest = phis[i].dest /\ copies0[i].src = phis[i].in[x]
             /\ Eval(phis[i].in[x], e) = Eval(phis[i].in[x], f)
  <2>1. copies0[i] = [dest |-> phis[i].dest, src |-> phis[i].in[x]]
    BY <1>4, EmitFacts
  <2>2. x \in DOMAIN phis[i].in
    BY <1>3 DEF Inv, EnteredInv, HasIncoming
  <2>3. phis[i].in[x] \in Source
    BY <1>3, <2>2, FunctionsAre
  <2> HIDE DEF phis, x
  <2>4. Eval(phis[i].in[x], e) = Eval(phis[i].in[x], f)
    BY <2>3 DEF Agree, Source, Eval
  <2> QED BY <2>1, <2>4
<1>6. DOMAIN RunPhis(phis, x, f) = DOMAIN f
  BY DEF RunPhis
<1>7. ASSUME NEW r \in Reg
      PROVE  o[r] = RunPhis(phis, x, f)[r]
  <2>1. r \in DOMAIN f /\ e[r] = f[r]
    BY DEF Agree
  <2>2. CASE \E i \in DOMAIN phis : phis[i].dest = r
    <3> DEFINE i == CHOOSE i \in DOMAIN phis : phis[i].dest = r
    <3>1. i \in DOMAIN phis /\ phis[i].dest = r
      BY <2>2
    <3>2. RunPhis(phis, x, f)[r] = Eval(phis[i].in[x], f)
      BY <2>1, <2>2 DEF RunPhis
    <3> HIDE DEF i
    <3>3. copies0[i].dest = r /\ copies0[i].src = phis[i].in[x] /\ i \in Index /\ i \in done
      BY <1>4, <1>5, <3>1
    <3>4. o[copies0[i].dest] = Eval(copies0[i].src, e)
      BY <1>2, <3>3 DEF Delivers, Index
    <3>5. Eval(phis[i].in[x], e) = Eval(phis[i].in[x], f)
      BY <1>5, <3>1
    <3> QED BY <3>2, <3>3, <3>4, <3>5
  <2>3. CASE ~ \E i \in DOMAIN phis : phis[i].dest = r
    <3>1. RunPhis(phis, x, f)[r] = f[r]
      BY <2>1, <2>3 DEF RunPhis
    <3>2. \A i \in Index : copies0[i].dest # r
      BY <1>4, <1>5, <2>3
    <3>3. o[r] = e[r]
      BY <1>2, <3>2 DEF Delivers, Index
    <3> QED BY <2>1, <3>1, <3>3
  <2> QED BY <2>2, <2>3
<1>8. Reg \subseteq DOMAIN o /\ Reg \subseteq DOMAIN f
  BY <1>2 DEF Delivers, Agree
<1> QED BY <1>1, <1>6, <1>7, <1>8 DEF Agree

\* The place chosen for the copies is empty, also before the terminator of a
\* predecessor with one successor: no edge of it has been done.
LEMMA PlaceIsEmpty ==
  ASSUME Inv, status = "emit"
  PROVE  ins \in DOMAIN func /\ func[ins].copies = <<>>
<1>1. p \in DOMAIN preds[b] /\ InsInv
  BY DEF Inv, EmitInv
<1>2. p \in 1 .. Len(preds[b])
  <2>1. b \in DOMAIN func0 /\ preds[b] = RebuildPreds(func0)[b] /\ func0 \in Functions0
    BY Facts DEF Inv, EnteredInv, PredsInv
  <2>2. preds[b] \in Seq(DOMAIN func0)
    BY <2>1, PredsAre DEF PredsRight
  <2> QED BY <1>1, <2>2, LenProperties
<1>3. PICK x \in DOMAIN func0 :
        /\ x = preds[b][p]
        /\ SuccCount(func0, x) = 1 => ~ \E i \in 1 .. p - 1 : preds[b][i] = x
        /\ \E k \in DOMAIN func0[x].targets : func0[x].targets[k] = b
  BY <1>2, CurrentEdge
<1>4. /\ x \in DOMAIN func /\ b \in Nat
      /\ DOMAIN func = 1 .. Len(func) /\ Len(func) \in Nat /\ Len(func0) \in Nat
  BY Facts DEF Inv
<1>5. CASE SuccCount(func0, x) = 1
  <2>1. ins = x
    BY <1>1, <1>3, <1>5 DEF InsInv
  <2>2. ~Done(x, b)
    BY <1>3, <1>4, <1>5 DEF Done
  <2>3. PICK k \in DOMAIN func0[x].targets : func0[x].targets[k] = b
    BY <1>3
  <2>4. EdgeInv(x, k)
    BY EdgeFacts DEF Inv
  <2> QED BY <1>4, <2>1, <2>2, <2>3, <2>4 DEF EdgeInv
<1>6. CASE SuccCount(func0, x) # 1
  BY <1>1, <1>3, <1>4, <1>6 DEF InsInv
<1> QED BY <1>5, <1>6

LEMMA FinishEdgeInv == Inv /\ FinishEdge => Inv'
<1> SUFFICES ASSUME Inv, FinishEdge PROVE Inv'
  OBVIOUS
<1>1. /\ status = "emit" /\ mode = "done" /\ status' = "edges" /\ p' = p + 1
      /\ func' = [func EXCEPT ![ins].copies = @ \o code]
      /\ UNCHANGED <<func0, preds, b, ins, sat, senv, tat, tenv, nextReg>>
  BY DEF FinishEdge, runvars, pcvars
<1>2. /\ DOMAIN func = 1 .. Len(func) /\ Len(func) \in Nat /\ Len(func0) \in Nat
      /\ Len(func) >= Len(func0)
      /\ DOMAIN func0 = 1 .. Len(func0) /\ b \in Nat \ {0} /\ p \in Nat \ {0}
      /\ func0 \in Functions0 /\ \A z \in DOMAIN func : func[z] \in BlockType
  BY Facts DEF Inv
<1>3. p \in 1 .. Len(preds[b]) /\ p \in DOMAIN preds[b]
  <2>1. b \in DOMAIN func0 /\ preds[b] = RebuildPreds(func0)[b]
    BY <1>1, <1>2 DEF Inv, EnteredInv, PredsInv
  <2>2. preds[b] \in Seq(DOMAIN func0)
    BY <1>2, <2>1, PredsAre DEF PredsRight
  <2>3. p \in DOMAIN preds[b]
    BY <1>1 DEF Inv, EmitInv
  <2> QED BY <2>2, <2>3, LenProperties
<1>4. PICK x \in DOMAIN func0 :
        /\ x = preds[b][p]
        /\ SuccCount(func0, x) = 1 =>
             /\ ~ \E i \in 1 .. p - 1 : preds[b][i] = x
             /\ \A k \in DOMAIN func0[x].targets : func0[x].targets[k] = b
  BY <1>1, <1>3, CurrentEdge
<1>5. ins \in DOMAIN func /\ func[ins].copies = <<>> /\ code \in Seq(Copy)
  BY <1>1, PlaceIsEmpty, EmitFacts
<1>6. /\ SuccCount(func0, x) = 1 => ins = x
      /\ SuccCount(func0, x) # 1 =>
           /\ ins \in Len(func0) + 1 .. Len(func)
           /\ \A k \in DOMAIN func0[x].targets :
                func0[x].targets[k] = b /\ ~Done(x, b) => func[x].targets[k] = ins
           /\ \A z \in DOMAIN func0 : \A k \in DOMAIN func0[z].targets :
                func[z].targets[k] = ins => z = x /\ func0[z].targets[k] = b
  BY <1>1, <1>4 DEF Inv, EmitInv, InsInv
<1>7. Correct(code, func0[b].phis, x)
  BY <1>1, <1>4, CodeIsCorrect
<1> DEFINE new == [func[ins] EXCEPT !.copies = code]
<1>8. /\ new \in BlockType /\ new.copies = code
      /\ new.targets = func[ins].targets /\ new.phis = func[ins].phis
  BY <1>2, <1>5 DEF BlockType
<1>9. func' = [func EXCEPT ![ins] = new]
  <2>1. func[ins].copies \o code = code
    BY <1>5, ConcatEmptySeq
  <2>2. func' = [func EXCEPT ![ins] = [func[ins] EXCEPT !.copies = func[ins].copies \o code]]
    BY <1>1
  <2> QED BY <2>1, <2>2
<1> HIDE DEF new
<1>10. /\ func' \in Seq(BlockType) /\ Len(func') = Len(func)
       /\ \A z \in 1 .. Len(func) : func'[z] = IF z = ins THEN new ELSE func[z]
  BY <1>2, <1>5, <1>8, <1>9, ExceptSeq DEF Inv, TypeInv
<1>11. \A z \in 1 .. Len(func) :
         /\ func'[z].targets = func[z].targets /\ func'[z].phis = func[z].phis
         /\ func'[z].copies = IF z = ins THEN code ELSE func[z].copies
  BY <1>8, <1>10
<1>12. TypeInv'
  <2>1. p' \in Nat \ {0} /\ BlockType' = BlockType
    BY <1>1, <1>2 DEF BlockType, PhiLists
  <2> QED BY <1>1, <1>10, <2>1 DEF Inv, TypeInv
<1>13. PredsInv'
  BY <1>1 DEF Inv, PredsInv
<1>14. PhisInv'
  <2>1. DOMAIN func' = 1 .. Len(func)
    BY <1>10, LenProperties
  <2> QED BY <1>1, <1>2, <1>11, <2>1 DEF Inv, PhisInv
<1>15. \A z, y \in DOMAIN func0 : Done(z, y)' <=> (Done(z, y) \/ (z = x /\ y = b))
  <2> SUFFICES ASSUME NEW z \in DOMAIN func0, NEW y \in DOMAIN func0
               PROVE  Done(z, y)' <=> (Done(z, y) \/ (z = x /\ y = b))
    OBVIOUS
  <2>1. Done(z, y)' <=> y < b \/ (y = b /\ \E i \in 1 .. p : preds[b][i] = z)
    <3>1. p' - 1 = p
      BY <1>1, <1>2
    <3> QED BY <1>1, <3>1 DEF Done
  <2>2. Done(z, y) <=> y < b \/ (y = b /\ \E i \in 1 .. p - 1 : preds[b][i] = z)
    BY <1>1 DEF Done
  <2>3. (\E i \in 1 .. p : preds[b][i] = z) <=> ((\E i \in 1 .. p - 1 : preds[b][i] = z) \/ preds[b][p] = z)
    <3>1. \A i \in 1 .. p : i = p \/ i \in 1 .. p - 1
      BY <1>2
    <3>2. p \in 1 .. p /\ \A i \in 1 .. p - 1 : i \in 1 .. p
      BY <1>2
    <3> QED BY <3>1, <3>2
  <2> QED BY <1>4, <2>1, <2>2, <2>3
<1>16. SuccCount(func0, x) = 1 => ~Done(x, b)
  BY <1>2, <1>4 DEF Done
<1>17. EdgesInv'
  <2> SUFFICES ASSUME NEW z \in DOMAIN func0
               PROVE  /\ DOMAIN func'[z].targets = DOMAIN func0[z].targets
                      /\ SuccCount(func0, z) # 1 => func'[z].copies = <<>>
                      /\ \A k \in DOMAIN func0[z].targets : EdgeInv(z, k)'
    BY <1>1 DEF EdgesInv, SuccCount
  <2>1. z \in 1 .. Len(func) /\ z \in Nat /\ z <= Len(func0)
    BY <1>2
  <2>2. z = ins => z = x /\ SuccCount(func0, x) = 1
    BY <1>2, <1>6, <2>1
  <2>3. DOMAIN func'[z].targets = DOMAIN func0[z].targets
    BY <1>11, <2>1 DEF Inv, EdgesInv
  <2>4. SuccCount(func0, z) # 1 => func'[z].copies = <<>>
    BY <1>11, <2>1, <2>2 DEF Inv, EdgesInv
  <2>5. ASSUME NEW k \in DOMAIN func0[z].targets
        PROVE  EdgeInv(z, k)'
    <3>0. PICK y \in DOMAIN func0 : y = func0[z].targets[k] /\ y \in Nat /\ y <= Len(func0)
      BY EdgeFacts DEF Inv
    <3>1. EdgeInv(z, k)
      BY EdgeFacts DEF Inv
    <3>2. PICK t : t = func[z].targets[k] /\ t = func'[z].targets[k]
      BY <1>11, <2>1
    <3>3. Done(z, y)' <=> (Done(z, y) \/ (z = x /\ y = b))
      BY <1>15
    <3>4. t \in Len(func0) + 1 .. Len(func) \/ t = y
      BY <3>0, <3>1, <3>2 DEF EdgeInv, Direct, Bridged
    <3>5. z = x /\ y = b /\ ~Done(z, y) /\ SuccCount(func0, x) # 1 => t = ins /\ ins \in Len(func0) + 1 .. Len(func)
      BY <1>6, <3>0, <3>2
    <3>6. (Direct(z, k) \/ Bridged(z, k))'
      <4>1. CASE Direct(z, k)
        <5>1. t = y /\ (y = b /\ Done(z, y) => SuccCount(func0, z) = 1)
          BY <3>0, <3>2, <4>1 DEF Direct
        <5>2. y = b' /\ Done(z, y)' => SuccCount(func0, z) = 1
          BY <1>1, <1>2, <3>0, <3>3, <3>5, <5>1
        <5>3. func'[z].targets[k] = y
          BY <3>2, <5>1
        <5> QED BY <1>1, <3>0, <5>2, <5>3 DEF Direct, SuccCount
      <4>2. CASE Bridged(z, k)
        <5>1. /\ t \in Len(func0) + 1 .. Len(func) /\ func[t].targets = <<y>> /\ SuccCount(func0, z) # 1
              /\ Done(z, y) \/ (y = b /\ z = x)
          BY <1>4, <3>0, <3>2, <4>2 DEF Bridged
        <5>2. t \in 1 .. Len(func)
          BY <1>2, <5>1
        <5>3. func'[t].targets = <<y>>
          BY <1>11, <5>1, <5>2
        <5> QED BY <1>1, <1>10, <3>0, <3>2, <3>3, <5>1, <5>3 DEF Bridged, SuccCount
      <4> QED BY <3>1, <4>1, <4>2 DEF EdgeInv
    <3>7. ASSUME Done(z, y)'
          PROVE  Correct(EdgeCode(z, k)', func0[y].phis, z)
      <4>1. EdgeCode(z, k)' = IF t > Len(func0) THEN func'[t].copies ELSE func'[z].copies
        BY <1>1, <3>2 DEF EdgeCode
      <4>2. EdgeCode(z, k) = IF t > Len(func0) THEN func[t].copies ELSE func[z].copies
        BY <3>2 DEF EdgeCode
      <4>3. CASE t > Len(func0)
        <5>1. t \in 1 .. Len(func) /\ SuccCount(func0, z) # 1
          BY <1>2, <3>0, <3>1, <3>2, <4>3 DEF EdgeInv, Direct, Bridged
        <5>2. CASE t = ins
          <6>1. SuccCount(func0, x) # 1
            BY <1>2, <1>4, <1>6, <4>3, <5>2
          <6>2. z = x /\ y = b
            BY <1>6, <3>0, <3>2, <5>2, <6>1
          <6>3. EdgeCode(z, k)' = code
            BY <1>11, <4>1, <4>3, <5>1, <5>2
          <6> QED BY <1>7, <6>2, <6>3
        <5>3. CASE t # ins
          <6>1. EdgeCode(z, k)' = EdgeCode(z, k)
            BY <1>11, <4>1, <4>2, <4>3, <5>1, <5>3
          <6>2. Done(z, y)
            BY <3>3, <3>5, <3>7, <5>1, <5>3
          <6> QED BY <3>0, <3>1, <6>1, <6>2 DEF EdgeInv
        <5> QED BY <5>2, <5>3
      <4>4. CASE ~(t > Len(func0))
        <5>1. CASE z = ins
          <6>1. z = x /\ y = b
            BY <1>4, <2>2, <3>0, <5>1
          <6>2. EdgeCode(z, k)' = code
            BY <1>11, <2>1, <4>1, <4>4, <5>1
          <6> QED BY <1>7, <6>1, <6>2
        <5>2. CASE z # ins
          <6>1. EdgeCode(z, k)' = EdgeCode(z, k)
            BY <1>11, <2>1, <4>1, <4>2, <4>4, <5>2
          <6>2. Done(z, y)
            <7> SUFFICES ASSUME ~Done(z, y) PROVE FALSE
              OBVIOUS
            <7>1. z = x /\ y = b
              BY <3>3, <3>7
            <7>2. SuccCount(func0, x) # 1
              BY <1>6, <5>2, <7>1
            <7>3. t \in Len(func0) + 1 .. Len(func)
              BY <3>5, <7>1, <7>2
            <7> QED BY <1>2, <4>4, <7>3
          <6> QED BY <3>0, <3>1, <6>1, <6>2 DEF EdgeInv
        <5> QED BY <5>1, <5>2
      <4> QED BY <4>3, <4>4
    <3>8. ASSUME ~Done(z, y)'
          PROVE  func'[z].copies = <<>>
      <4>1. ~Done(z, y) /\ ~(z = x /\ y = b)
        BY <3>3, <3>8
      <4>2. z # ins
        BY <1>4, <2>2, <3>0, <4>1
      <4>3. func[z].copies = <<>>
        BY <3>0, <3>1, <4>1 DEF EdgeInv
      <4> QED BY <1>11, <2>1, <4>2, <4>3
    <3> QED BY <1>1, <3>0, <3>6, <3>7, <3>8 DEF EdgeInv
  <2> QED BY <2>3, <2>4, <2>5
<1>18. EnteredInv' /\ EmitInv' /\ RunInv'
  BY <1>1 DEF Inv, EnteredInv, EmitInv, RunInv
<1> QED BY <1>12, <1>13, <1>14, <1>17, <1>18 DEF Inv

\* The copies of an edge, as collected from the phis.
LEMMA StartCopies ==
  ASSUME Inv, StartEdge, preds'[b] = preds[b]
  PROVE  CopiesInv' /\ CodeInv'
<1> DEFINE phis == func0[b].phis
<1>1. /\ status = "edges" /\ p <= Len(preds[b])
      /\ copies0' = [i \in DOMAIN func[b].phis |->
                       [dest |-> func[b].phis[i].dest, src |-> func[b].phis[i].in[preds[b][p]]]]
      /\ copies' = copies0' /\ done' = {} /\ code' = <<>> /\ mode' = "scan"
      /\ UNCHANGED <<func0, b, p, nextReg>>
  BY DEF StartEdge
<1>2. p \in 1 .. Len(preds[b]) /\ b \in DOMAIN func0
  <2>1. b \in DOMAIN func0 /\ preds[b] = RebuildPreds(func0)[b] /\ func0 \in Functions0 /\ p \in Nat \ {0}
    BY <1>1, Facts DEF Inv, EnteredInv, PredsInv
  <2>2. preds[b] \in Seq(DOMAIN func0)
    BY <2>1, PredsAre DEF PredsRight
  <2>3. Len(preds[b]) \in Nat
    BY <2>2, LenProperties
  <2> QED BY <1>1, <2>1, <2>3
<1>3. func[b].phis = phis
  <2>1. b \in DOMAIN func /\ b \in b .. Len(func0)
    BY <1>2, Facts DEF Inv
  <2>2. func[b].phis = IF b \in b .. Len(func0) THEN func0[b].phis ELSE NoPhis
    BY <2>1 DEF Inv, PhisInv
  <2> QED BY <2>1, <2>2
<1>4. PICK x \in DOMAIN func0 :
        /\ x = preds[b][p]
        /\ \A i \in DOMAIN func0[b].phis :
             func0[b].phis[i].dest \in Reg /\ func0[b].phis[i].in[x] \in Source
  BY <1>1, <1>2, CurrentEdge
<1>5. nextReg \in Nat /\ \A r \in Reg : r \in Nat /\ r < nextReg
  <2>1. nextReg \in Nat /\ nextReg >= NumRegs
    BY DEF Inv, TypeInv
  <2> QED BY <2>1, RegsAssumption DEF Reg
<1>6. copies0' = [i \in DOMAIN phis |-> [dest |-> phis[i].dest, src |-> phis[i].in[x]]]
  BY <1>1, <1>3, <1>4
<1>7. DOMAIN copies' = DOMAIN phis /\ DOMAIN copies0' = DOMAIN phis
  BY <1>1, <1>6
<1>8. ASSUME NEW i \in DOMAIN phis
      PROVE  /\ copies0'[i] = [dest |-> phis[i].dest, src |-> phis[i].in[x]]
             /\ copies'[i].dest = phis[i].dest /\ copies'[i].src = phis[i].in[x]
             /\ copies0'[i].dest = phis[i].dest /\ copies0'[i].src = phis[i].in[x]
             /\ phis[i].in[x] \in Operand
             /\ phis[i].in[x].kind = "reg" => phis[i].in[x].num \in Reg /\ phis[i].in[x].num < nextReg
  <2>1. copies0'[i] = [dest |-> phis[i].dest, src |-> phis[i].in[x]]
    BY <1>6
  <2>2. phis[i].in[x] \in Source
    BY <1>4
  <2> HIDE DEF phis
  <2>3. /\ phis[i].in[x] \in Operand
        /\ phis[i].in[x].kind = "reg" => phis[i].in[x].num \in Reg /\ phis[i].in[x].num < nextReg
    BY <1>5, <2>2 DEF Source, Operand
  <2>4. copies0'[i].dest = phis[i].dest /\ copies0'[i].src = phis[i].in[x]
    BY <2>1
  <2>5. copies'[i] = copies0'[i]
    BY <1>1
  <2> QED BY <2>1, <2>3, <2>4, <2>5
<1>9. CopiesInv'
  <2>1. <<>> \in Seq(Copy)
    OBVIOUS
  <2>2. preds'[b'][p'] = x /\ func0'[b'].phis = phis
    BY <1>1, <1>4
  <2>3. \A i \in DOMAIN phis :
          /\ copies0'[i] = [dest |-> phis[i].dest, src |-> phis[i].in[x]]
          /\ copies'[i].dest = phis[i].dest
          /\ copies'[i].src \in Operand
          /\ copies'[i].src.kind = "reg" => copies'[i].src.num < nextReg'
    BY <1>1, <1>8
  <2>4. done' \subseteq DOMAIN phis /\ mode' # "done" /\ code' \in Seq(Copy)
    BY <1>1, <2>1
  <2> QED BY <1>7, <2>2, <2>3, <2>4 DEF CopiesInv
<1>10. CodeInv'
  <2> SUFFICES ASSUME NEW e, Reg \subseteq DOMAIN e
               PROVE  Delivers(e, RunCopies(code, e))'
    BY DEF CodeInv
  <2>1. RunCopies(code', e) = e
    BY <1>1, RunEmpty
  <2>2. \A i \in DOMAIN copies' :
          /\ copies'[i].src.kind = "reg" => copies'[i].src.num \in DOMAIN e
          /\ Eval(copies'[i].src, e) = Eval(copies0'[i].src, e)
    BY <1>7, <1>8
  <2> QED BY <1>1, <2>1, <2>2 DEF Delivers
<1> QED BY <1>9, <1>10

\* Splitting an edge: the targets of the predecessor that were b are the new
\* block, which leads to b; the rest of the function is as before.
LEMMA SplitIs ==
  ASSUME Inv, NEW x \in DOMAIN func0, b \in DOMAIN func0, func' = SplitEdge(func, x, b),
         func0' = func0
  PROVE  /\ func' \in Seq(BlockType') /\ Len(func') = Len(func) + 1
         /\ func'[Len(func) + 1] = Block(NoPhis, <<b>>)
         /\ \A z \in DOMAIN func :
              /\ func'[z].phis = func[z].phis /\ func'[z].copies = func[z].copies
              /\ DOMAIN func'[z].targets = DOMAIN func[z].targets
              /\ z # x => func'[z].targets = func[z].targets
         /\ \A k \in DOMAIN func[x].targets :
              func'[x].targets[k] = IF func[x].targets[k] = b THEN Len(func) + 1 ELSE func[x].targets[k]
<1>1. /\ DOMAIN func = 1 .. Len(func) /\ Len(func) \in Nat /\ x \in DOMAIN func
      /\ b \in Nat /\ \A z \in DOMAIN func : func[z] \in BlockType
      /\ func \in Seq(BlockType)
  BY Facts DEF Inv, TypeInv
<1> DEFINE n == Len(func) + 1
           ts == [k \in DOMAIN func[x].targets |->
                    IF func[x].targets[k] = b THEN n ELSE func[x].targets[k]]
           blk == [func[x] EXCEPT !.targets = ts]
           mid == [func EXCEPT ![x] = blk]
           new == Block(NoPhis, <<b>>)
<1>2. ts \in Seq(Nat)
  <2>1. func[x].targets \in Seq(Nat)
    BY <1>1 DEF BlockType
  <2>2. DOMAIN func[x].targets = 1 .. Len(func[x].targets) /\ Len(func[x].targets) \in Nat
    BY <2>1, LenProperties
  <2>3. \A k \in DOMAIN func[x].targets : func[x].targets[k] \in Nat
    BY <2>1, <2>2, ElementOfSeq
  <2>4. ts \in [1 .. Len(func[x].targets) -> Nat]
    BY <1>1, <2>2, <2>3
  <2> QED BY <2>2, <2>4, SeqDef
<1>3. /\ DOMAIN ts = DOMAIN func[x].targets
      /\ \A k \in DOMAIN func[x].targets :
           ts[k] = IF func[x].targets[k] = b THEN n ELSE func[x].targets[k]
  OBVIOUS
<1>4. func' = Append(mid, new)
  BY DEF SplitEdge, ReplaceTarget
<1> HIDE DEF ts
<1>5. /\ blk \in BlockType /\ blk.phis = func[x].phis /\ blk.copies = func[x].copies
      /\ blk.targets = ts
  BY <1>1, <1>2 DEF BlockType
<1>6. new \in BlockType
  <2>1. <<b>> \in Seq(Nat) /\ <<>> \in Seq(Copy) /\ NoPhis \in PhiLists
    BY <1>1 DEF PhiLists
  <2> QED BY <2>1 DEF Block, BlockType
<1> HIDE DEF blk, new
<1>7. /\ mid \in Seq(BlockType) /\ Len(mid) = Len(func)
      /\ \A z \in 1 .. Len(func) : mid[z] = IF z = x THEN blk ELSE func[z]
  BY <1>1, <1>5, ExceptSeq
<1> HIDE DEF mid
<1>8. /\ func' \in Seq(BlockType) /\ Len(func') = n
      /\ \A z \in 1 .. Len(func) : func'[z] = mid[z]
      /\ func'[n] = new
  BY <1>4, <1>6, <1>7, AppendProperties
<1>9. BlockType' = BlockType
  BY DEF BlockType, PhiLists
<1>10. ASSUME NEW z \in DOMAIN func
       PROVE  /\ func'[z].phis = func[z].phis /\ func'[z].copies = func[z].copies
              /\ DOMAIN func'[z].targets = DOMAIN func[z].targets
              /\ z # x => func'[z].targets = func[z].targets
              /\ z = x => func'[z].targets = ts
  <2>1. func'[z] = IF z = x THEN blk ELSE func[z]
    BY <1>1, <1>7, <1>8
  <2> QED BY <1>3, <1>5, <2>1
<1> QED BY <1>1, <1>3, <1>8, <1>9, <1>10 DEF new

LEMMA StartEdgeInv == Inv /\ StartEdge => Inv'
<1> SUFFICES ASSUME Inv, StartEdge PROVE Inv'
  OBVIOUS
<1>1. /\ status = "edges" /\ status' = "emit" /\ p <= Len(preds[b])
      /\ IF SuccCount(func0, preds[b][p]) = 1
           THEN ins' = preds[b][p] /\ UNCHANGED <<func, preds>>
           ELSE /\ ins' = Len(func) + 1
                /\ func' = SplitEdge(func, preds[b][p], b)
                /\ preds' = Append(preds, <<>>)
      /\ UNCHANGED <<func0, b, p, sat, senv, tat, tenv, nextReg>>
  BY DEF StartEdge, runvars
<1>2. /\ DOMAIN func = 1 .. Len(func) /\ Len(func) \in Nat /\ Len(func0) \in Nat
      /\ Len(func) >= Len(func0)
      /\ DOMAIN func0 = 1 .. Len(func0) /\ b \in Nat \ {0} /\ p \in Nat \ {0}
      /\ func0 \in Functions0 /\ \A z \in DOMAIN func0 : z \in DOMAIN func
  BY Facts DEF Inv
<1>3. /\ b \in DOMAIN func0 /\ preds \in Seq(Seq(Nat)) /\ Len(preds) >= Len(func0)
      /\ \A y \in DOMAIN func0 : preds[y] = RebuildPreds(func0)[y]
  BY <1>1 DEF Inv, EnteredInv, PredsInv
<1>4. p \in 1 .. Len(preds[b])
  <2>1. preds[b] \in Seq(DOMAIN func0)
    BY <1>2, <1>3, PredsAre DEF PredsRight
  <2>2. Len(preds[b]) \in Nat
    BY <2>1, LenProperties
  <2> QED BY <1>1, <1>2, <2>2
<1>5. PICK x \in DOMAIN func0 : x = preds[b][p] /\ p \in DOMAIN preds[b]
  BY <1>1, <1>4, CurrentEdge
<1>6. preds' \in Seq(Seq(Nat)) /\ Len(preds') >= Len(func0) /\ \A y \in DOMAIN func0 : preds'[y] = preds[y]
  <2>1. CASE SuccCount(func0, x) = 1
    BY <1>1, <1>3, <1>5, <2>1
  <2>2. CASE SuccCount(func0, x) # 1
    <3>1. preds' = Append(preds, <<>>) /\ <<>> \in Seq(Nat)
      BY <1>1, <1>5, <2>2
    <3>2. /\ preds' \in Seq(Seq(Nat)) /\ Len(preds') = Len(preds) + 1
          /\ \A y \in 1 .. Len(preds) : preds'[y] = preds[y]
      BY <1>3, <3>1, AppendProperties
    <3>3. Len(preds) \in Nat
      BY <1>3, LenProperties
    <3>4. \A y \in DOMAIN func0 : y \in 1 .. Len(preds)
      BY <1>2, <1>3, <3>3
    <3>5. Len(preds') >= Len(func0)
      BY <1>2, <1>3, <3>2, <3>3
    <3>6. \A y \in DOMAIN func0 : preds'[y] = preds[y]
      BY <3>2, <3>4
    <3> QED BY <3>2, <3>5, <3>6
  <2> QED BY <2>1, <2>2
<1>7. PredsInv'
  BY <1>1, <1>3, <1>6 DEF PredsInv
<1>8. \A z, y \in DOMAIN func0 : Done(z, y)' <=> Done(z, y)
  BY <1>1, <1>6 DEF Done
<1>9. EnteredInv'
  BY <1>1, <1>3, <1>6 DEF Inv, EnteredInv
<1>10. CopiesInv' /\ CodeInv'
  BY <1>3, <1>6, StartCopies
<1>11. p' \in DOMAIN preds'[b'] /\ preds'[b'][p'] = x
  BY <1>1, <1>3, <1>5, <1>6
<1>12. RunInv'
  BY <1>1 DEF Inv, RunInv
<1>13. CASE SuccCount(func0, x) = 1
  <2>1. ins' = x /\ UNCHANGED <<func, preds>>
    BY <1>1, <1>5, <1>13
  <2>2. EdgesInv'
    BY <1>1, <1>8, <2>1, EdgesStay
  <2>3. TypeInv' /\ PhisInv'
    BY <1>1, <2>1 DEF Inv, TypeInv, BlockType, PhiLists, PhisInv
  <2>4. InsInv'
    BY <1>1, <1>11, <1>13, <2>1 DEF InsInv, SuccCount
  <2>5. EmitInv'
    BY <1>10, <1>11, <2>4 DEF EmitInv
  <2> QED BY <1>7, <1>9, <1>12, <2>2, <2>3, <2>5 DEF Inv
<1>14. CASE SuccCount(func0, x) # 1
  <2> DEFINE n == Len(func) + 1
  <2>1. ins' = n /\ func' = SplitEdge(func, x, b)
    BY <1>1, <1>5, <1>14
  <2>2. /\ func' \in Seq(BlockType') /\ Len(func') = n
        /\ func'[n] = Block(NoPhis, <<b>>)
        /\ \A z \in DOMAIN func :
             /\ func'[z].phis = func[z].phis /\ func'[z].copies = func[z].copies
             /\ DOMAIN func'[z].targets = DOMAIN func[z].targets
             /\ z # x => func'[z].targets = func[z].targets
        /\ \A k \in DOMAIN func[x].targets :
             func'[x].targets[k] = IF func[x].targets[k] = b THEN n ELSE func[x].targets[k]
    BY <1>1, <1>3, <2>1, SplitIs
  <2>3. func'[n].phis = NoPhis /\ func'[n].copies = <<>> /\ func'[n].targets = <<b>>
    BY <2>2 DEF Block
  <2>4. n \in Nat /\ n > Len(func) /\ n > Len(func0) /\ DOMAIN func' = 1 .. n
    BY <1>2, <2>2, LenProperties
  <2>5. \A z \in 1 .. n : z = n \/ z \in DOMAIN func
    BY <1>2
  <2> HIDE DEF n
  <2>6. TypeInv'
    BY <1>1, <1>2, <2>2, <2>4 DEF Inv, TypeInv
  <2>7. PhisInv'
    <3> SUFFICES ASSUME NEW z \in 1 .. n
                 PROVE  func'[z].phis = IF z \in b .. Len(func0) THEN func0[z].phis ELSE NoPhis
      BY <1>1, <2>4 DEF PhisInv
    <3>1. CASE z = n
      BY <1>2, <2>3, <2>4, <3>1
    <3>2. CASE z \in DOMAIN func
      BY <2>2, <3>2 DEF Inv, PhisInv
    <3> QED BY <2>5, <3>1, <3>2
  <2>8. ASSUME NEW z \in DOMAIN func0, NEW k \in DOMAIN func0[z].targets
        PROVE  /\ EdgeInv(z, k)'
               /\ func'[z].targets[k] = n => z = x /\ func0[z].targets[k] = b
               /\ z = x /\ func0[z].targets[k] = b /\ ~Done(z, b) => func'[z].targets[k] = n
    <3>0. PICK y \in DOMAIN func0 : y = func0[z].targets[k] /\ y \in Nat /\ y <= Len(func0)
      BY EdgeFacts DEF Inv
    <3>1. EdgeInv(z, k) /\ z \in DOMAIN func
      BY EdgeFacts DEF Inv
    <3>2. PICK t : t = func[z].targets[k]
      OBVIOUS
    <3>3. k \in DOMAIN func[z].targets
      BY DEF Inv, EdgesInv
    <3>4. func'[z].targets[k] = IF z = x /\ t = b THEN n ELSE t
      BY <2>2, <3>1, <3>2, <3>3
    <3>5. /\ t \in Len(func0) + 1 .. Len(func) \/ t = y
          /\ t \in Nat /\ t <= Len(func)
      BY <1>2, <3>0, <3>1, <3>2 DEF EdgeInv, Direct, Bridged
    <3>6. /\ Done(z, y)' <=> Done(z, y)
          /\ z = x /\ t = b => t = y /\ ~Done(z, y)
      <4>1. z = x /\ t = b => t = y
        BY <1>2, <1>3, <3>5
      <4>2. z = x /\ t = b => ~Done(z, y)
        BY <1>2, <1>14, <3>0, <3>1, <3>2, <4>1 DEF EdgeInv, Direct, Bridged
      <4> QED BY <1>8, <4>1, <4>2
    <3>7. (Direct(z, k) \/ Bridged(z, k))'
      <4>1. CASE z = x /\ t = b
        <5>1. func'[z].targets[k] = n /\ y = b
          BY <3>4, <3>6, <4>1
        <5>2. n \in Len(func0) + 1 .. n
          BY <1>2, <2>4
        <5> QED BY <1>1, <1>11, <1>14, <2>1, <2>2, <2>3, <3>0, <4>1, <5>1, <5>2 DEF Bridged, SuccCount, n
      <4>2. CASE ~(z = x /\ t = b) /\ Direct(z, k)
        <5>1. func'[z].targets[k] = y
          BY <3>0, <3>2, <3>4, <4>2 DEF Direct
        <5>2. y = b /\ Done(z, y) => SuccCount(func0, z) = 1
          BY <3>0, <4>2 DEF Direct
        <5> QED BY <1>1, <3>0, <3>6, <5>1, <5>2 DEF Direct, SuccCount
      <4>3. CASE ~(z = x /\ t = b) /\ Bridged(z, k)
        <5>1. /\ t \in Len(func0) + 1 .. Len(func) /\ func[t].targets = <<y>>
              /\ SuccCount(func0, z) # 1 /\ Done(z, y)
          BY <1>1, <3>0, <3>2, <4>3 DEF Bridged
        <5>2. t \in DOMAIN func /\ t # x /\ t \in Len(func0) + 1 .. n
          BY <1>2, <2>4, <5>1
        <5>3. func'[t].targets = <<y>> /\ func'[z].targets[k] = t
          BY <2>2, <3>4, <4>3, <5>1, <5>2
        <5> QED BY <1>1, <2>2, <3>0, <3>6, <5>1, <5>2, <5>3 DEF Bridged, SuccCount
      <4> QED BY <3>1, <4>1, <4>2, <4>3 DEF EdgeInv
    <3>8. ASSUME Done(z, y)'
          PROVE  Correct(EdgeCode(z, k)', func0[y].phis, z)
      <4>1. Done(z, y) /\ func'[z].targets[k] = t
        BY <3>4, <3>6, <3>8
      <4>2. EdgeCode(z, k)' = EdgeCode(z, k)
        <5>1. CASE t > Len(func0)
          <6>1. t \in DOMAIN func
            BY <1>2, <3>5, <5>1
          <6> QED BY <1>1, <2>2, <3>2, <4>1, <5>1, <6>1 DEF EdgeCode
        <5>2. CASE ~(t > Len(func0))
          BY <1>1, <2>2, <3>1, <3>2, <4>1, <5>2 DEF EdgeCode
        <5> QED BY <5>1, <5>2
      <4> QED BY <3>0, <3>1, <4>1, <4>2 DEF EdgeInv
    <3>9. ~Done(z, y)' => func'[z].copies = <<>>
      BY <2>2, <3>0, <3>1, <3>6 DEF EdgeInv
    <3>10. EdgeInv(z, k)'
      BY <1>1, <3>0, <3>7, <3>8, <3>9 DEF EdgeInv
    <3>11. func'[z].targets[k] = n => z = x /\ y = b
      BY <1>2, <2>4, <3>4, <3>5, <3>6
    <3>12. z = x /\ y = b /\ ~Done(z, b) => func'[z].targets[k] = n
      <4>1. z = x /\ y = b /\ ~Done(z, b) => t = b
        BY <1>1, <3>0, <3>1, <3>2 DEF EdgeInv, Direct, Bridged
      <4> QED BY <3>4, <4>1
    <3> QED BY <3>0, <3>10, <3>11, <3>12
  <2>9. EdgesInv'
    <3> SUFFICES ASSUME NEW z \in DOMAIN func0
                 PROVE  /\ DOMAIN func'[z].targets = DOMAIN func0[z].targets
                        /\ SuccCount(func0, z) # 1 => func'[z].copies = <<>>
                        /\ \A k \in DOMAIN func0[z].targets : EdgeInv(z, k)'
      BY <1>1 DEF EdgesInv, SuccCount
    <3> QED BY <1>2, <2>2, <2>8 DEF Inv, EdgesInv
  <2>10. InsInv'
    <3>1. ins' \in Len(func0) + 1 .. Len(func') /\ func'[ins'].copies = <<>>
      BY <1>2, <2>1, <2>2, <2>3, <2>4 DEF n
    <3>2. \A k \in DOMAIN func0[x].targets :
            func0[x].targets[k] = b /\ ~Done(x, b)' => func'[x].targets[k] = ins'
      <4>1. Done(x, b)' <=> Done(x, b)
        BY <1>1, <1>3, <1>6 DEF Done
      <4> QED BY <2>1, <2>8, <4>1 DEF n
    <3>3. \A z \in DOMAIN func0 : \A k \in DOMAIN func0[z].targets :
            func'[z].targets[k] = ins' => z = x /\ func0[z].targets[k] = b
      BY <2>1, <2>8 DEF n
    <3> QED BY <1>1, <1>11, <1>14, <3>1, <3>2, <3>3 DEF InsInv, SuccCount
  <2>11. EmitInv'
    BY <1>10, <1>11, <2>10 DEF EmitInv
  <2> QED BY <1>7, <1>9, <1>12, <2>6, <2>7, <2>9, <2>11 DEF Inv
<1> QED BY <1>13, <1>14

LEMMA StutterInv == Inv /\ UNCHANGED vars => Inv'
<1> SUFFICES ASSUME Inv, UNCHANGED vars PROVE Inv'
  OBVIOUS
<1>1. UNCHANGED <<func0, func, preds, b, p, ins, status, sat, senv, tat, tenv>>
  BY DEF vars, ovars, runvars
<1>2. UNCHANGED <<copies0, copies, done, nextReg, code, mode>>
  BY DEF vars, pcvars
<1>3. \A x, y \in DOMAIN func0 : Done(x, y)' <=> Done(x, y)
  BY <1>1 DEF Done
<1>4. EdgesInv'
  BY <1>1, <1>3, EdgesStay
<1>5. TypeInv' /\ PredsInv' /\ PhisInv' /\ EnteredInv' /\ RunInv'
  BY <1>1, <1>2 DEF Inv, TypeInv, BlockType, PhiLists, PredsInv, PhisInv, EnteredInv, RunInv
<1>6. EmitInv'
  BY <1>1, <1>2 DEF Inv, EmitInv, InsInv, SuccCount, Done, CopiesInv, CodeInv, Delivers
<1> QED BY <1>4, <1>5, <1>6 DEF Inv

LEMMA NextInv == Inv /\ [Next]_vars => Inv'
BY SkipBlockInv, MissingIncomingInv, EnterBlockInv, StartEdgeInv, EmitStepInv,
   FinishEdgeInv, RemovePhisInv, FinishFuncInv, BranchInv, StutterInv DEF Next

\* The function without phis behaves as the one with them, along every path
\* (ir_outssa_func: the split of critical edges, the copies of each edge, the
\* order of the blocks).
THEOREM OutSSACorrect == Spec => []SameBehaviour
<1>1. Inv => SameBehaviour
  BY DEF Inv, RunInv, Agree, SameBehaviour
<1> QED BY InitInv, NextInv, <1>1, PTL DEF Spec

=============================================================================

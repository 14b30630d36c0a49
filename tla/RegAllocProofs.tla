---------------------------- MODULE RegAllocProofs -----------------------------
(***************************************************************************)
(* For any functions, registers and spills: the sets of the fixpoint are   *)
(* exactly the liveness of the function once nothing changes, intervals    *)
(* cover it, and the allocated function reads at every instruction what    *)
(* the function with virtual registers reads.                              *)
(***************************************************************************)
EXTENDS RegAlloc, LinearScanProofs, FiniteSetTheorems, WellFoundedInduction, NaturalsInduction

-----------------------------------------------------------------------------
(* Finite sets of integers have a least and a greatest element.            *)

LEMMA LeastNatural ==
  ASSUME NEW T \in SUBSET Nat, T # {}
  PROVE  \E n \in T : \A m \in T : n <= m
<1>1. IsWellFoundedOn(OpToRel(<, Nat), Nat)
  BY NatLessThanWellFounded
<1>2. PICK n \in T : \A m \in T : ~(<<m, n>> \in OpToRel(<, Nat))
  BY <1>1, WFMin
<1>3. \A m \in T : ~(m < n)
  BY <1>2 DEF OpToRel
<1> QED BY <1>3

\* A family of n + 1 integers has both, for every n.
LEMMA FamilyExtremes ==
  \A n \in Nat : \A f \in [1 .. n + 1 -> Int] :
    \E a, b \in 1 .. n + 1 : \A i \in 1 .. n + 1 : f[a] <= f[i] /\ f[i] <= f[b]
<1> DEFINE Has(n) == \A f \in [1 .. n + 1 -> Int] :
                       \E a, b \in 1 .. n + 1 : \A i \in 1 .. n + 1 : f[a] <= f[i] /\ f[i] <= f[b]
           Bad == {n \in Nat : ~Has(n)}
<1> SUFFICES ASSUME Bad # {} PROVE FALSE
  OBVIOUS
<1>1. PICK n \in Bad : \A m \in Bad : n <= m
  BY LeastNatural
<1>2. Has(0)
  <2> SUFFICES ASSUME NEW f \in [1 .. 1 -> Int] PROVE \A i \in 1 .. 1 : f[1] <= f[i] /\ f[i] <= f[1]
    OBVIOUS
  <2> QED OBVIOUS
<1>3. n # 0 /\ n \in Nat /\ n - 1 \in Nat
  BY <1>1, <1>2
<1>4. Has(n - 1)
  <2>1. n - 1 \notin Bad
    <3>1. \A m \in Bad : n <= m
      BY <1>1
    <3> HIDE DEF Bad
    <3> QED BY <1>3, <3>1
  <2> QED BY <1>3, <2>1 DEF Bad
<1>5. Has(n)
  <2> SUFFICES ASSUME NEW f \in [1 .. n + 1 -> Int]
               PROVE  \E a, b \in 1 .. n + 1 : \A i \in 1 .. n + 1 : f[a] <= f[i] /\ f[i] <= f[b]
    OBVIOUS
  <2> DEFINE g == [i \in 1 .. n |-> f[i]]
  <2>1. g \in [1 .. (n - 1) + 1 -> Int] /\ (n - 1) + 1 = n
    BY <1>3
  <2>2. PICK a, b \in 1 .. n : \A i \in 1 .. n : g[a] <= g[i] /\ g[i] <= g[b]
    BY <1>4, <2>1
  <2>3. \A i \in 1 .. n : f[a] <= f[i] /\ f[i] <= f[b]
    BY <2>2
  <2>4. 1 .. n + 1 = 1 .. n \cup {n + 1}
    BY <1>3
  <2>5. f[a] \in Int /\ f[b] \in Int /\ f[n + 1] \in Int /\ a \in 1 .. n + 1 /\ b \in 1 .. n + 1 /\ n + 1 \in 1 .. n + 1
    BY <2>2, <2>4, <1>3
  <2> DEFINE low == IF f[n + 1] <= f[a] THEN n + 1 ELSE a
             high == IF f[b] <= f[n + 1] THEN n + 1 ELSE b
  <2>8. f[low] <= f[a] /\ f[low] <= f[n + 1] /\ f[low] \in Int
    BY <2>5
  <2>9. f[b] <= f[high] /\ f[n + 1] <= f[high] /\ f[high] \in Int
    BY <2>5
  <2>6. ASSUME NEW i \in 1 .. n + 1 PROVE f[low] <= f[i] /\ f[i] <= f[high]
    <3> HIDE DEF low, high
    <3>1. CASE i = n + 1
      BY <2>8, <2>9, <3>1
    <3>2. CASE i \in 1 .. n
      <4>1. f[a] <= f[i] /\ f[i] <= f[b] /\ f[i] \in Int
        BY <2>3, <3>2
      <4> DEFINE p == f[low]
                 q == f[a]
                 r == f[i]
                 s == f[b]
                 t == f[high]
      <4>4. p \in Int /\ q \in Int /\ r \in Int /\ s \in Int /\ t \in Int
        BY <2>5, <2>8, <2>9, <4>1
      <4>5. p <= q /\ q <= r /\ r <= s /\ s <= t
        BY <2>8, <2>9, <4>1
      <4> HIDE DEF p, q, r, s, t
      <4>6. p <= r /\ r <= t
        BY <4>4, <4>5
      <4>2. f[low] <= f[i]
        BY <4>6 DEF p, r
      <4>3. f[i] <= f[high]
        BY <4>6 DEF r, t
      <4> QED BY <4>2, <4>3
    <3> QED BY <2>4, <3>1, <3>2
  <2>7. low \in 1 .. n + 1 /\ high \in 1 .. n + 1
    BY <2>5
  <2> QED BY <2>6, <2>7
<1> QED BY <1>1, <1>5

LEMMA Extremes ==
  ASSUME NEW S \in SUBSET Int, IsFiniteSet(S), S # {}
  PROVE  Min(S) \in S /\ Max(S) \in S /\ \A y \in S : Min(S) <= y /\ y <= Max(S)
<1>1. Cardinality(S) \in Nat /\ Cardinality(S) # 0
  BY FS_CardinalityType, FS_EmptySet
<1>2. PICK f \in Bijection(1 .. Cardinality(S), S) : TRUE
  BY FS_CardinalityType DEF ExistsBijection
<1>3. f \in [1 .. Cardinality(S) -> S] /\ \A y \in S : \E i \in 1 .. Cardinality(S) : f[i] = y
  BY <1>2 DEF Bijection, Surjection, Injection
<1> DEFINE n == Cardinality(S) - 1
<1>4. n \in Nat /\ Cardinality(S) = n + 1
  BY <1>1
<1>5. f \in [1 .. n + 1 -> Int]
  BY <1>3, <1>4
<1>6. PICK a, b \in 1 .. n + 1 : \A i \in 1 .. n + 1 : f[a] <= f[i] /\ f[i] <= f[b]
  BY <1>4, <1>5, FamilyExtremes
<1>7. f[a] \in S /\ f[b] \in S /\ \A y \in S : f[a] <= y /\ y <= f[b]
  BY <1>3, <1>4, <1>6
<1>8. Min(S) \in S /\ \A y \in S : Min(S) <= y
  BY <1>7 DEF Min
<1>9. Max(S) \in S /\ \A y \in S : y <= Max(S)
  BY <1>7 DEF Max
<1> QED BY <1>8, <1>9

\* The images of 1 .. n under a function are finitely many.
LEMMA FiniteFamily ==
  ASSUME NEW n \in Nat, NEW g, DOMAIN g = 1 .. n
  PROVE  IsFiniteSet({g[i] : i \in 1 .. n})
<1> DEFINE h == [i \in 1 .. n |-> g[i]]
           T == {g[i] : i \in 1 .. n}
<1>1. h \in Surjection(1 .. n, T)
  BY DEF Surjection
<1>2. IsFiniteSet(1 .. n)
  BY FS_Interval
<1> HIDE DEF h, T
<1>3. IsFiniteSet(T)
  BY <1>1, <1>2, FS_Surjection
<1> QED BY <1>3 DEF T

-----------------------------------------------------------------------------
(* Machine functions.                                                      *)

LEMMA FunctionsAre ==
  ASSUME NEW f \in MachineFuncs
  PROVE  /\ DOMAIN f = 1 .. Len(f) /\ Len(f) \in Nat \ {0}
         /\ \A x \in DOMAIN f :
              /\ f[x].insts \in Seq(MachineInst) /\ f[x].succs \in Seq(DOMAIN f)
              /\ Len(f[x].insts) \in Nat \ {0}
              /\ DOMAIN f[x].insts = 1 .. Len(f[x].insts)
              /\ \A k \in 1 .. Len(f[x].insts) : f[x].insts[k] \in MachineInst
              /\ \A k \in DOMAIN f[x].succs : f[x].succs[k] \in DOMAIN f
              /\ f[x].insts[1].op # "call" /\ f[x].insts[Len(f[x].insts)].op # "call"
<1>1. f \in Seq([insts : Seq(MachineInst), succs : Seq(DOMAIN f)]) /\ f # <<>>
  BY FunctionsAssumption
<1>2. DOMAIN f = 1 .. Len(f) /\ Len(f) \in Nat \ {0}
  BY <1>1
<1> SUFFICES ASSUME NEW x \in DOMAIN f
             PROVE  /\ f[x].insts \in Seq(MachineInst) /\ f[x].succs \in Seq(DOMAIN f)
                    /\ Len(f[x].insts) \in Nat \ {0}
                    /\ DOMAIN f[x].insts = 1 .. Len(f[x].insts)
                    /\ \A k \in 1 .. Len(f[x].insts) : f[x].insts[k] \in MachineInst
                    /\ \A k \in DOMAIN f[x].succs : f[x].succs[k] \in DOMAIN f
                    /\ f[x].insts[1].op # "call" /\ f[x].insts[Len(f[x].insts)].op # "call"
  BY <1>2
<1>3. f[x] \in [insts : Seq(MachineInst), succs : Seq(DOMAIN f)]
  <2> DEFINE B == [insts : Seq(MachineInst), succs : Seq(DOMAIN f)]
  <2>1. f \in Seq(B) /\ x \in 1 .. Len(f)
    BY <1>1, <1>2
  <2> HIDE DEF B
  <2>2. f[x] \in B
    BY <2>1
  <2> QED BY <2>2 DEF B
<1>4. f[x].insts \in Seq(MachineInst) /\ f[x].succs \in Seq(DOMAIN f)
  BY <1>3
<1>5. Len(f[x].insts) > 0 /\ f[x].insts[1].op # "call" /\ f[x].insts[Len(f[x].insts)].op # "call"
  BY FunctionsAssumption
<1>6. \A k \in DOMAIN f[x].succs : f[x].succs[k] \in DOMAIN f
  BY <1>4
<1> QED BY <1>4, <1>5, <1>6

LEMMA FunctionIs ==
  ASSUME mf \in MachineFuncs
  PROVE  /\ Blocks = 1 .. Len(mf) /\ Len(mf) \in Nat \ {0}
         /\ \A x \in Blocks :
              /\ Succs(x) \subseteq Blocks
              /\ Size(x) \in Nat \ {0} /\ DOMAIN mf[x].insts = 1 .. Size(x)
              /\ \A k \in 1 .. Size(x) : mf[x].insts[k] \in MachineInst
              /\ mf[x].insts[1].op # "call" /\ mf[x].insts[Size(x)].op # "call"
  BY FunctionsAre DEF Blocks, Succs, Size

\* Positions are natural numbers.
LEMMA Numbers ==
  ASSUME NEW f \in MachineFuncs
  PROVE  NumberInsts(f) \in [DOMAIN f -> Nat]
<1> SUFFICES ASSUME NEW x \in DOMAIN f
             PROVE  Cardinality(UNION {InstsOf(f, y) : y \in 1 .. x - 1}) \in Nat
  BY DEF NumberInsts
<1>1. x \in 1 .. Len(f) /\ Len(f) \in Nat
  BY FunctionsAre
<1> DEFINE g == [y \in 1 .. x - 1 |-> InstsOf(f, y)]
           G == {g[y] : y \in 1 .. x - 1}
<1>2. G = {InstsOf(f, y) : y \in 1 .. x - 1}
  OBVIOUS
<1>3. IsFiniteSet(G)
  <2>1. x - 1 \in Nat /\ DOMAIN g = 1 .. x - 1
    BY <1>1
  <2> HIDE DEF g
  <2> QED BY <2>1, FiniteFamily
<1>4. \A y \in 1 .. x - 1 : IsFiniteSet(InstsOf(f, y))
  <2> SUFFICES ASSUME NEW y \in 1 .. x - 1 PROVE IsFiniteSet(InstsOf(f, y))
    OBVIOUS
  <2>1. y \in DOMAIN f
    BY <1>1, FunctionsAre
  <2>2. DOMAIN f[y].insts = 1 .. Len(f[y].insts) /\ Len(f[y].insts) \in Nat
    BY <2>1, FunctionsAre
  <2>4. IsFiniteSet({y})
    BY FS_Singleton
  <2>5. IsFiniteSet(1 .. Len(f[y].insts))
    BY <2>2, FS_Interval
  <2>3. IsFiniteSet({y}) /\ IsFiniteSet(DOMAIN f[y].insts)
    BY <2>2, <2>4, <2>5
  <2> QED BY <2>3, FS_Product DEF InstsOf
<1>5. IsFiniteSet(UNION G)
  <2>1. \A T \in G : IsFiniteSet(T)
    BY <1>4
  <2> HIDE DEF G
  <2> QED BY <1>3, <2>1, FS_UNION
<1> HIDE DEF G
<1> QED BY <1>2, <1>5, FS_CardinalityType

-----------------------------------------------------------------------------
(* The fixpoint.                                                           *)

LVTypes ==
    /\ mf \in MachineFuncs /\ first \in [Blocks -> Nat]
    /\ liveIn \in [Blocks -> SUBSET VReg] /\ liveOut \in [Blocks -> SUBSET VReg]
    /\ bi \in 0 .. Len(mf) /\ changed \in BOOLEAN /\ lphase \in {"walk", "done"}
    /\ lphase = "done" => bi = 0

\* The equations of a block hold between its sets and its successors'.
Solved(x) == liveOut[x] = OutOf(x) /\ liveIn[x] = InOf(x, liveOut[x])

\* In a pass that has changed nothing yet, those of the blocks visited hold.
Settling == ~changed => \A x \in Blocks : x > bi => Solved(x)

\* Only what is live is in the sets.
Sound ==
    \A v \in VReg : \A x \in Blocks :
       /\ v \in liveIn[x] => x \in LiveInBlocks(v)
       /\ v \in liveOut[x] => Succs(x) \cap LiveInBlocks(v) # {}

LVInv == LVTypes /\ Settling /\ Sound

LEMMA LivenessInit ==
  ASSUME NEW f \in MachineFuncs, BeginLiveness(f)
  PROVE  LVInv
<1>1. mf = f /\ Blocks = DOMAIN f /\ Blocks = 1 .. Len(f) /\ Len(f) \in Nat
  BY FunctionsAre DEF BeginLiveness, Blocks
<1>2. first \in [Blocks -> Nat]
  BY <1>1, Numbers DEF BeginLiveness
<1>3. LVTypes
  <2>1. liveIn = [x \in Blocks |-> {}] /\ liveOut = [x \in Blocks |-> {}]
    BY <1>1 DEF BeginLiveness
  <2>2. bi = Len(f) /\ changed = FALSE /\ lphase = "walk"
    BY DEF BeginLiveness
  <2>3. {} \in SUBSET VReg
    OBVIOUS
  <2>4. liveIn \in [Blocks -> SUBSET VReg] /\ liveOut \in [Blocks -> SUBSET VReg]
    BY <2>1, <2>3
  <2>5. mf \in MachineFuncs /\ bi \in 0 .. Len(mf)
    BY <1>1, <2>2
  <2> QED BY <1>2, <2>2, <2>4, <2>5 DEF LVTypes
<1>4. Settling
  BY <1>1 DEF Settling, BeginLiveness
<1>5. Sound
  BY <1>1 DEF Sound, BeginLiveness
<1> QED BY <1>3, <1>4, <1>5 DEF LVInv

\* The least closed set of blocks is closed itself, and it has only blocks.
LEMMA LiveIsClosed ==
  ASSUME NEW v \in VReg, NEW x \in Blocks,
         v \in Use(x) \/ (v \notin Def(x) /\ Succs(x) \cap LiveInBlocks(v) # {})
  PROVE  x \in LiveInBlocks(v)
<1> SUFFICES ASSUME NEW S \in SUBSET Blocks, ClosedFor(v, S) PROVE x \in S
  BY DEF LiveInBlocks
<1>1. LiveInBlocks(v) \subseteq S
  BY DEF LiveInBlocks
<1> QED BY <1>1 DEF ClosedFor

\* What VisitBlock puts into the sets is live.
LEMMA VisitSound ==
  ASSUME LVInv, VisitBlock
  PROVE  Sound'
<1>0. bi \in Blocks /\ Blocks' = Blocks /\ mf' = mf
  <2>1. mf' = mf /\ bi > 0 /\ bi \in 0 .. Len(mf) /\ mf \in MachineFuncs
    BY DEF VisitBlock, VisitAt, LVInv, LVTypes
  <2>2. Blocks = 1 .. Len(mf) /\ Len(mf) \in Nat
    BY <2>1, FunctionIs
  <2> QED BY <2>1, <2>2 DEF Blocks
<1>1. /\ liveOut' = [liveOut EXCEPT ![bi] = OutOf(bi)]
      /\ liveIn' = [liveIn EXCEPT ![bi] = InOf(bi, OutOf(bi))]
  BY DEF VisitBlock, VisitAt
<1>2. \A x \in Blocks : (Succs(x))' = Succs(x)
  BY <1>0 DEF Succs
<1>3. \A v \in VReg : (LiveInBlocks(v))' = LiveInBlocks(v)
  BY <1>0 DEF LiveInBlocks, ClosedFor, Use, Def, Succs, Blocks
<1>4. \A v \in VReg : v \in OutOf(bi) => Succs(bi) \cap LiveInBlocks(v) # {}
  <2>1. Succs(bi) \subseteq Blocks
    BY <1>0, FunctionIs DEF LVInv, LVTypes
  <2> QED BY <1>0, <2>1 DEF OutOf, LVInv, Sound
<1>5. \A v \in VReg : v \in InOf(bi, OutOf(bi)) => bi \in LiveInBlocks(v)
  BY <1>0, <1>4, LiveIsClosed DEF InOf
<1>6. \A x \in Blocks : /\ liveOut'[x] = IF x = bi THEN OutOf(bi) ELSE liveOut[x]
                        /\ liveIn'[x] = IF x = bi THEN InOf(bi, OutOf(bi)) ELSE liveIn[x]
  BY <1>0, <1>1 DEF LVInv, LVTypes
<1> SUFFICES ASSUME NEW v \in VReg, NEW x \in Blocks
             PROVE  /\ v \in liveIn'[x] => x \in LiveInBlocks(v)
                    /\ v \in liveOut'[x] => Succs(x) \cap LiveInBlocks(v) # {}
  BY <1>0, <1>2, <1>3 DEF Sound
<1> QED BY <1>4, <1>5, <1>6 DEF LVInv, Sound

LEMMA VisitKept ==
  ASSUME LVInv, VisitBlock
  PROVE  LVInv'
<1>0. /\ bi \in Blocks /\ bi \in Nat /\ Blocks' = Blocks /\ mf' = mf /\ mf \in MachineFuncs /\ first' = first
      /\ Blocks = 1 .. Len(mf) /\ Len(mf) \in Nat /\ bi' = bi - 1 /\ lphase = "walk" /\ lphase' = lphase
  <2>1. mf' = mf /\ bi > 0 /\ bi \in 0 .. Len(mf) /\ mf \in MachineFuncs
    BY DEF VisitBlock, VisitAt, LVInv, LVTypes
  <2>2. Blocks = 1 .. Len(mf) /\ Len(mf) \in Nat
    BY <2>1, FunctionIs
  <2>3. first' = first /\ bi' = bi - 1 /\ lphase = "walk" /\ lphase' = lphase
    BY DEF VisitBlock, VisitAt
  <2> QED BY <2>1, <2>2, <2>3 DEF Blocks
<1> DEFINE out == OutOf(bi)
           in == InOf(bi, out)
<1>1. /\ liveOut' = [liveOut EXCEPT ![bi] = out] /\ liveIn' = [liveIn EXCEPT ![bi] = in]
      /\ changed' <=> (changed \/ out # liveOut[bi] \/ in # liveIn[bi])
  BY DEF VisitBlock, VisitAt
<1>2. out \in SUBSET VReg /\ in \in SUBSET VReg
  <2>1. Succs(bi) \subseteq Blocks
    BY <1>0, FunctionIs
  <2>2. out \in SUBSET VReg
    BY <1>0, <2>1 DEF OutOf, LVInv, LVTypes
  <2> QED BY <2>2 DEF InOf, Use
<1>3. changed' \in BOOLEAN
  BY DEF VisitBlock, VisitAt, LVInv, LVTypes
<1>4. LVTypes'
  <2>1. liveOut' \in [Blocks -> SUBSET VReg] /\ liveIn' \in [Blocks -> SUBSET VReg]
    BY <1>1, <1>2 DEF LVInv, LVTypes
  <2>2. bi' \in 0 .. Len(mf)
    BY <1>0
  <2>3. mf' \in MachineFuncs /\ first' \in [Blocks' -> Nat] /\ Len(mf') = Len(mf)
    BY <1>0 DEF LVInv, LVTypes
  <2> QED BY <1>0, <1>3, <2>1, <2>2, <2>3 DEF LVTypes
<1>5. Settling'
  <2> SUFFICES ASSUME ~changed', NEW x \in Blocks, x > bi - 1 PROVE Solved(x)'
    BY <1>0 DEF Settling
  <2>1. ~changed /\ out = liveOut[bi] /\ in = liveIn[bi]
    BY <1>1
  <2>2. liveOut' = liveOut /\ liveIn' = liveIn
    BY <1>1, <2>1 DEF LVInv, LVTypes
  <2>3. Solved(x)' <=> Solved(x)
    BY <1>0, <2>2 DEF Solved, OutOf, InOf, Use, Def, Succs
  <2>4. Solved(bi)
    BY <2>1 DEF Solved
  <2>5. x = bi \/ x > bi
    BY <1>0
  <2> QED BY <2>1, <2>3, <2>4, <2>5 DEF LVInv, Settling
<1> QED BY <1>4, <1>5, VisitSound DEF LVInv

LEMMA EndPassKept ==
  ASSUME LVInv, EndPass
  PROVE  LVInv' /\ (lphase' = "done" => changed' = changed)
<1>1. /\ UNCHANGED <<mf, first, liveIn, liveOut>> /\ bi = 0 /\ mf \in MachineFuncs
      /\ \/ bi' = Len(mf) /\ changed' = FALSE /\ lphase' = lphase /\ lphase = "walk"
         \/ lphase' = "done" /\ UNCHANGED <<bi, changed>>
  BY DEF EndPass, LVInv, LVTypes
<1>2. Blocks' = Blocks /\ Blocks = 1 .. Len(mf) /\ Len(mf) \in Nat /\ Len(mf') = Len(mf)
  BY <1>1, FunctionIs DEF Blocks
<1>3. LVTypes'
  <2>1. /\ mf' \in MachineFuncs /\ first' \in [Blocks' -> Nat]
        /\ liveIn' \in [Blocks' -> SUBSET VReg] /\ liveOut' \in [Blocks' -> SUBSET VReg]
    BY <1>1, <1>2 DEF LVInv, LVTypes
  <2>2. changed \in BOOLEAN /\ lphase \in {"walk", "done"}
    BY DEF LVInv, LVTypes
  <2>3. changed' \in BOOLEAN
    BY <1>1, <2>2
  <2>4. bi' \in 0 .. Len(mf')
    BY <1>1, <1>2
  <2>5. lphase' \in {"walk", "done"} /\ (lphase' = "done" => bi' = 0)
    BY <1>1
  <2> QED BY <2>1, <2>3, <2>4, <2>5 DEF LVTypes
<1>4. \A x \in Blocks : Solved(x)' <=> Solved(x)
  BY <1>1, <1>2 DEF Solved, OutOf, InOf, Use, Def, Succs
<1>5. Settling'
  BY <1>1, <1>2, <1>4 DEF Settling, LVInv
<1>6. Sound'
  <2>1. \A v \in VReg : (LiveInBlocks(v))' = LiveInBlocks(v)
    BY <1>1, <1>2 DEF LiveInBlocks, ClosedFor, Use, Def, Succs, Blocks
  <2>2. \A x \in Blocks : (Succs(x))' = Succs(x)
    BY <1>1 DEF Succs
  <2> QED BY <1>1, <1>2, <2>1, <2>2 DEF Sound, LVInv
<1> QED BY <1>1, <1>3, <1>5, <1>6 DEF LVInv

\* At the end, with nothing changed in the last pass, the equations hold.
LEMMA Fixpoint ==
  ASSUME LVInv, lphase = "done", ~changed
  PROVE  /\ \A x \in Blocks : Solved(x)
         /\ LivenessExact
<1>1. Blocks = 1 .. Len(mf) /\ bi = 0
  BY FunctionIs DEF LVInv, LVTypes
<1>2. \A x \in Blocks : Solved(x)
  BY <1>1 DEF LVInv, Settling
<1>3. ASSUME NEW v \in VReg, NEW x \in LiveInBlocks(v)
      PROVE  v \in liveIn[x]
  <2> DEFINE S == {y \in Blocks : v \in liveIn[y]}
  <2>1. ClosedFor(v, S)
    <3> SUFFICES ASSUME NEW y \in Blocks, v \in Use(y) \/ (v \notin Def(y) /\ Succs(y) \cap S # {})
                 PROVE  v \in liveIn[y]
      BY DEF ClosedFor
    <3>1. liveOut[y] = OutOf(y) /\ liveIn[y] = InOf(y, liveOut[y])
      BY <1>2 DEF Solved
    <3> QED BY <3>1 DEF OutOf, InOf
  <2>2. S \in SUBSET Blocks
    OBVIOUS
  <2>3. x \in S
    BY <1>3, <2>1, <2>2 DEF LiveInBlocks
  <2> QED BY <2>3
<1>4. ASSUME NEW v \in VReg, NEW x \in Blocks, Succs(x) \cap LiveInBlocks(v) # {}
      PROVE  v \in liveOut[x]
  <2>1. liveOut[x] = OutOf(x)
    BY <1>2 DEF Solved
  <2> QED BY <1>3, <1>4, <2>1 DEF OutOf
<1>5. LivenessExact
  BY <1>3, <1>4 DEF LivenessExact, LVInv, Sound
<1> QED BY <1>2, <1>5

-----------------------------------------------------------------------------
(* Intervals.                                                              *)

LEMMA PositionsAre ==
  ASSUME LVTypes, NEW x \in Blocks, NEW k \in 1 .. Size(x)
  PROVE  /\ PosOf(x, k) \in Nat /\ PosOf(x, k) = first[x] + k - 1 /\ first[x] \in Nat
         /\ Size(x) \in Nat \ {0} /\ LastPos(x) = first[x] + Size(x) - 1
         /\ mf[x].insts[k] \in MachineInst
  BY FunctionIs DEF LVTypes, PosOf, LastPos

\* Where a register is recorded.
LEMMA TouchedAt ==
  ASSUME LVTypes, NEW x \in Blocks, NEW v \in VReg
  PROVE  /\ v \in liveIn[x] => first[x] \in Touched(v)
         /\ v \in liveOut[x] => LastPos(x) \in Touched(v)
         /\ \A k \in 1 .. Size(x) :
              v \in Reads(mf[x].insts[k]) \cup mf[x].insts[k].def => PosOf(x, k) \in Touched(v)
  BY DEF Touched, PositionsOf

LEMMA TouchedIs ==
  ASSUME LVTypes, NEW v \in VReg
  PROVE  IsFiniteSet(Touched(v)) /\ Touched(v) \in SUBSET Nat
<1> DEFINE g == [x \in Blocks |-> first[x] .. LastPos(x)]
           G == {g[x] : x \in 1 .. Len(mf)}
<1>1. Blocks = 1 .. Len(mf) /\ Len(mf) \in Nat
  BY FunctionIs DEF LVTypes
<1>2. \A x \in Blocks : /\ first[x] \in Nat /\ LastPos(x) \in Nat /\ first[x] \in g[x] /\ LastPos(x) \in g[x]
                        /\ \A k \in 1 .. Size(x) : PosOf(x, k) \in g[x]
                        /\ IsFiniteSet(g[x]) /\ g[x] \subseteq Nat
  <2> SUFFICES ASSUME NEW x \in Blocks
               PROVE  /\ first[x] \in Nat /\ LastPos(x) \in Nat /\ first[x] \in g[x] /\ LastPos(x) \in g[x]
                      /\ \A k \in 1 .. Size(x) : PosOf(x, k) \in g[x]
                      /\ IsFiniteSet(g[x]) /\ g[x] \subseteq Nat
    OBVIOUS
  <2>1. 1 \in 1 .. Size(x)
    BY FunctionIs DEF LVTypes
  <2>2. first[x] \in Nat /\ Size(x) \in Nat \ {0} /\ LastPos(x) = first[x] + Size(x) - 1
    BY <2>1, PositionsAre
  <2>3. \A k \in 1 .. Size(x) : PosOf(x, k) = first[x] + k - 1
    BY PositionsAre
  <2>4. g[x] = first[x] .. LastPos(x) /\ LastPos(x) \in Nat
    BY <2>2
  <2>5. IsFiniteSet(g[x])
    <3>1. \A a, b \in Int : IsFiniteSet(a .. b)
      BY FS_Interval
    <3>2. first[x] \in Int /\ LastPos(x) \in Int
      BY <2>2, <2>4
    <3> QED BY <3>1, <3>2
  <2> QED BY <2>2, <2>3, <2>4, <2>5
<1>3. IsFiniteSet(UNION G)
  <2>1. DOMAIN g = 1 .. Len(mf)
    BY <1>1
  <2>2. \A T \in G : IsFiniteSet(T)
    BY <1>1, <1>2
  <2> HIDE DEF g
  <2>3. IsFiniteSet(G)
    BY <1>1, <2>1, FiniteFamily
  <2> HIDE DEF G
  <2> QED BY <2>2, <2>3, FS_UNION
<1>4. UNION G \subseteq Nat
  BY <1>1, <1>2
<1>5. Touched(v) \subseteq UNION G
  <2> HIDE DEF g
  <2>1. \A x \in Blocks : g[x] \subseteq UNION G
    BY <1>1
  <2>2. \A x \in Blocks : /\ first[x] \in UNION G /\ LastPos(x) \in UNION G
                          /\ \A k \in 1 .. Size(x) : PosOf(x, k) \in UNION G
    BY <1>2, <2>1
  <2> HIDE DEF G
  <2> QED BY <2>2 DEF Touched, PositionsOf
<1> HIDE DEF G
<1> QED BY <1>3, <1>4, <1>5, FS_Subset

\* An interval spans the positions its register is recorded at.
LEMMA IntervalSpans ==
  ASSUME LVTypes, NEW v \in HasInterval
  PROVE  /\ IntervalOf(v) \in [start : Nat, end : Nat] /\ IntervalOf(v).start <= IntervalOf(v).end
         /\ \A pos \in Touched(v) : IntervalOf(v).start <= pos /\ pos <= IntervalOf(v).end
<1>1. v \in VReg /\ Touched(v) # {}
  BY DEF HasInterval
<1>2. IsFiniteSet(Touched(v)) /\ Touched(v) \in SUBSET Nat /\ Touched(v) \in SUBSET Int
  BY <1>1, TouchedIs
<1>3. /\ Min(Touched(v)) \in Touched(v) /\ Max(Touched(v)) \in Touched(v)
      /\ \A y \in Touched(v) : Min(Touched(v)) <= y /\ y <= Max(Touched(v))
  BY <1>1, <1>2, Extremes
<1> QED BY <1>2, <1>3 DEF IntervalOf

\* v is still needed before instruction k of block x, by the sets.
LiveAt(v, x, k) ==
    \/ \E m \in k .. Size(x) :
         v \in Reads(mf[x].insts[m]) /\ \A n \in k .. m - 1 : v \notin mf[x].insts[n].def
    \/ (\A n \in k .. Size(x) : v \notin mf[x].insts[n].def) /\ v \in liveOut[x]

Within(v, x, k) ==
    v \in HasInterval /\ IntervalOf(v).start <= PosOf(x, k) /\ PosOf(x, k) <= IntervalOf(v).end

\* What is needed is so before the instruction before, unless that writes it.
LEMMA LiveBack ==
  ASSUME LVTypes, NEW x \in Blocks, NEW k \in 1 .. Size(x), NEW v \in VReg,
         k < Size(x), LiveAt(v, x, k + 1), v \notin mf[x].insts[k].def
  PROVE  LiveAt(v, x, k)
<1>1. Size(x) \in Nat
  BY PositionsAre
<1>2. CASE \E m \in k + 1 .. Size(x) :
             v \in Reads(mf[x].insts[m]) /\ \A n \in k + 1 .. m - 1 : v \notin mf[x].insts[n].def
  <2>1. PICK m \in k + 1 .. Size(x) :
             v \in Reads(mf[x].insts[m]) /\ \A n \in k + 1 .. m - 1 : v \notin mf[x].insts[n].def
    BY <1>2
  <2>2. m \in k .. Size(x) /\ \A n \in k .. m - 1 : n = k \/ n \in k + 1 .. m - 1
    BY <1>1
  <2> QED BY <2>1, <2>2 DEF LiveAt
<1>3. CASE (\A n \in k + 1 .. Size(x) : v \notin mf[x].insts[n].def) /\ v \in liveOut[x]
  <2>1. \A n \in k .. Size(x) : n = k \/ n \in k + 1 .. Size(x)
    BY <1>1
  <2> QED BY <1>3, <2>1 DEF LiveAt
<1> QED BY <1>2, <1>3 DEF LiveAt

LEMMA LiveWithin ==
  ASSUME LVTypes, NEW x \in Blocks, Solved(x), NEW k \in 1 .. Size(x), NEW v \in VReg, LiveAt(v, x, k)
  PROVE  Within(v, x, k)
<1>1. /\ Size(x) \in Nat \ {0} /\ first[x] \in Nat /\ LastPos(x) = first[x] + Size(x) - 1
      /\ \A m \in 1 .. Size(x) : PosOf(x, m) = first[x] + m - 1
  BY PositionsAre
<1>2. \E pos \in Touched(v) : PosOf(x, k) <= pos
  <2>1. CASE \E m \in k .. Size(x) : v \in Reads(mf[x].insts[m])
    <3>1. PICK m \in k .. Size(x) : v \in Reads(mf[x].insts[m])
      BY <2>1
    <3>2. m \in 1 .. Size(x) /\ PosOf(x, k) <= PosOf(x, m)
      BY <1>1
    <3> QED BY <3>1, <3>2, TouchedAt
  <2>2. CASE v \in liveOut[x]
    <3>1. PosOf(x, k) <= LastPos(x)
      BY <1>1
    <3> QED BY <2>2, <3>1, TouchedAt
  <2> QED BY <2>1, <2>2 DEF LiveAt
<1>3. \E pos \in Touched(v) : pos <= PosOf(x, k)
  <2>1. CASE \E n \in 1 .. k - 1 : v \in mf[x].insts[n].def
    <3>1. PICK n \in 1 .. k - 1 : v \in mf[x].insts[n].def
      BY <2>1
    <3>2. n \in 1 .. Size(x) /\ PosOf(x, n) <= PosOf(x, k)
      BY <1>1
    <3> QED BY <3>1, <3>2, TouchedAt
  <2>2. CASE \A n \in 1 .. k - 1 : v \notin mf[x].insts[n].def
    <3>1. DOMAIN mf[x].insts = 1 .. Size(x)
      BY FunctionIs DEF LVTypes
    <3>2. v \in Use(x) \/ v \in liveOut[x] \ Def(x)
      <4>1. CASE \E m \in k .. Size(x) :
                   v \in Reads(mf[x].insts[m]) /\ \A n \in k .. m - 1 : v \notin mf[x].insts[n].def
        <5>1. PICK m \in k .. Size(x) :
                   v \in Reads(mf[x].insts[m]) /\ \A n \in k .. m - 1 : v \notin mf[x].insts[n].def
          BY <4>1
        <5>2. m \in 1 .. Size(x) /\ \A n \in 1 .. m - 1 : n \in 1 .. k - 1 \/ n \in k .. m - 1
          BY <1>1
        <5> QED BY <2>2, <3>1, <5>1, <5>2 DEF Use
      <4>2. CASE (\A n \in k .. Size(x) : v \notin mf[x].insts[n].def) /\ v \in liveOut[x]
        <5>1. \A n \in 1 .. Size(x) : n \in 1 .. k - 1 \/ n \in k .. Size(x)
          BY <1>1
        <5> QED BY <2>2, <3>1, <4>2, <5>1 DEF Def
      <4> QED BY <4>1, <4>2 DEF LiveAt
    <3>3. v \in liveIn[x]
      BY <3>2 DEF Solved, InOf
    <3>4. first[x] <= PosOf(x, k)
      BY <1>1
    <3> QED BY <3>3, <3>4, TouchedAt
  <2> QED BY <2>1, <2>2
<1>4. v \in HasInterval
  BY <1>2 DEF HasInterval
<1>5. \A pos \in Touched(v) : pos \in Nat
  BY TouchedIs
<1>6. PosOf(x, k) \in Nat /\ IntervalOf(v).start \in Nat /\ IntervalOf(v).end \in Nat
  BY <1>4, PositionsAre, IntervalSpans
<1> QED BY <1>2, <1>3, <1>4, <1>5, <1>6, IntervalSpans DEF Within

\* What is needed before and after an instruction inside a block has an
\* interval that goes on on both sides.
LEMMA LiveAcross ==
  ASSUME LVTypes, NEW x \in Blocks, Solved(x), NEW k \in 1 .. Size(x), NEW v \in VReg,
         1 < k, k < Size(x), LiveAt(v, x, k), LiveAt(v, x, k + 1)
  PROVE  IntervalOf(v).start < PosOf(x, k) /\ PosOf(x, k) < IntervalOf(v).end
<1>1. /\ Size(x) \in Nat /\ first[x] \in Nat
      /\ \A m \in 1 .. Size(x) : PosOf(x, m) = first[x] + m - 1
  BY PositionsAre
<1>2. k - 1 \in 1 .. Size(x) /\ k + 1 \in 1 .. Size(x) /\ k - 1 < Size(x) /\ (k - 1) + 1 = k
  BY <1>1
<1>3. Within(v, x, k + 1)
  BY <1>2, LiveWithin
<1>4. v \in HasInterval /\ IntervalOf(v).start \in Nat /\ IntervalOf(v).end \in Nat
  BY <1>3, IntervalSpans DEF Within
<1>5. PosOf(x, k) < IntervalOf(v).end
  BY <1>1, <1>2, <1>3, <1>4 DEF Within
<1>6. IntervalOf(v).start <= PosOf(x, k - 1)
  <2>1. CASE v \in mf[x].insts[k - 1].def
    BY <1>2, <1>4, <2>1, TouchedAt, IntervalSpans
  <2>2. CASE v \notin mf[x].insts[k - 1].def
    <3>1. LiveAt(v, x, k - 1)
      BY <1>2, <2>2, LiveBack
    <3> QED BY <1>2, <3>1, LiveWithin DEF Within
  <2> QED BY <2>1, <2>2
<1>7. IntervalOf(v).start < PosOf(x, k)
  BY <1>1, <1>2, <1>4, <1>6
<1> QED BY <1>5, <1>7

\* The same function, the same sets: the same intervals.
LEMMA LivenessKept ==
  ASSUME UNCHANGED lvvars
  PROVE  /\ LVInv' <=> LVInv
         /\ Blocks' = Blocks /\ HasInterval' = HasInterval /\ CallPositions' = CallPositions
         /\ \A v \in VReg : (IntervalOf(v))' = IntervalOf(v)
         /\ \A x \in Blocks : (Size(x))' = Size(x)
<1>1. UNCHANGED <<mf, first, liveIn, liveOut, bi, changed, iterations, lphase>>
  BY DEF lvvars
<1>2. Blocks' = Blocks
  BY <1>1 DEF Blocks
<1>3. \A x \in Blocks : (Size(x))' = Size(x)
  BY <1>1 DEF Size
<1>4. \A v \in VReg : (Touched(v))' = Touched(v)
  BY <1>1 DEF Touched, PositionsOf, PosOf, LastPos, Size, Blocks
<1>5. CallPositions' = CallPositions
  BY <1>1 DEF CallPositions, PositionsOf, PosOf, Size, Blocks
<1>6. LVTypes' <=> LVTypes
  BY <1>1 DEF LVTypes, Blocks
<1>7. Settling' <=> Settling
  BY <1>1 DEF Settling, Solved, OutOf, InOf, Use, Def, Succs, Blocks
<1>8. Sound' <=> Sound
  BY <1>1 DEF Sound, LiveInBlocks, ClosedFor, Use, Def, Succs, Blocks
<1>9. HasInterval' = HasInterval /\ \A v \in VReg : (IntervalOf(v))' = IntervalOf(v)
  BY <1>4 DEF HasInterval, IntervalOf
<1> QED BY <1>2, <1>3, <1>5, <1>6, <1>7, <1>8, <1>9 DEF LVInv

-----------------------------------------------------------------------------
(* The whole allocation.                                                   *)

\* The intervals are those of all registers that are recorded, once each.
Listed ==
    /\ \A j \in Ids : order[j] \in HasInterval /\ iv[j] = IntervalOf(order[j])
    /\ \A j, k \in Ids : order[j] = order[k] => j = k
    /\ \A v \in HasInterval : \E j \in Ids : order[j] = v

Waiting ==
    stage = "liveness" =>
        cur = 1 /\ active = {} /\ regFree = Allocatable /\ nextSpill = Locals /\ calleeUsed = {}

Placed ==
    stage # "liveness" => lphase = "done" /\ Listed /\ calls = CallPositions /\ HomeInv

NotRunYet ==
    stage # "run" => blk = 1 /\ ix = 1 /\ vfile = [v \in VReg |-> Undef] /\ DOMAIN rfile = File

\* Every value still needed is in the home of its register.
Agrees ==
    \A v \in VReg : LiveAt(v, blk, ix) /\ vfile[v] # Undef => HomeValue(v) = vfile[v]

RunTypes ==
    /\ ScanDone /\ blk \in Blocks /\ ix \in 1 .. Size(blk)
    /\ DOMAIN vfile = VReg /\ DOMAIN rfile = File /\ DOMAIN stack = Spills

Running == stage = "run" => RunTypes /\ (~changed => Agrees)

RAInv == LVInv /\ stage \in {"liveness", "scan", "run"} /\ Waiting /\ Placed /\ NotRunYet /\ Running

LEMMA InitInv == Init => RAInv
<1> SUFFICES ASSUME Init PROVE RAInv
  OBVIOUS
<1>1. LVInv
  BY LivenessInit DEF Init
<1> QED BY <1>1 DEF Init, BeginScan, RAInv, Waiting, Placed, NotRunYet, Running

LEMMA FreshHomeNext == WellFormed' /\ Fresh' => HomeInv'
  BY FreshHome, PTL

LEMMA LivenessStepInv == RAInv /\ LivenessStep => RAInv'
<1> SUFFICES ASSUME RAInv, LivenessStep PROVE RAInv'
  OBVIOUS
<1>1. stage = "liveness" /\ UNCHANGED <<lsvars, order, stage, runvars>>
  BY DEF LivenessStep
<1>2. LVInv'
  BY VisitKept, EndPassKept DEF LivenessStep, LVNext, RAInv
<1>3. Waiting'
  BY <1>1 DEF RAInv, Waiting, lsvars, Allocatable
<1>4. NotRunYet'
  BY <1>1 DEF RAInv, NotRunYet, runvars
<1> QED BY <1>1, <1>2, <1>3, <1>4 DEF RAInv, Placed, Running

LEMMA BuildIntervalsInv == RAInv /\ BuildIntervals => RAInv'
<1> SUFFICES ASSUME RAInv, BuildIntervals PROVE RAInv'
  OBVIOUS
<1>1. /\ stage = "liveness" /\ lphase = "done" /\ stage' = "scan"
      /\ UNCHANGED lvvars /\ UNCHANGED <<cur, active, regFree, nextSpill, calleeUsed>>
      /\ UNCHANGED runvars
      /\ iv' = [j \in DOMAIN order' |-> IntervalOf(order'[j])]
      /\ calls' = CallPositions
      /\ phys' = [j \in DOMAIN order' |-> PhysNone] /\ slot' = [j \in DOMAIN order' |-> 0]
  BY DEF BuildIntervals
<1>2. PICK s \in SetToSeqs(HasInterval) :
        (\A j, k \in DOMAIN s : j < k => Before(s[j], s[k])) /\ order' = s
  BY DEF BuildIntervals
<1> DEFINE n == Cardinality(HasInterval)
<1>3. IsFiniteSet(HasInterval) /\ n \in Nat
  <2>1. HasInterval \subseteq VReg
    BY DEF HasInterval
  <2> QED BY <2>1, LivenessAssumption, FS_Subset, FS_CardinalityType
<1>4. /\ s \in [1 .. n -> HasInterval] /\ DOMAIN s = 1 .. n
      /\ \A i, j \in 1 .. n : s[i] = s[j] => i = j
  BY <1>2 DEF SetToSeqs
<1>5. \A v \in HasInterval : \E j \in 1 .. n : s[j] = v
  <2>1. s \in Injection(1 .. n, HasInterval)
    BY <1>4 DEF Injection, IsInjective
  <2>2. IsFiniteSet(1 .. n) /\ Cardinality(1 .. n) = n
    BY <1>3, FS_Interval
  <2> HIDE DEF n
  <2>3. s \in Surjection(1 .. n, HasInterval)
    BY <1>3, <2>1, <2>2, FS_Injection DEF n
  <2> QED BY <2>3 DEF Surjection
<1>6. Ids' = 1 .. n
  BY <1>1, <1>2, <1>4 DEF Ids
<1>7. \A v \in HasInterval : v \in VReg /\ IntervalOf(v) \in [start : Nat, end : Nat] /\ IntervalOf(v).start <= IntervalOf(v).end
  BY IntervalSpans DEF HasInterval, RAInv, LVInv
<1>8. \A j \in 1 .. n : iv'[j] = IntervalOf(s[j]) /\ s[j] \in HasInterval
  BY <1>1, <1>2, <1>4
<1>9. LVInv'
  BY <1>1, LivenessKept DEF RAInv
<1>10. Listed'
  <2>1. HasInterval' = HasInterval /\ \A v \in VReg : (IntervalOf(v))' = IntervalOf(v)
    BY <1>1, LivenessKept
  <2>2. \A j \in 1 .. n : order'[j] \in HasInterval' /\ iv'[j] = (IntervalOf(order[j]))'
    <3>1. SUFFICES ASSUME NEW j \in 1 .. n PROVE iv'[j] = (IntervalOf(order[j]))'
      BY <1>2, <1>8, <2>1
    <3>2. (IntervalOf(order[j]))' = IntervalOf(s[j])
      <4>1. (IntervalOf(s[j]))' = IntervalOf(s[j])
        BY <1>1, <1>7, <1>8 DEF IntervalOf, Touched, PositionsOf, PosOf, LastPos, Size, Blocks, lvvars
      <4> QED BY <1>1, <1>2, <4>1 DEF IntervalOf, Touched, PositionsOf, PosOf, LastPos, Size, Blocks, lvvars
    <3> QED BY <1>8, <3>2
  <2> QED BY <1>2, <1>4, <1>5, <1>6, <2>1, <2>2 DEF Listed
<1>11. WellFormed'
  <2>1. iv' \in [1 .. n -> [start : Int, end : Int]]
    <3>1. iv' = [j \in 1 .. n |-> IntervalOf(s[j])]
      BY <1>1, <1>2, <1>4
    <3>2. \A j \in 1 .. n : IntervalOf(s[j]) \in [start : Int, end : Int]
      BY <1>7, <1>8
    <3> QED BY <3>1, <3>2
  <2>2. \A j, k \in 1 .. n : j < k => iv'[j].start <= iv'[k].start
    <3>1. SUFFICES ASSUME NEW j \in 1 .. n, NEW k \in 1 .. n, j < k PROVE iv'[j].start <= iv'[k].start
      OBVIOUS
    <3>2. Before(s[j], s[k])
      BY <1>2, <1>4, <3>1
    <3>3. IntervalOf(s[j]).start \in Nat /\ IntervalOf(s[k]).start \in Nat
      BY <1>7, <1>8
    <3>4. IntervalOf(s[j]).start <= IntervalOf(s[k]).start
      BY <3>2, <3>3 DEF Before
    <3> QED BY <1>8, <3>4
  <2>3. \A j \in 1 .. n : iv'[j].start <= iv'[j].end
    BY <1>7, <1>8
  <2> QED BY <1>3, <1>6, <2>1, <2>2, <2>3 DEF WellFormed
<1>12. Fresh'
  BY <1>1, <1>2, <1>4, <1>6 DEF Fresh, RAInv, Waiting, Allocatable, PhysReg, PhysNone
<1>13. HomeInv'
  BY <1>11, <1>12, FreshHomeNext
<1>14. Placed'
  <2>1. lphase' = "done" /\ calls' = CallPositions'
    BY <1>1, LivenessKept DEF lvvars
  <2> QED BY <1>10, <1>13, <2>1 DEF Placed
<1>15. NotRunYet'
  BY <1>1 DEF RAInv, NotRunYet, runvars
<1> QED BY <1>1, <1>9, <1>14, <1>15 DEF RAInv, Waiting, Running

LEMMA ScanStepInv == RAInv /\ ScanStep => RAInv'
<1> SUFFICES ASSUME RAInv, ScanStep PROVE RAInv'
  OBVIOUS
<1>1. stage = "scan" /\ LSNext /\ UNCHANGED lvvars /\ UNCHANGED <<order, stage>> /\ UNCHANGED runvars
  BY DEF ScanStep
<1>2. UNCHANGED <<iv, calls>> /\ Ids' = Ids
  BY <1>1 DEF LSNext, AssignFree, SpillActive, SpillCurrent, Ids
<1>3. HomeInv'
  BY <1>1, HomeStep DEF RAInv, Placed
<1>4. /\ LVInv' /\ lphase' = lphase /\ HasInterval' = HasInterval /\ CallPositions' = CallPositions
      /\ \A v \in VReg : (IntervalOf(v))' = IntervalOf(v)
  BY <1>1, LivenessKept DEF RAInv, lvvars
<1>5. Listed'
  <2>1. Listed
    BY <1>1 DEF RAInv, Placed
  <2>2. \A j \in Ids : (IntervalOf(order[j]))' = IntervalOf(order[j])
    BY <1>1 DEF IntervalOf, Touched, PositionsOf, PosOf, LastPos, Size, Blocks, lvvars
  <2> QED BY <1>1, <1>2, <1>4, <2>1, <2>2 DEF Listed
<1>6. Placed'
  BY <1>1, <1>2, <1>3, <1>4, <1>5 DEF RAInv, Placed
<1>7. NotRunYet'
  BY <1>1 DEF RAInv, NotRunYet, runvars
<1> QED BY <1>1, <1>4, <1>6, <1>7 DEF RAInv, Waiting, Running

\* Nothing that says where the registers are has changed.
LEMMA PlacedKept ==
  ASSUME RAInv, stage # "liveness", UNCHANGED <<lvvars, lsvars, order>>
  PROVE  Placed'
<1>1. UNCHANGED <<iv, calls, cur, active, regFree, phys, slot, nextSpill, calleeUsed>> /\ Ids' = Ids /\ UNCHANGED lvvars
  BY DEF lsvars, Ids
<1>2. HomeInv'
  BY HomeStep DEF RAInv, Placed
<1>3. Listed'
  <2>1. Listed /\ HasInterval' = HasInterval
    BY <1>1, LivenessKept DEF RAInv, Placed
  <2>2. \A j \in Ids : (IntervalOf(order[j]))' = IntervalOf(order[j])
    BY <1>1 DEF IntervalOf, Touched, PositionsOf, PosOf, LastPos, Size, Blocks, lvvars
  <2> QED BY <1>1, <2>1, <2>2 DEF Listed
<1>4. lphase' = "done" /\ calls' = CallPositions'
  BY <1>1, LivenessKept DEF RAInv, Placed, lvvars
<1> QED BY <1>2, <1>3, <1>4 DEF Placed

LEMMA FinishScanInv == RAInv /\ FinishScan => RAInv'
<1> SUFFICES ASSUME RAInv, FinishScan PROVE RAInv'
  OBVIOUS
<1>1. /\ stage = "scan" /\ stage' = "run" /\ ScanDone /\ stack' = [o \in Spills |-> Undef]
      /\ UNCHANGED lvvars /\ UNCHANGED lsvars /\ UNCHANGED <<order, blk, ix, vfile, rfile>>
  BY DEF FinishScan
<1>2. /\ UNCHANGED <<iv, calls, cur, active, regFree, phys, slot, nextSpill, calleeUsed>> /\ Ids' = Ids
  BY <1>1 DEF lsvars, Ids
<1>3. LVInv' /\ Blocks' = Blocks /\ \A x \in Blocks : (Size(x))' = Size(x)
  BY <1>1, LivenessKept DEF RAInv
<1>4. Placed'
  BY <1>1, PlacedKept
<1>5. blk = 1 /\ ix = 1 /\ vfile = [v \in VReg |-> Undef] /\ DOMAIN rfile = File
  BY <1>1 DEF RAInv, NotRunYet
<1>6. RunTypes'
  <2>1. 1 \in Blocks /\ Size(1) \in Nat \ {0}
    BY FunctionIs DEF RAInv, LVInv, LVTypes
  <2>2. blk' \in Blocks' /\ ix' \in 1 .. (Size(blk))'
    BY <1>1, <1>3, <1>5, <2>1
  <2>3. ScanDone' /\ DOMAIN stack' = Spills'
    BY <1>1, <1>2 DEF ScanDone, Spills
  <2> QED BY <1>1, <1>5, <2>2, <2>3 DEF RunTypes, File, PhysReg
<1>7. Agrees'
  BY <1>1, <1>5 DEF Agrees
<1> QED BY <1>1, <1>3, <1>4, <1>6, <1>7 DEF RAInv, Waiting, NotRunYet, Running

-----------------------------------------------------------------------------
(* The allocated function runs.                                            *)

\* Of the registers of the function, each has a home of its own.
LEMMA Homes ==
  ASSUME RAInv, stage = "run", NEW v \in HasInterval
  PROVE  /\ HomeIndex(v) \in Ids /\ order[HomeIndex(v)] = v /\ iv[HomeIndex(v)] = IntervalOf(v)
         /\ Spilled(v) => slot[HomeIndex(v)] \in Spills /\ HomeValue(v) = stack[slot[HomeIndex(v)]]
         /\ ~Spilled(v) => phys[HomeIndex(v)] \in PhysReg /\ HomeValue(v) = rfile[phys[HomeIndex(v)]]
<1>1. Listed /\ HomeInv /\ ScanDone
  BY DEF RAInv, Placed, Running, RunTypes
<1>2. HomeIndex(v) \in Ids /\ order[HomeIndex(v)] = v
  BY <1>1 DEF HomeIndex, Listed
<1>3. Scanned(HomeIndex(v))
  <2>1. HomeIndex(v) \in 1 .. Len(iv) /\ Len(iv) \in Nat /\ cur \in Nat
    BY <1>1, <1>2 DEF HomeInv, LSInv, WellFormed, Types, Ids
  <2> QED BY <1>1, <1>2, <2>1 DEF Scanned, ScanDone
<1>4. (phys[HomeIndex(v)] # PhysNone) # (slot[HomeIndex(v)] # 0)
  BY <1>1, <1>2, <1>3 DEF HomeInv, OneHome
<1>5. phys[HomeIndex(v)] \in PhysReg \cup {PhysNone}
  BY <1>1, <1>2 DEF HomeInv, LSInv, Types
<1> QED BY <1>1, <1>2, <1>4, <1>5 DEF Listed, Spilled, Spills, HomeValue

\* Two registers that are within their intervals at one position are not in
\* one place.
LEMMA HomesApart ==
  ASSUME RAInv, stage = "run", NEW v \in HasInterval, NEW w \in HasInterval, v # w,
         NEW x \in Blocks, NEW k \in 1 .. Size(x), Within(v, x, k), Within(w, x, k)
  PROVE  /\ Spilled(v) /\ Spilled(w) => slot[HomeIndex(v)] # slot[HomeIndex(w)]
         /\ ~Spilled(v) /\ ~Spilled(w) => phys[HomeIndex(v)] # phys[HomeIndex(w)]
<1> DEFINE j == HomeIndex(v)
           m == HomeIndex(w)
<1>1. Listed /\ HomeInv /\ ScanDone
  BY DEF RAInv, Placed, Running, RunTypes
<1>2. j \in Ids /\ m \in Ids /\ j # m /\ iv[j] = IntervalOf(v) /\ iv[m] = IntervalOf(w)
  BY Homes
<1>3. Spilled(v) /\ Spilled(w) => slot[j] # slot[m]
  <2> SUFFICES ASSUME slot[j] # 0, slot[m] # 0 PROVE slot[j] # slot[m]
    BY DEF Spilled
  <2>1. slot[j] + 8 <= slot[m] \/ slot[m] + 8 <= slot[j]
    BY <1>1, <1>2 DEF HomeInv, OneHome
  <2>2. slot[j] \in Nat /\ slot[m] \in Nat
    BY <1>1, <1>2 DEF HomeInv, SlotTypes
  <2> QED BY <2>1, <2>2
<1>4. ASSUME ~Spilled(v), ~Spilled(w), phys[j] = phys[m] PROVE FALSE
  <2>1. phys[j] # PhysNone
    BY <1>4, Homes, NoneIsNoRegister
  <2>2. Scanned(j) /\ Scanned(m)
    <3>1. j \in 1 .. Len(iv) /\ m \in 1 .. Len(iv) /\ Len(iv) \in Nat /\ cur \in Nat
      BY <1>1, <1>2 DEF HomeInv, LSInv, WellFormed, Types, Ids
    <3> QED BY <1>1, <1>2, <3>1 DEF Scanned, ScanDone
  <2>3. iv[j].end < iv[m].start \/ iv[m].end < iv[j].start
    BY <1>1, <1>2, <1>4, <2>1, <2>2 DEF HomeInv, LSInv, NoConflict
  <2>4. /\ iv[j].start \in Nat /\ iv[j].end \in Nat /\ iv[m].start \in Nat /\ iv[m].end \in Nat
    BY <1>2, IntervalSpans DEF RAInv, LVInv
  <2>5. PosOf(x, k) \in Nat
    BY PositionsAre DEF RAInv, LVInv
  <2>6. /\ iv[j].start <= PosOf(x, k) /\ PosOf(x, k) <= iv[j].end
        /\ iv[m].start <= PosOf(x, k) /\ PosOf(x, k) <= iv[m].end
    BY <1>2 DEF Within
  <2> QED BY <2>3, <2>4, <2>5, <2>6
<1> QED BY <1>3, <1>4

LEMMA InstIs ==
  ASSUME RAInv, stage = "run"
  PROVE  /\ blk \in Blocks /\ ix \in 1 .. Size(blk) /\ Inst \in MachineInst
         /\ Inst.def = {} \/ \E w \in VReg : Inst.def = {w}
         /\ \A w \in Inst.def : w \in HasInterval /\ Within(w, blk, ix)
         /\ Inst.op = "call" => 1 < ix /\ ix < Size(blk)
<1>1. LVTypes /\ RunTypes
  BY DEF RAInv, LVInv, Running
<1>2. blk \in Blocks /\ ix \in 1 .. Size(blk) /\ Inst \in MachineInst
  BY <1>1, PositionsAre DEF RunTypes, Inst
<1>3. Inst.def = {} \/ \E w \in VReg : Inst.def = {w}
  BY <1>2 DEF MachineInst
<1>4. ASSUME NEW w \in Inst.def PROVE w \in HasInterval /\ Within(w, blk, ix)
  <2>1. w \in VReg /\ PosOf(blk, ix) \in Touched(w)
    BY <1>1, <1>2, <1>3, TouchedAt DEF Inst
  <2>2. w \in HasInterval
    BY <2>1 DEF HasInterval
  <2> QED BY <1>1, <2>1, <2>2, IntervalSpans DEF Within
<1>5. Inst.op = "call" => 1 < ix /\ ix < Size(blk)
  <2>1. mf[blk].insts[1].op # "call" /\ mf[blk].insts[Size(blk)].op # "call" /\ Size(blk) \in Nat
    BY <1>1, <1>2, FunctionIs DEF LVTypes
  <2>2. Inst.op = "call" => ix # 1 /\ ix # Size(blk)
    BY <2>1 DEF Inst
  <2> QED BY <1>2, <2>1, <2>2
<1> QED BY <1>2, <1>3, <1>4, <1>5

\* What one instruction leaves in the files and on the stack.
LEMMA ExecuteIs ==
  ASSUME RAInv, stage = "run", Execute
  PROVE  /\ DOMAIN vfile' = VReg /\ DOMAIN rfile' = File /\ DOMAIN stack' = Spills
         /\ \A w \in Inst.def :
              /\ vfile'[w] = Pos
              /\ Spilled(w) => stack'[slot[HomeIndex(w)]] = Pos
              /\ ~Spilled(w) => rfile'[phys[HomeIndex(w)]] = Pos
         /\ \A v \in VReg \ Inst.def : vfile'[v] = vfile[v]
         /\ \A o \in Spills :
              (\A w \in Inst.def : Spilled(w) => slot[HomeIndex(w)] # o) => stack'[o] = stack[o]
         /\ \A r \in PhysReg :
              /\ \A w \in Inst.def : ~Spilled(w) => phys[HomeIndex(w)] # r
              /\ Inst.op = "call" => r \in CalleeSaved
              => rfile'[r] = rfile[r]
<1> DEFINE file == Clobber(Inst, Reload(Inst, rfile))
<1>1. DOMAIN file = File /\ PhysReg \subseteq File
  BY DEF Clobber, File
<1>2. \A r \in PhysReg : (Inst.op = "call" => r \in CalleeSaved) => file[r] = rfile[r]
  BY FunctionsAssumption DEF Clobber, Reload, File
<1>3. DOMAIN vfile = VReg /\ DOMAIN rfile = File /\ DOMAIN stack = Spills
  BY DEF RAInv, Running, RunTypes
<1> HIDE DEF file
<1>4. CASE Inst.def = {}
  <2>1. rfile' = file /\ UNCHANGED <<vfile, stack>>
    BY <1>4 DEF Execute, file
  <2> QED BY <1>1, <1>2, <1>3, <1>4, <2>1
<1>5. CASE \E w \in VReg : Inst.def = {w}
  <2>1. PICK w \in VReg : Inst.def = {w}
    BY <1>5
  <2>2. w \in HasInterval
    BY <2>1, InstIs
  <2>3. /\ vfile' = [vfile EXCEPT ![w] = Pos]
        /\ IF Spilled(w)
             THEN stack' = [stack EXCEPT ![slot[HomeIndex(w)]] = Pos] /\ rfile' = file
             ELSE rfile' = [file EXCEPT ![phys[HomeIndex(w)]] = Pos] /\ UNCHANGED stack
    BY <2>1 DEF Execute, file
  <2>4. /\ Spilled(w) => slot[HomeIndex(w)] \in Spills
        /\ ~Spilled(w) => phys[HomeIndex(w)] \in PhysReg
    BY <2>2, Homes
  <2>5. vfile'[w] = Pos /\ DOMAIN vfile' = VReg /\ \A v \in VReg \ {w} : vfile'[v] = vfile[v]
    BY <1>3, <2>3
  <2>6. CASE Spilled(w)
    <3>1. /\ DOMAIN stack' = Spills /\ stack'[slot[HomeIndex(w)]] = Pos /\ rfile' = file
          /\ \A o \in Spills : slot[HomeIndex(w)] # o => stack'[o] = stack[o]
      BY <1>3, <2>3, <2>4, <2>6
    <3> QED BY <1>1, <1>2, <2>1, <2>5, <2>6, <3>1
  <2>7. CASE ~Spilled(w)
    <3>1. /\ DOMAIN rfile' = File /\ rfile'[phys[HomeIndex(w)]] = Pos /\ stack' = stack
          /\ \A r \in PhysReg : phys[HomeIndex(w)] # r => rfile'[r] = file[r]
      BY <1>1, <2>3, <2>4, <2>7
    <3> QED BY <1>2, <1>3, <2>1, <2>5, <2>7, <3>1
  <2> QED BY <2>6, <2>7
<1> QED BY <1>4, <1>5, InstIs

\* After an instruction, what it wrote and what is needed across it are in
\* their homes.
LEMMA ExecuteAgrees ==
  ASSUME RAInv, stage = "run", Execute, UNCHANGED <<lvvars, lsvars, order>>,
         NEW v \in VReg, vfile'[v] # Undef,
         \/ v \in Inst.def
         \/ /\ Within(v, blk, ix) /\ HomeValue(v) = vfile[v]
            /\ Inst.op = "call" =>
                 IntervalOf(v).start < PosOf(blk, ix) /\ PosOf(blk, ix) < IntervalOf(v).end
  PROVE  HomeValue(v)' = vfile'[v]
<1>1. /\ blk \in Blocks /\ ix \in 1 .. Size(blk) /\ v \in HasInterval /\ Within(v, blk, ix)
      /\ \A w \in Inst.def : w \in HasInterval /\ Within(w, blk, ix)
  BY InstIs DEF Within
<1>2. HomeValue(v)' = IF Spilled(v) THEN stack'[slot[HomeIndex(v)]] ELSE rfile'[phys[HomeIndex(v)]]
  <2>1. UNCHANGED <<iv, phys, slot, order>>
    BY DEF lsvars
  <2> QED BY <2>1 DEF HomeValue, Spilled, HomeIndex, Ids
<1>3. CASE v \in Inst.def
  BY <1>2, <1>3, ExecuteIs
<1>4. CASE v \notin Inst.def
  <2>1. vfile'[v] = vfile[v]
    BY <1>4, ExecuteIs
  <2>2. CASE Spilled(v)
    <3>1. \A w \in Inst.def : Spilled(w) => slot[HomeIndex(w)] # slot[HomeIndex(v)]
      BY <1>1, <1>4, <2>2, HomesApart
    <3>2. slot[HomeIndex(v)] \in Spills /\ HomeValue(v) = stack[slot[HomeIndex(v)]]
      BY <1>1, <2>2, Homes
    <3>3. stack'[slot[HomeIndex(v)]] = stack[slot[HomeIndex(v)]]
      BY <3>1, <3>2, ExecuteIs
    <3> QED BY <1>2, <1>4, <2>1, <2>2, <3>2, <3>3
  <2>3. CASE ~Spilled(v)
    <3>1. \A w \in Inst.def : ~Spilled(w) => phys[HomeIndex(w)] # phys[HomeIndex(v)]
      BY <1>1, <1>4, <2>3, HomesApart
    <3>2. phys[HomeIndex(v)] \in PhysReg /\ HomeValue(v) = rfile[phys[HomeIndex(v)]]
      BY <1>1, <2>3, Homes
    <3>3. Inst.op = "call" => phys[HomeIndex(v)] \in CalleeSaved
      <4> SUFFICES ASSUME Inst.op = "call" PROVE phys[HomeIndex(v)] \in CalleeSaved
        OBVIOUS
      <4>1. Listed /\ HomeInv /\ ScanDone /\ calls = CallPositions
        BY DEF RAInv, Placed, Running, RunTypes
      <4>2. HomeIndex(v) \in Ids /\ iv[HomeIndex(v)] = IntervalOf(v)
        BY <1>1, Homes
      <4>3. PosOf(blk, ix) \in calls
        BY <1>1, <4>1 DEF CallPositions, PositionsOf, Inst
      <4>4. CrossesCall(HomeIndex(v))
        <5>1. IntervalOf(v).end \in Nat /\ PosOf(blk, ix) \in Nat
          BY <1>1, IntervalSpans, PositionsAre DEF RAInv, LVInv
        <5> QED BY <1>4, <4>2, <4>3, <5>1 DEF CrossesCall
      <4>5. Scanned(HomeIndex(v))
        <5>1. HomeIndex(v) \in 1 .. Len(iv) /\ Len(iv) \in Nat /\ cur \in Nat
          BY <4>1, <4>2 DEF HomeInv, LSInv, WellFormed, Types, Ids
        <5> QED BY <4>1, <4>2, <5>1 DEF Scanned, ScanDone
      <4>6. phys[HomeIndex(v)] # PhysNone
        BY <3>2, NoneIsNoRegister
      <4> QED BY <4>1, <4>2, <4>4, <4>5, <4>6 DEF HomeInv, LSInv, CallSafe
    <3>4. rfile'[phys[HomeIndex(v)]] = rfile[phys[HomeIndex(v)]]
      BY <3>1, <3>2, <3>3, ExecuteIs
    <3> QED BY <1>2, <1>4, <2>1, <2>3, <3>2, <3>4
  <2> QED BY <2>2, <2>3
<1> QED BY <1>3, <1>4

\* What is unaffected by running.
LEMMA RunKept ==
  ASSUME RAInv, stage = "run", Execute, UNCHANGED <<lvvars, lsvars, order, stage>>,
         blk' \in Blocks, ix' \in 1 .. Size(blk'), ~changed => Agrees'
  PROVE  RAInv'
<1>1. LVInv' /\ Blocks' = Blocks /\ \A x \in Blocks : (Size(x))' = Size(x)
  BY LivenessKept DEF RAInv
<1>2. Placed'
  BY PlacedKept
<1>3. UNCHANGED <<iv, slot, cur, changed, mf>> /\ Ids' = Ids /\ stage' = "run"
  BY DEF lsvars, lvvars, Ids
<1>4. ScanDone' /\ DOMAIN vfile' = VReg /\ DOMAIN rfile' = File' /\ DOMAIN stack' = Spills'
  <2>1. ScanDone
    BY DEF RAInv, Running, RunTypes
  <2> QED BY <1>3, <2>1, ExecuteIs DEF ScanDone, Spills, File, PhysReg
<1>5. blk' \in Blocks' /\ ix' \in 1 .. (Size(blk))'
  BY <1>1, <1>3 DEF Size
<1>6. Running'
  BY <1>3, <1>4, <1>5 DEF Running, RunTypes
<1> QED BY <1>1, <1>2, <1>3, <1>6 DEF RAInv, Waiting, NotRunYet

LEMMA StepInv == RAInv /\ Step => RAInv'
<1> SUFFICES ASSUME RAInv, Step PROVE RAInv'
  OBVIOUS
<1>1. /\ stage = "run" /\ ix < Size(blk) /\ Execute /\ ix' = ix + 1
      /\ UNCHANGED <<lvvars, lsvars, order, stage, blk>> /\ UNCHANGED mf
  BY DEF Step, lvvars
<1>2. blk \in Blocks /\ ix \in 1 .. Size(blk) /\ Size(blk) \in Nat
  BY <1>1, InstIs, FunctionIs DEF RAInv, LVInv, LVTypes
<1>3. ASSUME ~changed PROVE Agrees'
  <2> SUFFICES ASSUME NEW v \in VReg, LiveAt(v, blk, ix)', vfile'[v] # Undef
               PROVE  HomeValue(v)' = vfile'[v]
    BY DEF Agrees
  <2>1. LiveAt(v, blk, ix + 1)
    BY <1>1 DEF LiveAt, Size, lvvars
  <2>2. Solved(blk) /\ LVTypes /\ Agrees
    BY <1>1, <1>2, <1>3, Fixpoint DEF RAInv, Placed, LVInv, Running
  <2>3. CASE v \in Inst.def
    BY <1>1, <2>3, ExecuteAgrees
  <2>4. CASE v \notin Inst.def
    <3>1. LiveAt(v, blk, ix)
      BY <1>1, <1>2, <2>1, <2>2, <2>4, LiveBack DEF Inst
    <3>2. vfile'[v] = vfile[v]
      BY <1>1, <2>4, ExecuteIs
    <3>3. HomeValue(v) = vfile[v]
      BY <2>2, <3>1, <3>2 DEF Agrees
    <3>4. Within(v, blk, ix)
      BY <1>2, <2>2, <3>1, LiveWithin
    <3>5. Inst.op = "call" =>
            IntervalOf(v).start < PosOf(blk, ix) /\ PosOf(blk, ix) < IntervalOf(v).end
      BY <1>1, <1>2, <2>1, <2>2, <3>1, InstIs, LiveAcross
    <3> QED BY <1>1, <3>3, <3>4, <3>5, ExecuteAgrees
  <2> QED BY <2>3, <2>4
<1>4. ix' \in 1 .. Size(blk')
  BY <1>1, <1>2
<1> QED BY <1>1, <1>2, <1>3, <1>4, RunKept

LEMMA JumpInv == RAInv /\ Jump => RAInv'
<1> SUFFICES ASSUME RAInv, Jump PROVE RAInv'
  OBVIOUS
<1>1. /\ stage = "run" /\ ix = Size(blk) /\ Execute /\ ix' = 1 /\ blk' \in Succs(blk)
      /\ UNCHANGED <<lvvars, lsvars, order, stage>> /\ UNCHANGED <<mf, liveOut>>
  BY DEF Jump, lvvars
<1>2. /\ blk \in Blocks /\ ix \in 1 .. Size(blk) /\ Size(blk) \in Nat /\ mf \in MachineFuncs
      /\ blk' \in Blocks /\ Size(blk') \in Nat \ {0} /\ DOMAIN mf[blk'].insts = 1 .. Size(blk')
  BY <1>1, InstIs, FunctionIs DEF RAInv, LVInv, LVTypes
<1>3. ASSUME ~changed PROVE Agrees'
  <2> SUFFICES ASSUME NEW v \in VReg, LiveAt(v, blk, ix)', vfile'[v] # Undef
               PROVE  HomeValue(v)' = vfile'[v]
    BY DEF Agrees
  <2>1. LiveAt(v, blk', 1)
    BY <1>1 DEF LiveAt, Size
  <2>2. Solved(blk) /\ Solved(blk') /\ LVTypes /\ Agrees
    BY <1>1, <1>2, <1>3, Fixpoint DEF RAInv, Placed, LVInv, Running
  <2>3. v \in liveIn[blk']
    <3>1. v \in Use(blk') \/ v \in liveOut[blk'] \ Def(blk')
      BY <1>2, <2>1 DEF LiveAt, Use, Def
    <3> QED BY <2>2, <3>1 DEF Solved, InOf
  <2>4. v \in liveOut[blk]
    BY <1>1, <2>2, <2>3 DEF Solved, OutOf
  <2>5. CASE v \in Inst.def
    BY <1>1, <2>5, ExecuteAgrees
  <2>6. CASE v \notin Inst.def
    <3>1. LiveAt(v, blk, ix)
      <4>1. \A n \in ix .. Size(blk) : v \notin mf[blk].insts[n].def
        BY <1>1, <1>2, <2>6 DEF Inst
      <4> QED BY <2>4, <4>1 DEF LiveAt
    <3>2. vfile'[v] = vfile[v]
      BY <1>1, <2>6, ExecuteIs
    <3>3. HomeValue(v) = vfile[v]
      BY <2>2, <3>1, <3>2 DEF Agrees
    <3>4. Within(v, blk, ix)
      BY <1>2, <2>2, <3>1, LiveWithin
    <3>5. Inst.op # "call"
      BY <1>1, <1>2, InstIs
    <3> QED BY <1>1, <3>3, <3>4, <3>5, ExecuteAgrees
  <2> QED BY <2>5, <2>6
<1>4. ix' \in 1 .. Size(blk')
  BY <1>1, <1>2
<1> QED BY <1>1, <1>2, <1>3, <1>4, RunKept

LEMMA RAStep == RAInv /\ [Next]_vars => RAInv'
<1> SUFFICES ASSUME RAInv, [Next]_vars PROVE RAInv'
  OBVIOUS
<1>1. CASE LivenessStep
  BY <1>1, LivenessStepInv
<1>2. CASE BuildIntervals
  BY <1>2, BuildIntervalsInv
<1>3. CASE ScanStep
  BY <1>3, ScanStepInv
<1>4. CASE FinishScan
  BY <1>4, FinishScanInv
<1>5. CASE Step
  BY <1>5, StepInv
<1>6. CASE Jump
  BY <1>6, JumpInv
<1>7. CASE UNCHANGED vars
  <2>1. /\ UNCHANGED <<lvvars, lsvars, order>> /\ UNCHANGED <<stage, blk, ix, vfile, rfile, stack>>
    BY <1>7 DEF vars, runvars
  <2>2. /\ LVInv' /\ UNCHANGED <<mf, liveOut, lphase, changed>> /\ Blocks' = Blocks
        /\ \A x \in Blocks : (Size(x))' = Size(x)
    BY <2>1, LivenessKept DEF RAInv, lvvars
  <2>3. /\ UNCHANGED <<iv, calls, cur, active, regFree, phys, slot, nextSpill, calleeUsed>>
    BY <2>1 DEF lsvars
  <2>4. Waiting' /\ NotRunYet'
    BY <2>1, <2>3 DEF RAInv, Waiting, NotRunYet, Allocatable, File, PhysReg
  <2>5. Placed'
    <3>1. CASE stage = "liveness"
      BY <2>1, <3>1 DEF Placed
    <3>2. CASE stage # "liveness"
      BY <2>1, <3>2, PlacedKept
    <3> QED BY <3>1, <3>2
  <2>6. RunTypes' <=> RunTypes
    BY <2>1, <2>2, <2>3 DEF RunTypes, ScanDone, Spills, File, PhysReg, Ids, Size, Blocks
  <2>7. Agrees' <=> Agrees
    BY <2>1, <2>2, <2>3 DEF Agrees, LiveAt, HomeValue, Spilled, HomeIndex, Ids, Size
  <2>8. Running'
    BY <2>1, <2>2, <2>6, <2>7 DEF RAInv, Running
  <2> QED BY <2>1, <2>2, <2>4, <2>5, <2>8 DEF RAInv
<1> QED BY <1>1, <1>2, <1>3, <1>4, <1>5, <1>6, <1>7 DEF Next

\* Unless the cap stopped the iteration early, the bitsets the intervals are
\* built from are exactly the liveness of the function: whatever its blocks,
\* its loops and the order they are laid out in.
THEOREM LivenessIsExact == Spec => [](FixpointBeforeCap => LivenessCorrect)
<1>1. RAInv => (FixpointBeforeCap => LivenessCorrect)
  <2> SUFFICES ASSUME RAInv, FixpointBeforeCap PROVE LivenessExact
    BY DEF LivenessCorrect
  <2>1. CASE lphase = "done"
    BY <2>1, Fixpoint DEF RAInv, FixpointBeforeCap
  <2>2. CASE lphase # "done"
    BY <2>2 DEF RAInv, LVInv, Sound, LivenessExact
  <2> QED BY <2>1, <2>2
<1> QED BY InitInv, RAStep, <1>1, PTL DEF Spec

\* Every interval covers every position at which its register is still needed.
THEOREM IntervalsCover == Spec => [](FixpointBeforeCap => IntervalsCoverLiveness)
<1>1. RAInv => (FixpointBeforeCap => IntervalsCoverLiveness)
  <2> SUFFICES ASSUME RAInv, FixpointBeforeCap, stage = "scan",
                      NEW j \in Ids, NEW x \in Blocks, NEW k \in 1 .. Size(x),
                      LiveBefore(order[j], x, k)
               PROVE  iv[j].start <= PosOf(x, k) /\ PosOf(x, k) <= iv[j].end
    BY DEF IntervalsCoverLiveness
  <2>1. lphase = "done" /\ Listed /\ ~changed /\ LVTypes
    BY DEF RAInv, Placed, FixpointBeforeCap, LVInv
  <2>2. order[j] \in VReg /\ iv[j] = IntervalOf(order[j])
    BY <2>1 DEF Listed, HasInterval
  <2>3. Solved(x) /\ LivenessExact
    BY <2>1, Fixpoint DEF RAInv
  <2>4. LiveAt(order[j], x, k)
    BY <2>1, <2>2, <2>3 DEF LiveBefore, LiveAt, LivenessExact
  <2> QED BY <2>1, <2>2, <2>3, <2>4, LiveWithin DEF Within
<1> QED BY InitInv, RAStep, <1>1, PTL DEF Spec

\* The allocated function reads what the function with virtual registers
\* reads: along every path, through every call, for every register file and
\* every choice of what to spill.
THEOREM AllocationPreservesReads == Spec => [](FixpointBeforeCap => ReadsAgree)
<1>1. RAInv => (FixpointBeforeCap => ReadsAgree)
  <2> SUFFICES ASSUME RAInv, FixpointBeforeCap, stage = "run", NEW v \in Reads(Inst), vfile[v] # Undef
               PROVE  HomeValue(v) = vfile[v]
    BY DEF ReadsAgree
  <2>1. Agrees /\ ix \in 1 .. Size(blk) /\ Size(blk) \in Nat
    BY FunctionIs DEF RAInv, Placed, FixpointBeforeCap, Running, RunTypes, LVInv, LVTypes
  <2>2. v \in VReg
    BY InstIs DEF MachineInst, Reads
  <2>3. LiveAt(v, blk, ix)
    <3>1. ix \in ix .. Size(blk) /\ \A n \in ix .. ix - 1 : FALSE
      BY <2>1
    <3> QED BY <3>1 DEF LiveAt, Inst
  <2> QED BY <2>1, <2>2, <2>3 DEF Agrees
<1> QED BY InitInv, RAStep, <1>1, PTL DEF Spec

-----------------------------------------------------------------------------
(* The cap.  A pass that changes anything adds a register to a set, so the *)
(* passes are never more than the memberships there can be.                *)

Members ==
    {p \in {"in", "out"} \X (Blocks \X VReg) :
        p[2][2] \in IF p[1] = "in" THEN liveIn[p[2][1]] ELSE liveOut[p[2][1]]}

\* Every function of the instance has fewer possible memberships than passes.
FunctionsWithinCap ==
    \A f \in MachineFuncs : 2 * (Len(f) * Cardinality(VReg)) < MaxIterations

PassesCounted ==
    /\ iterations \in Nat \ {0}
    /\ (IF changed THEN iterations ELSE iterations - 1) <= Cardinality(Members)

Growing == \A x \in Blocks : liveIn[x] \subseteq InOf(x, liveOut[x])

CapInv ==
    /\ PassesCounted /\ Growing
    /\ lphase = "done" /\ changed => iterations >= MaxIterations

LEMMA MembersAre ==
  ASSUME LVTypes
  PROVE  /\ IsFiniteSet(Members) /\ Cardinality(Members) \in Nat
         /\ Cardinality(Members) <= 2 * (Len(mf) * Cardinality(VReg))
<1> DEFINE A == {"in", "out"}
           B == Blocks \X VReg
<1>1. IsFiniteSet(A) /\ Cardinality(A) = 2
  <2>1. IsFiniteSet({"in"}) /\ Cardinality({"in"}) = 1
    BY FS_Singleton
  <2>2. A = {"in"} \cup {"out"} /\ "out" \notin {"in"}
    OBVIOUS
  <2>3. IsFiniteSet({"in"} \cup {"out"}) /\ Cardinality({"in"} \cup {"out"}) = 2
    BY <2>1, <2>2, FS_AddElement
  <2> QED BY <2>2, <2>3
<1>2. Blocks = 1 .. Len(mf) /\ Len(mf) \in Nat
  BY FunctionIs DEF LVTypes
<1>3. IsFiniteSet(Blocks) /\ Cardinality(Blocks) = Len(mf)
  <2>1. IsFiniteSet(1 .. Len(mf)) /\ Cardinality(1 .. Len(mf)) = Len(mf)
    BY <1>2, FS_Interval
  <2> QED BY <1>2, <2>1
<1>4. IsFiniteSet(VReg) /\ Cardinality(VReg) \in Nat
  BY LivenessAssumption, FS_CardinalityType
<1>5. IsFiniteSet(B) /\ Cardinality(B) = Len(mf) * Cardinality(VReg)
  <2>1. IsFiniteSet(Blocks \X VReg) /\ Cardinality(Blocks \X VReg) = Cardinality(Blocks) * Cardinality(VReg)
    BY <1>3, <1>4, FS_Product
  <2> QED BY <1>3, <2>1
<1> HIDE DEF A, B
<1>6. IsFiniteSet(A \X B) /\ Cardinality(A \X B) = 2 * (Len(mf) * Cardinality(VReg))
  <2>1. IsFiniteSet(A \X B) /\ Cardinality(A \X B) = Cardinality(A) * Cardinality(B)
    BY <1>1, <1>5, FS_Product
  <2> QED BY <1>1, <1>5, <2>1
<1>7. Members \subseteq A \X B
  BY DEF Members, A, B
<1>8. IsFiniteSet(Members) /\ Cardinality(Members) <= Cardinality(A \X B)
  BY <1>6, <1>7, FS_Subset
<1> QED BY <1>6, <1>8, FS_CardinalityType

MembersFinite == IsFiniteSet(Members) /\ Cardinality(Members) \in Nat

LEMMA MembersNext == (LVTypes => MembersFinite) /\ (LVTypes' => MembersFinite')
<1>1. LVTypes => MembersFinite
  BY MembersAre DEF MembersFinite
<1> QED BY <1>1, PTL

LEMMA CapInit == Init => CapInv
<1> SUFFICES ASSUME Init PROVE CapInv
  OBVIOUS
<1>1. LVTypes
  BY LivenessInit DEF Init, LVInv
<1>2. iterations = 1 /\ changed = FALSE /\ lphase = "walk" /\ \A x \in Blocks : liveIn[x] = {}
  BY DEF Init, BeginLiveness, Blocks
<1> QED BY <1>1, <1>2, MembersAre DEF CapInv, PassesCounted, Growing

LEMMA VisitCounted ==
  ASSUME LVInv, CapInv, VisitBlock
  PROVE  CapInv'
<1>0. /\ bi \in Blocks /\ Blocks' = Blocks /\ lphase = "walk" /\ lphase' = lphase /\ iterations' = iterations
      /\ mf' = mf /\ LVTypes /\ LVTypes'
  <2>1. LVInv'
    BY VisitKept
  <2>2. mf' = mf /\ bi > 0 /\ bi \in 0 .. Len(mf) /\ mf \in MachineFuncs
    BY DEF VisitBlock, VisitAt, LVInv, LVTypes
  <2>3. Blocks = 1 .. Len(mf) /\ Len(mf) \in Nat
    BY <2>2, FunctionIs
  <2> QED BY <2>1, <2>2, <2>3 DEF Blocks, VisitBlock, VisitAt, LVInv
<1> DEFINE out == OutOf(bi)
           in == InOf(bi, out)
<1>1. /\ liveOut' = [liveOut EXCEPT ![bi] = out] /\ liveIn' = [liveIn EXCEPT ![bi] = in]
      /\ changed' <=> (changed \/ out # liveOut[bi] \/ in # liveIn[bi])
  BY DEF VisitBlock, VisitAt
<1>2. liveOut[bi] \subseteq out /\ liveIn[bi] \subseteq in
  BY <1>0 DEF OutOf, InOf, CapInv, Growing
<1>3. \A x \in Blocks : /\ liveOut'[x] = IF x = bi THEN out ELSE liveOut[x]
                        /\ liveIn'[x] = IF x = bi THEN in ELSE liveIn[x]
  BY <1>0, <1>1 DEF LVTypes
<1> HIDE DEF out, in
<1>4. Growing'
  <2> SUFFICES ASSUME NEW x \in Blocks PROVE liveIn'[x] \subseteq (InOf(x, liveOut[x]))'
    BY <1>0 DEF Growing
  <2>1. (InOf(x, liveOut[x]))' = InOf(x, liveOut'[x])
    BY <1>0 DEF InOf, Use, Def
  <2> QED BY <1>3, <2>1 DEF CapInv, Growing, in
<1>5. Members \subseteq Members'
  BY <1>0, <1>2, <1>3 DEF Members
<1>6. ASSUME changed', ~changed PROVE Members # Members'
  <2>1. CASE out # liveOut[bi]
    <3>1. PICK v \in VReg : v \in out /\ v \notin liveOut[bi]
      <4>1. liveOut'[bi] \in SUBSET VReg
        BY <1>0 DEF LVTypes
      <4> QED BY <1>0, <1>2, <1>3, <2>1, <4>1
    <3>2. <<"out", <<bi, v>>>> \in Members' /\ <<"out", <<bi, v>>>> \notin Members
      BY <1>0, <1>3, <3>1 DEF Members
    <3> QED BY <3>2
  <2>2. CASE in # liveIn[bi]
    <3>1. PICK v \in VReg : v \in in /\ v \notin liveIn[bi]
      <4>1. liveIn'[bi] \in SUBSET VReg
        BY <1>0 DEF LVTypes
      <4> QED BY <1>0, <1>2, <1>3, <2>2, <4>1
    <3>2. <<"in", <<bi, v>>>> \in Members' /\ <<"in", <<bi, v>>>> \notin Members
      BY <1>0, <1>3, <3>1 DEF Members
    <3> QED BY <3>2
  <2> QED BY <1>1, <1>6, <2>1, <2>2
<1>7. IsFiniteSet(Members') /\ Cardinality(Members') \in Nat /\ Cardinality(Members) \in Nat
  <2>1. MembersFinite /\ MembersFinite'
    BY <1>0, MembersNext
  <2> QED BY <2>1 DEF MembersFinite
<1>8. Cardinality(Members) <= Cardinality(Members') /\ (Members # Members' => Cardinality(Members) < Cardinality(Members'))
  BY <1>5, <1>7, FS_Subset
<1>9. PassesCounted'
  <2>1. changed \in BOOLEAN /\ changed' \in BOOLEAN
    BY <1>0 DEF LVTypes
  <2>2. /\ iterations \in Nat \ {0}
        /\ (IF changed THEN iterations ELSE iterations - 1) <= Cardinality(Members)
    BY DEF CapInv, PassesCounted
  <2>3. CASE changed
    BY <1>0, <1>1, <1>7, <1>8, <2>2, <2>3 DEF PassesCounted
  <2>4. CASE ~changed /\ changed'
    BY <1>0, <1>6, <1>7, <1>8, <2>2, <2>4 DEF PassesCounted
  <2>5. CASE ~changed /\ ~changed'
    BY <1>0, <1>7, <1>8, <2>2, <2>5 DEF PassesCounted
  <2> QED BY <2>1, <2>3, <2>4, <2>5
<1> QED BY <1>0, <1>4, <1>9 DEF CapInv

LEMMA EndPassCounted ==
  ASSUME LVInv, CapInv, EndPass
  PROVE  CapInv'
<1>1. /\ UNCHANGED <<mf, first, liveIn, liveOut>> /\ Members' = Members /\ Blocks' = Blocks
  BY DEF EndPass, Members, Blocks
<1>2. Growing'
  BY <1>1 DEF CapInv, Growing, InOf, Use, Def
<1>3. /\ iterations \in Nat \ {0} /\ changed \in BOOLEAN /\ MaxIterations \in Nat
      /\ (IF changed THEN iterations ELSE iterations - 1) <= Cardinality(Members)
  BY LivenessAssumption DEF CapInv, PassesCounted, LVInv, LVTypes
<1>4. CASE changed /\ iterations < MaxIterations
  <2>1. changed' = FALSE /\ iterations' = iterations + 1 /\ lphase' = lphase /\ lphase = "walk"
    BY <1>4 DEF EndPass, IterationCap
  <2>2. PassesCounted'
    BY <1>1, <1>3, <1>4, <2>1 DEF PassesCounted
  <2> QED BY <1>2, <2>1, <2>2 DEF CapInv
<1>5. CASE ~(changed /\ iterations < MaxIterations)
  <2>1. changed' = changed /\ iterations' = iterations
    BY <1>5 DEF EndPass, IterationCap
  <2>2. PassesCounted'
    BY <1>1, <1>3, <2>1 DEF PassesCounted
  <2>3. changed' => iterations' >= MaxIterations
    BY <1>3, <1>5, <2>1
  <2> QED BY <1>2, <2>2, <2>3 DEF CapInv
<1> QED BY <1>4, <1>5

LEMMA CapStep == RAInv /\ CapInv /\ [Next]_vars => CapInv'
<1> SUFFICES ASSUME RAInv, CapInv, [Next]_vars PROVE CapInv'
  OBVIOUS
<1>1. CASE LivenessStep
  BY <1>1, VisitCounted, EndPassCounted DEF LivenessStep, LVNext, RAInv
<1>2. CASE UNCHANGED lvvars
  <2>1. UNCHANGED <<mf, first, liveIn, liveOut, bi, changed, iterations, lphase>> /\ Blocks' = Blocks
    BY <1>2 DEF lvvars, Blocks
  <2>2. Members' = Members
    BY <2>1 DEF Members
  <2>3. Growing'
    BY <2>1 DEF CapInv, Growing, InOf, Use, Def
  <2> QED BY <2>1, <2>2, <2>3 DEF CapInv, PassesCounted
<1> QED BY <1>1, <1>2 DEF Next, vars, BuildIntervals, ScanStep, FinishScan, Step, Jump

\* For functions with fewer possible memberships than the cap has passes, the
\* cap never cuts the iteration short, so nothing above needs it assumed.
THEOREM CapSuffices == FunctionsWithinCap => (Spec => []FixpointBeforeCap)
<1>1. FunctionsWithinCap /\ RAInv /\ CapInv => FixpointBeforeCap
  <2> SUFFICES ASSUME FunctionsWithinCap, RAInv, CapInv, lphase = "done", changed PROVE FALSE
    BY DEF FixpointBeforeCap
  <2>1. LVTypes /\ mf \in MachineFuncs
    BY DEF RAInv, LVInv, LVTypes
  <2>2. iterations >= MaxIterations /\ iterations \in Nat /\ iterations <= Cardinality(Members)
    BY DEF CapInv, PassesCounted
  <2>3. Cardinality(Members) <= 2 * (Len(mf) * Cardinality(VReg)) /\ Cardinality(Members) \in Nat
    BY <2>1, MembersAre
  <2>4. 2 * (Len(mf) * Cardinality(VReg)) < MaxIterations
    BY <2>1 DEF FunctionsWithinCap
  <2>5. MaxIterations \in Nat /\ Len(mf) * Cardinality(VReg) \in Nat
    <3>1. Len(mf) \in Nat /\ Cardinality(VReg) \in Nat
      BY <2>1, FunctionIs, LivenessAssumption, FS_CardinalityType
    <3> QED BY <3>1, LivenessAssumption
  <2> HIDE DEF FunctionsWithinCap
  <2> QED BY <2>2, <2>3, <2>4, <2>5
<1> SUFFICES ASSUME FunctionsWithinCap PROVE Spec => []FixpointBeforeCap
  OBVIOUS
<1>2. RAInv /\ CapInv => FixpointBeforeCap
  BY <1>1
<1> QED BY InitInv, CapInit, RAStep, CapStep, <1>2, PTL DEF Spec

\* So for those functions the liveness, the intervals and every read of the
\* allocated function are right without further assumption.
THEOREM AllocationWithinCap ==
  FunctionsWithinCap => (Spec => [](LivenessCorrect /\ IntervalsCoverLiveness /\ ReadsAgree))
<1> SUFFICES ASSUME FunctionsWithinCap PROVE Spec => [](LivenessCorrect /\ IntervalsCoverLiveness /\ ReadsAgree)
  OBVIOUS
<1>1. Spec => []FixpointBeforeCap
  BY CapSuffices
<1> QED BY <1>1, LivenessIsExact, IntervalsCover, AllocationPreservesReads, PTL
=============================================================================

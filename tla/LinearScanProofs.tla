-------------------------- MODULE LinearScanProofs --------------------------
(***************************************************************************)
(* For every set of intervals, every register file and every placement of  *)
(* calls: the linear scan never gives one register to two intervals that   *)
(* overlap, and never a caller-saved one to an interval across a call.     *)
(***************************************************************************)
EXTENDS LinearScan, TLAPS

\* The intervals are well formed and sorted by start, the calls fixed.
WellFormed ==
    /\ \E n \in Nat : iv \in [1 .. n -> [start : Int, end : Int]]
    /\ \A j, k \in Ids : j < k => iv[j].start <= iv[k].start
    /\ \A j \in Ids : iv[j].start <= iv[j].end

Types ==
    /\ cur \in Nat \ {0}
    /\ active \subseteq Ids
    /\ regFree \subseteq PhysReg \ Reserved
    /\ phys \in [Ids -> PhysReg \cup {PhysNone}]

\* Active intervals have been scanned, hold registers, and no two the same.
ActiveHold ==
    /\ \A j \in active : j < cur /\ phys[j] # PhysNone /\ phys[j] \notin regFree
    /\ \A j, k \in active : phys[j] = phys[k] => j = k

\* An interval in a register that is no longer active has ended before every
\* interval still to come starts.
Expired ==
    \A j, k \in Ids :
        phys[j] # PhysNone /\ j \notin active /\ k >= cur => iv[j].end < iv[k].start

\* Only scanned intervals have a register.
Unscanned == \A j \in Ids : j >= cur => phys[j] = PhysNone

NotReserved == \A j \in Ids : phys[j] # PhysNone => phys[j] \notin Reserved

LSInv ==
    /\ WellFormed /\ Types /\ ActiveHold /\ Expired /\ Unscanned
    /\ NotReserved /\ NoConflict /\ CallSafe

LEMMA NoneIsNoRegister == PhysNone \notin PhysReg
  BY ScanAssumption DEF PhysNone, PhysReg

\* Nothing scanned yet.
Fresh ==
    /\ cur = 1 /\ active = {} /\ regFree = Allocatable
    /\ phys = [j \in Ids |-> PhysNone] /\ slot = [j \in Ids |-> 0]
    /\ nextSpill = Locals /\ calleeUsed = {}

LEMMA FreshScan == WellFormed /\ Fresh => LSInv
<1> SUFFICES ASSUME WellFormed, Fresh PROVE LSInv
  OBVIOUS
<1>1. \A j \in Ids : phys[j] = PhysNone
  BY DEF Fresh
<1>2. Types
  BY DEF Types, Fresh, Allocatable
<1>3. ActiveHold
  BY DEF ActiveHold, Fresh
<1> QED BY <1>1, <1>2, <1>3 DEF LSInv, Expired, Unscanned, NotReserved, NoConflict, CallSafe

LEMMA InitFresh == LSInit => WellFormed /\ Fresh
<1> SUFFICES ASSUME NEW n \in 0 .. MaxIntervals, NEW x \in SortedIntervals(n),
                    NEW c \in SUBSET (0 .. MaxPos), BeginScan(x, c)
             PROVE  WellFormed /\ Fresh
  BY DEF LSInit
<1>1. x \in [1 .. n -> Interval] /\ iv = x /\ Ids = 1 .. n
  BY DEF SortedIntervals, BeginScan, Ids
<1>2. n \in Nat
  BY ScanAssumption
<1>3. WellFormed
  <2>1. \A j \in 1 .. n : x[j] \in [start : Int, end : Int] /\ x[j].start <= x[j].end
    BY <1>1, ScanAssumption DEF Interval
  <2>2. x \in [1 .. n -> [start : Int, end : Int]]
    BY <1>1, <2>1
  <2>3. \A j, k \in 1 .. n : j < k => x[j].start <= x[k].start
    BY DEF SortedIntervals
  <2> QED BY <1>1, <1>2, <2>1, <2>2, <2>3 DEF WellFormed
<1> QED BY <1>1, <1>3 DEF Fresh, BeginScan, Ids

LEMMA ScanInit == LSInit => LSInv
  BY InitFresh, FreshScan

\* What is known once the intervals that ended before cur have been expired.
LEMMA AfterExpiry ==
  ASSUME LSInv, cur \in Ids
  PROVE  /\ Live \subseteq active
         /\ FreeAfterExpiry \subseteq PhysReg \ Reserved
         /\ \A j \in Live : phys[j] \notin FreeAfterExpiry
         /\ \A j, k \in Ids : phys[j] # PhysNone /\ j \notin Live /\ k >= cur
                                => iv[j].end < iv[k].start
         /\ cur \notin active /\ phys[cur] = PhysNone
<1>1. Live \subseteq active
  BY DEF Live
<1>2. \A j \in active : j \in Ids /\ phys[j] \in PhysReg \ Reserved
  BY DEF LSInv, Types, ActiveHold, NotReserved
<1>3. FreeAfterExpiry \subseteq PhysReg \ Reserved
  BY <1>2 DEF FreeAfterExpiry, LSInv, Types
<1>4. \A j \in Live : phys[j] \notin FreeAfterExpiry
  BY <1>1 DEF FreeAfterExpiry, LSInv, ActiveHold, Live
<1>5. \A j, k \in Ids : phys[j] # PhysNone /\ j \notin Live /\ k >= cur
                          => iv[j].end < iv[k].start
  <2> SUFFICES ASSUME NEW j \in Ids, NEW k \in Ids,
                      phys[j] # PhysNone, j \notin Live, k >= cur
               PROVE  iv[j].end < iv[k].start
    OBVIOUS
  <2>0. /\ cur \in Int /\ j \in Int /\ k \in Int
        /\ iv[j].end \in Int /\ iv[cur].start \in Int /\ iv[k].start \in Int
    BY DEF LSInv, WellFormed, Ids
  <2>1. CASE j \notin active
    BY <2>1 DEF LSInv, Expired
  <2>2. CASE j \in active
    <3>1. iv[j].end < iv[cur].start
      BY <2>2 DEF Live
    <3>2. iv[cur].start <= iv[k].start
      BY <2>0 DEF LSInv, WellFormed
    <3> QED BY <2>0, <3>1, <3>2
  <2> QED BY <2>1, <2>2
<1>6. cur \in Int
  BY DEF LSInv, Types
<1>7. cur \notin active /\ phys[cur] = PhysNone
  BY <1>6 DEF LSInv, ActiveHold, Unscanned
<1> QED BY <1>1, <1>3, <1>4, <1>5, <1>7

\* Giving cur a register that no live interval holds keeps NoConflict.
LEMMA GiveRegister ==
  ASSUME LSInv, cur \in Ids,
         NEW r \in PhysReg \ Reserved,
         NEW keep \in SUBSET Live,
         \A j \in keep : phys[j] # r,
         Allowed(r),
         active' = keep \cup {cur},
         \A j \in Ids : phys'[j] = IF j = cur THEN r
                                   ELSE IF j \in Live \ keep THEN PhysNone
                                   ELSE phys[j],
         phys' \in [Ids -> PhysReg \cup {PhysNone}],
         regFree' \subseteq PhysReg \ Reserved,
         r \notin regFree', \A j \in keep : phys[j] \notin regFree',
         cur' = cur + 1,
         UNCHANGED <<iv, calls>>
  PROVE  LSInv'
<1> USE NoneIsNoRegister
<1>0. Ids' = Ids /\ cur \in Nat \ {0} /\ cur' \in Nat \ {0}
      /\ \A j \in Ids : j \in Int
  BY DEF Ids, LSInv, Types, WellFormed
<1>1. WellFormed'
  BY <1>0 DEF LSInv, WellFormed
<1>e. /\ Live \subseteq active /\ cur \notin active /\ phys[cur] = PhysNone
      /\ \A j, k \in Ids : phys[j] # PhysNone /\ j \notin Live /\ k >= cur
                                => iv[j].end < iv[k].start
  BY AfterExpiry
<1>a. keep \subseteq Ids /\ \A j \in keep : j < cur /\ j # cur /\ phys'[j] = phys[j] /\ phys[j] # PhysNone
  BY <1>e, <1>0 DEF LSInv, ActiveHold, Types
<1>2. Types'
  BY <1>0, <1>a DEF LSInv, Types
<1>3. ActiveHold'
  <2>1. phys'[cur] = r /\ r # PhysNone
    OBVIOUS
  <2>2. \A j \in active' : j < cur' /\ phys'[j] # PhysNone /\ phys'[j] \notin regFree'
    BY <1>0, <1>a, <2>1
  <2>3. \A j, k \in active' : phys'[j] = phys'[k] => j = k
    BY <1>a, <1>e, <2>1 DEF LSInv, ActiveHold
  <2> QED BY <2>2, <2>3 DEF ActiveHold
<1>4. Expired'
  <2> SUFFICES ASSUME NEW j \in Ids, NEW k \in Ids,
                      phys'[j] # PhysNone, j \notin active', k >= cur'
               PROVE  iv[j].end < iv[k].start
    BY <1>0 DEF Expired
  <2>1. j # cur /\ j \notin Live /\ phys[j] # PhysNone /\ k >= cur
    BY <1>0
  <2> QED BY <1>e, <2>1
<1>5. Unscanned'
  <2> SUFFICES ASSUME NEW j \in Ids, j >= cur + 1 PROVE phys'[j] = PhysNone
    BY <1>0 DEF Unscanned
  <2>1. j # cur /\ phys[j] = PhysNone
    BY <1>0 DEF LSInv, Unscanned
  <2> QED BY <2>1
<1>6. NotReserved'
  BY <1>0 DEF LSInv, NotReserved
<1>7. NoConflict'
  <2> SUFFICES ASSUME NEW j \in Ids, NEW k \in Ids, j < cur + 1, k < cur + 1, j # k,
                      phys'[j] # PhysNone, phys'[j] = phys'[k]
               PROVE  iv[j].end < iv[k].start \/ iv[k].end < iv[j].start
    BY <1>0 DEF NoConflict, Scanned
  <2>1. CASE j # cur /\ k # cur
    <3>1. phys[j] = phys'[j] /\ phys[k] = phys'[k]
      BY <2>1
    <3>2. j < cur /\ k < cur
      BY <1>0, <2>1
    <3> QED BY <3>1, <3>2 DEF LSInv, NoConflict, Scanned
  <2>2. CASE j = cur
    <3>1. k # cur /\ phys[k] = r /\ k \notin Live /\ phys[k] # PhysNone
      BY <2>2, <1>a
    <3> QED BY <1>0, <1>e, <2>2, <3>1
  <2>3. CASE k = cur
    <3>1. j # cur /\ phys[j] = r /\ j \notin Live /\ phys[j] # PhysNone
      BY <2>3, <1>a
    <3> QED BY <1>0, <1>e, <2>3, <3>1
  <2> QED BY <2>1, <2>2, <2>3
<1>8. CallSafe'
  <2> SUFFICES ASSUME NEW j \in Ids, j < cur + 1, phys'[j] # PhysNone, CrossesCall(j)
               PROVE  phys'[j] \in CalleeSaved
    BY <1>0 DEF CallSafe, Scanned, CrossesCall
  <2>1. CASE j = cur
    BY <2>1 DEF Allowed, IsCallerSaved
  <2>2. CASE j # cur
    <3>1. phys'[j] = phys[j] /\ j < cur
      BY <1>0, <2>2
    <3> QED BY <3>1 DEF LSInv, CallSafe, Scanned
  <2> QED BY <2>1, <2>2
<1> QED BY <1>1, <1>2, <1>3, <1>4, <1>5, <1>6, <1>7, <1>8 DEF LSInv

LEMMA AssignFreeInv == LSInv /\ AssignFree => LSInv'
<1> SUFFICES ASSUME LSInv, AssignFree PROVE LSInv'
  OBVIOUS
<1>1. PICK k \in Usable :
        /\ phys' = [phys EXCEPT ![cur] = AllocOrder[k]]
        /\ regFree' = FreeAfterExpiry \ {AllocOrder[k]}
  BY DEF AssignFree
<1> DEFINE r == AllocOrder[k]
<1>2. cur \in Ids /\ active' = Live \cup {cur} /\ cur' = cur + 1 /\ UNCHANGED <<iv, calls>>
  BY DEF AssignFree
<1>3. r \in FreeAfterExpiry /\ Allowed(r)
  BY DEF Usable
<1>4. /\ FreeAfterExpiry \subseteq PhysReg \ Reserved
      /\ \A j \in Live : phys[j] \notin FreeAfterExpiry
  BY <1>2, AfterExpiry
<1>5. \A j \in Live : phys[j] # r
  BY <1>3, <1>4
<1>6. phys' \in [Ids -> PhysReg \cup {PhysNone}]
      /\ \A j \in Ids : phys'[j] = IF j = cur THEN r ELSE phys[j]
  BY <1>1, <1>3, <1>4 DEF LSInv, Types
<1>7. \A j \in Ids : phys'[j] = IF j = cur THEN r
                                ELSE IF j \in Live \ Live THEN PhysNone ELSE phys[j]
  BY <1>6
<1>8. /\ regFree' \subseteq PhysReg \ Reserved
      /\ r \notin regFree' /\ \A j \in Live : phys[j] \notin regFree'
      /\ r \in PhysReg \ Reserved
  BY <1>1, <1>3, <1>4
<1> HIDE DEF r
<1> QED BY <1>2, <1>3, <1>5, <1>6, <1>7, <1>8, GiveRegister

LEMMA SpillActiveInv == LSInv /\ SpillActive => LSInv'
<1> SUFFICES ASSUME LSInv, SpillActive PROVE LSInv'
  OBVIOUS
<1>1. PICK s \in Victims :
        /\ phys' = [phys EXCEPT ![s] = PhysNone, ![cur] = phys[s]]
        /\ active' = (Live \ {s}) \cup {cur}
  BY DEF SpillActive, NewSlot, ActiveAfterSpill
<1> DEFINE r == phys[s]
           keep == Live \ {s}
<1>2. cur \in Ids /\ cur' = cur + 1 /\ regFree' = FreeAfterExpiry /\ UNCHANGED <<iv, calls>>
  BY DEF SpillActive, NewSlot, ActiveAfterSpill
<1>3. s \in Live /\ Allowed(r)
  BY DEF Victims
<1>4. /\ Live \subseteq active /\ cur \notin active
      /\ FreeAfterExpiry \subseteq PhysReg \ Reserved
      /\ \A j \in Live : phys[j] \notin FreeAfterExpiry
  BY <1>2, AfterExpiry
<1>5. s \in active /\ s \in Ids /\ s # cur /\ r # PhysNone
  BY <1>3, <1>4 DEF LSInv, ActiveHold, Types
<1>6. r \in PhysReg \ Reserved
  BY <1>5 DEF LSInv, Types, NotReserved
<1>7. \A j \in keep : phys[j] # r
  BY <1>3, <1>4, <1>5 DEF LSInv, ActiveHold
<1>8. phys' \in [Ids -> PhysReg \cup {PhysNone}]
  BY <1>1, <1>6 DEF LSInv, Types
<1>9. \A j \in Ids : phys'[j] = IF j = cur THEN r
                                ELSE IF j \in Live \ keep THEN PhysNone ELSE phys[j]
  BY <1>1, <1>2, <1>3, <1>5 DEF LSInv, Types
<1>10. /\ regFree' \subseteq PhysReg \ Reserved
       /\ r \notin regFree' /\ \A j \in keep : phys[j] \notin regFree'
  BY <1>2, <1>3, <1>4
<1>11. active' = keep \cup {cur} /\ keep \in SUBSET Live
  BY <1>1
<1> HIDE DEF r, keep
<1> QED BY <1>2, <1>3, <1>6, <1>7, <1>8, <1>9, <1>10, <1>11, GiveRegister

LEMMA SpillCurrentInv == LSInv /\ SpillCurrent => LSInv'
<1> SUFFICES ASSUME LSInv, SpillCurrent PROVE LSInv'
  OBVIOUS
<1>1. /\ cur \in Ids /\ cur' = cur + 1 /\ active' = Live /\ regFree' = FreeAfterExpiry
      /\ UNCHANGED <<iv, calls, phys>>
  BY DEF SpillCurrent, NewSlot
<1>2. /\ Live \subseteq active /\ cur \notin active /\ phys[cur] = PhysNone
      /\ FreeAfterExpiry \subseteq PhysReg \ Reserved
      /\ \A j \in Live : phys[j] \notin FreeAfterExpiry
      /\ \A j, k \in Ids : phys[j] # PhysNone /\ j \notin Live /\ k >= cur
                                => iv[j].end < iv[k].start
  BY <1>1, AfterExpiry
<1>3. Ids' = Ids /\ cur \in Nat \ {0} /\ \A j \in Ids : j \in Int
  BY <1>1 DEF Ids, LSInv, Types, WellFormed
<1>4. WellFormed'
  BY <1>1, <1>3 DEF LSInv, WellFormed
<1>5. Types'
  BY <1>1, <1>2, <1>3 DEF LSInv, Types
<1>6. ActiveHold'
  <2>1. \A j \in Live : j < cur + 1 /\ phys[j] # PhysNone
    BY <1>2, <1>3 DEF LSInv, ActiveHold, Types
  <2> QED BY <1>1, <1>2, <2>1 DEF LSInv, ActiveHold
<1>7. Expired'
  <2> SUFFICES ASSUME NEW j \in Ids, NEW k \in Ids,
                      phys[j] # PhysNone, j \notin Live, k >= cur + 1
               PROVE  iv[j].end < iv[k].start
    BY <1>1, <1>3 DEF Expired
  <2>1. k >= cur
    BY <1>3
  <2> QED BY <1>2, <2>1
<1>8. Unscanned'
  BY <1>1, <1>3 DEF LSInv, Unscanned
<1>9. NotReserved'
  BY <1>1, <1>3 DEF LSInv, NotReserved
<1>10. NoConflict'
  <2>1. \A j \in Ids : j < cur + 1 /\ phys[j] # PhysNone => j < cur
    BY <1>2, <1>3
  <2> QED BY <1>1, <1>3, <2>1 DEF LSInv, NoConflict, Scanned
<1>11. CallSafe'
  <2>1. \A j \in Ids : j < cur + 1 /\ phys[j] # PhysNone => j < cur
    BY <1>2, <1>3
  <2> QED BY <1>1, <1>3, <2>1 DEF LSInv, CallSafe, Scanned, CrossesCall
<1> QED BY <1>4, <1>5, <1>6, <1>7, <1>8, <1>9, <1>10, <1>11 DEF LSInv

LEMMA ScanKept == LSInv /\ [LSNext]_lsvars => LSInv'
<1> SUFFICES ASSUME LSInv, [LSNext]_lsvars PROVE LSInv'
  OBVIOUS
<1>1. CASE AssignFree
  BY <1>1, AssignFreeInv
<1>2. CASE SpillActive
  BY <1>2, SpillActiveInv
<1>3. CASE SpillCurrent
  BY <1>3, SpillCurrentInv
<1>4. CASE UNCHANGED lsvars
  <2>1. UNCHANGED <<iv, calls, cur, active, regFree, phys>> /\ Ids' = Ids
    BY <1>4 DEF lsvars, Ids
  <2>2. WellFormed' /\ Types' /\ ActiveHold'
    BY <2>1 DEF LSInv, WellFormed, Types, ActiveHold
  <2>3. Expired' /\ Unscanned' /\ NotReserved'
    BY <2>1 DEF LSInv, Expired, Unscanned, NotReserved
  <2>4. NoConflict'
    BY <2>1 DEF LSInv, NoConflict, Scanned
  <2>5. CallSafe'
    BY <2>1 DEF LSInv, CallSafe, Scanned, CrossesCall
  <2> QED BY <2>2, <2>3, <2>4, <2>5 DEF LSInv
<1> QED BY <1>1, <1>2, <1>3, <1>4 DEF LSNext

\* Overlapping live intervals never share a physical register, whatever the
\* intervals, the register set and the spill decisions.
THEOREM ScanNoConflict == LSSpec => []NoConflict
<1>1. LSInv => NoConflict
  BY DEF LSInv
<1> QED BY ScanInit, ScanKept, <1>1, PTL DEF LSSpec

\* An interval that is live across a call is in a callee-saved register or in
\* memory, whatever the positions of the calls.
THEOREM ScanCallSafe == LSSpec => []CallSafe
<1>1. LSInv => CallSafe
  BY DEF LSInv
<1> QED BY ScanInit, ScanKept, <1>1, PTL DEF LSSpec

-----------------------------------------------------------------------------
(* Homes.  Beside the registers: the slots handed out so far lie between    *)
(* the locals and nextSpill, and what is still to be scanned has none.      *)

SlotTypes == slot \in [Ids -> Nat] /\ nextSpill \in Nat /\ Locals <= nextSpill

NoSlotYet == \A j \in Ids : j >= cur => slot[j] = 0

HomeInv == LSInv /\ SlotTypes /\ NoSlotYet /\ OneHome /\ FrameContract

\* The part of OneHome that is about slots alone.
SlotsApart ==
    \A j, k \in Ids :
        slot[j] # 0 =>
           /\ slot[j] >= Locals + 8 /\ slot[j] <= nextSpill
           /\ (j # k /\ slot[k] # 0) =>
                (slot[j] + 8 <= slot[k] \/ slot[k] + 8 <= slot[j])

LEMMA FreshHome == WellFormed /\ Fresh => HomeInv
<1> SUFFICES ASSUME WellFormed, Fresh PROVE HomeInv
  OBVIOUS
<1>1. LSInv
  BY FreshScan
<1>2. \A j \in Ids : ~Scanned(j)
  BY <1>1 DEF Fresh, Scanned, LSInv, WellFormed, Ids
<1> QED BY <1>1, <1>2, ScanAssumption DEF Fresh, HomeInv, SlotTypes, NoSlotYet, OneHome, FrameContract

LEMMA HomeInit == LSInit => HomeInv
  BY InitFresh, FreshHome

\* A slot taken above nextSpill overlaps none of those before it.
LEMMA FreshSlot ==
  ASSUME SlotTypes, SlotsApart, NEW s \in Ids, slot[s] = 0,
         slot' = [slot EXCEPT ![s] = NewSlot], nextSpill' = nextSpill + 8, iv' = iv
  PROVE  SlotTypes' /\ SlotsApart'
<1>1. Locals \in Nat /\ nextSpill \in Nat /\ Locals <= nextSpill
  BY ScanAssumption DEF SlotTypes
<1>2. Ids' = Ids /\ NewSlot = nextSpill + 8
  BY DEF Ids, NewSlot
<1>3. \A j \in Ids : slot[j] \in Nat /\ slot'[j] = IF j = s THEN nextSpill + 8 ELSE slot[j]
  BY <1>2 DEF SlotTypes
<1>4. SlotTypes'
  BY <1>1, <1>2 DEF SlotTypes
<1>5. SlotsApart'
  <2> SUFFICES ASSUME NEW j \in Ids, NEW k \in Ids, slot'[j] # 0
               PROVE  /\ slot'[j] >= Locals + 8 /\ slot'[j] <= nextSpill + 8
                      /\ (j # k /\ slot'[k] # 0) =>
                           (slot'[j] + 8 <= slot'[k] \/ slot'[k] + 8 <= slot'[j])
    BY <1>2 DEF SlotsApart
  <2>1. \A m \in Ids : slot[m] # 0 => slot[m] >= Locals + 8 /\ slot[m] <= nextSpill
    BY DEF SlotsApart
  <2>2. slot'[j] >= Locals + 8 /\ slot'[j] <= nextSpill + 8
    BY <1>1, <1>3, <2>1
  <2>3. ASSUME j # k, slot'[k] # 0
        PROVE  slot'[j] + 8 <= slot'[k] \/ slot'[k] + 8 <= slot'[j]
    <3>1. CASE j = s
      BY <1>1, <1>3, <2>1, <2>3, <3>1
    <3>2. CASE k = s
      BY <1>1, <1>3, <2>1, <2>3, <3>2
    <3>3. CASE j # s /\ k # s
      BY <1>3, <2>3, <3>3 DEF SlotsApart
    <3> QED BY <3>1, <3>2, <3>3
  <2> QED BY <2>2, <2>3
<1> QED BY <1>4, <1>5

\* A register that is taken is recorded if it is callee-saved.
LEMMA RecordedUse ==
  ASSUME FrameContract, iv' = iv,
         NEW r, UseRegister(r), r \notin Reserved,
         \A j \in Ids : phys'[j] \in {r, PhysNone, phys[j]}
  PROVE  FrameContract'
<1>1. Ids' = Ids
  BY DEF Ids
<1>2. calleeUsed \subseteq calleeUsed' /\ (r \in CalleeSaved => r \in calleeUsed')
  BY DEF UseRegister
<1> QED BY <1>1, <1>2 DEF FrameContract

LEMMA AssignFreeHome == HomeInv /\ AssignFree => HomeInv'
<1> SUFFICES ASSUME HomeInv, AssignFree PROVE HomeInv'
  OBVIOUS
<1>1. LSInv /\ LSInv'
  BY AssignFreeInv DEF HomeInv
<1>2. PICK k \in Usable :
        /\ phys' = [phys EXCEPT ![cur] = AllocOrder[k]]
        /\ UseRegister(AllocOrder[k])
  BY DEF AssignFree
<1>3. cur \in Ids /\ cur' = cur + 1 /\ UNCHANGED <<iv, slot, nextSpill>> /\ Ids' = Ids
  BY DEF AssignFree, Ids
<1>4. AllocOrder[k] \in PhysReg \ Reserved
  BY <1>1, <1>3, AfterExpiry DEF Usable
<1>5. /\ \A j \in Ids : phys'[j] = IF j = cur THEN AllocOrder[k] ELSE phys[j]
      /\ \A j \in Ids : j \in Int
      /\ cur \in Int
  BY <1>1, <1>2, <1>3 DEF LSInv, Types, WellFormed, Ids
<1>6. FrameContract'
  BY <1>2, <1>3, <1>4, <1>5, RecordedUse DEF HomeInv
<1>7. SlotTypes' /\ NoSlotYet'
  <2>1. SlotTypes'
    BY <1>3 DEF HomeInv, SlotTypes
  <2>2. ASSUME NEW j \in Ids, j >= cur + 1 PROVE slot[j] = 0
    <3>1. j >= cur
      BY <1>5, <2>2
    <3> QED BY <3>1 DEF HomeInv, NoSlotYet
  <2> QED BY <1>3, <2>1, <2>2 DEF NoSlotYet
<1>8. OneHome'
  <2>1. ASSUME NEW j \in Ids, j < cur + 1
        PROVE  (phys'[j] # PhysNone) # (slot[j] # 0)
    <3>1. CASE j = cur
      BY <1>4, <1>5, <3>1, NoneIsNoRegister DEF HomeInv, NoSlotYet
    <3>2. CASE j # cur
      BY <1>5, <2>1, <3>2 DEF HomeInv, OneHome, Scanned
    <3> QED BY <3>1, <3>2
  <2> QED BY <1>3, <2>1 DEF HomeInv, OneHome, Scanned
<1> QED BY <1>1, <1>6, <1>7, <1>8 DEF HomeInv

LEMMA SpillActiveHome == HomeInv /\ SpillActive => HomeInv'
<1> SUFFICES ASSUME HomeInv, SpillActive PROVE HomeInv'
  OBVIOUS
<1>1. LSInv /\ LSInv'
  BY SpillActiveInv DEF HomeInv
<1>2. PICK s \in Victims :
        /\ phys' = [phys EXCEPT ![s] = PhysNone, ![cur] = phys[s]]
        /\ slot' = [slot EXCEPT ![s] = NewSlot]
        /\ UseRegister(phys[s])
  BY DEF SpillActive
<1>3. cur \in Ids /\ cur' = cur + 1 /\ nextSpill' = nextSpill + 8 /\ UNCHANGED iv /\ Ids' = Ids
  BY DEF SpillActive, Ids
<1>4. s \in active /\ s \in Ids /\ s < cur /\ s # cur /\ phys[s] # PhysNone
  BY <1>1 DEF Victims, Live, LSInv, ActiveHold, Types
<1>5. /\ \A j \in Ids : phys'[j] = IF j = cur THEN phys[s] ELSE IF j = s THEN PhysNone ELSE phys[j]
      /\ \A j \in Ids : j \in Int
      /\ cur \in Int
  BY <1>1, <1>2, <1>3, <1>4 DEF LSInv, Types, WellFormed, Ids
<1>6. slot[s] = 0
  BY <1>3, <1>4 DEF HomeInv, OneHome, Scanned, SlotTypes
<1>7. FrameContract'
  <2>1. phys[s] \notin Reserved
    BY <1>4 DEF HomeInv, FrameContract
  <2>2. \A j \in Ids : phys'[j] \in {phys[s], PhysNone, phys[j]}
    BY <1>5
  <2> QED BY <1>2, <1>3, <2>1, <2>2, RecordedUse DEF HomeInv
<1>8. SlotTypes' /\ SlotsApart'
  <2>1. SlotTypes /\ SlotsApart
    BY DEF HomeInv, OneHome, SlotsApart
  <2> QED BY <1>2, <1>3, <1>4, <1>6, <2>1, FreshSlot
<1>9. \A j \in Ids : slot'[j] = IF j = s THEN nextSpill + 8 ELSE slot[j]
  BY <1>2 DEF HomeInv, SlotTypes, NewSlot
<1>10. NoSlotYet'
  <2>1. ASSUME NEW j \in Ids, j >= cur + 1 PROVE slot'[j] = 0
    <3>1. j >= cur /\ j # s
      BY <1>4, <1>5, <2>1
    <3> QED BY <1>9, <3>1 DEF HomeInv, NoSlotYet
  <2> QED BY <1>3, <2>1 DEF NoSlotYet
<1>11. ASSUME NEW j \in Ids, j < cur + 1
       PROVE  (phys'[j] # PhysNone) # (slot'[j] # 0)
  <2>1. CASE j = cur
    BY <1>4, <1>5, <1>9, <2>1 DEF HomeInv, NoSlotYet
  <2>2. CASE j = s
    BY <1>4, <1>5, <1>9, <2>2 DEF HomeInv, SlotTypes
  <2>3. CASE j # cur /\ j # s
    BY <1>5, <1>9, <1>11, <2>3 DEF HomeInv, OneHome, Scanned
  <2> QED BY <2>1, <2>2, <2>3
<1>12. OneHome'
  BY <1>3, <1>8, <1>11 DEF OneHome, SlotsApart, Scanned
<1> QED BY <1>1, <1>7, <1>8, <1>10, <1>12 DEF HomeInv

LEMMA SpillCurrentHome == HomeInv /\ SpillCurrent => HomeInv'
<1> SUFFICES ASSUME HomeInv, SpillCurrent PROVE HomeInv'
  OBVIOUS
<1>1. LSInv /\ LSInv'
  BY SpillCurrentInv DEF HomeInv
<1>2. /\ cur \in Ids /\ cur' = cur + 1 /\ nextSpill' = nextSpill + 8 /\ Ids' = Ids
      /\ slot' = [slot EXCEPT ![cur] = NewSlot] /\ UNCHANGED <<iv, phys, calleeUsed>>
  BY DEF SpillCurrent, Ids
<1>3. cur \in Int /\ \A j \in Ids : j \in Int
  BY <1>1 DEF LSInv, Types, WellFormed, Ids
<1>4. slot[cur] = 0 /\ phys[cur] = PhysNone
  BY <1>1, <1>2, <1>3 DEF HomeInv, NoSlotYet, LSInv, Unscanned
<1>5. SlotTypes' /\ SlotsApart'
  <2>1. SlotTypes /\ SlotsApart
    BY DEF HomeInv, OneHome, SlotsApart
  <2> QED BY <1>2, <1>4, <2>1, FreshSlot
<1>6. \A j \in Ids : slot'[j] = IF j = cur THEN nextSpill + 8 ELSE slot[j]
  BY <1>2 DEF HomeInv, SlotTypes, NewSlot
<1>7. NoSlotYet'
  BY <1>2, <1>3, <1>6 DEF HomeInv, NoSlotYet
<1>8. ASSUME NEW j \in Ids, j < cur + 1
      PROVE  (phys[j] # PhysNone) # (slot'[j] # 0)
  <2>1. CASE j = cur
    BY <1>4, <1>6, <2>1 DEF HomeInv, SlotTypes
  <2>2. CASE j # cur
    BY <1>3, <1>6, <1>8, <2>2 DEF HomeInv, OneHome, Scanned
  <2> QED BY <2>1, <2>2
<1>9. OneHome'
  BY <1>2, <1>5, <1>8 DEF OneHome, SlotsApart, Scanned
<1>10. FrameContract'
  BY <1>2 DEF HomeInv, FrameContract
<1> QED BY <1>1, <1>5, <1>7, <1>9, <1>10 DEF HomeInv

LEMMA HomeStep == HomeInv /\ [LSNext]_lsvars => HomeInv'
<1> SUFFICES ASSUME HomeInv, [LSNext]_lsvars PROVE HomeInv'
  OBVIOUS
<1>1. CASE AssignFree
  BY <1>1, AssignFreeHome
<1>2. CASE SpillActive
  BY <1>2, SpillActiveHome
<1>3. CASE SpillCurrent
  BY <1>3, SpillCurrentHome
<1>4. CASE UNCHANGED lsvars
  <2>1. UNCHANGED <<iv, calls, cur, active, regFree, phys, slot, nextSpill, calleeUsed>> /\ Ids' = Ids
    BY <1>4 DEF lsvars, Ids
  <2>2. LSInv'
    BY <1>4, ScanKept DEF HomeInv
  <2>3. SlotTypes' /\ NoSlotYet'
    BY <2>1 DEF HomeInv, SlotTypes, NoSlotYet
  <2>4. OneHome' /\ FrameContract'
    BY <2>1 DEF HomeInv, OneHome, FrameContract, Scanned
  <2> QED BY <2>2, <2>3, <2>4 DEF HomeInv
<1> QED BY <1>1, <1>2, <1>3, <1>4 DEF LSNext

\* Every scanned interval is either in a register or in a slot of its own,
\* and no slot overlaps another or the locals, however many are spilled.
THEOREM ScanOneHome == LSSpec => []OneHome
<1>1. HomeInv => OneHome
  BY DEF HomeInv
<1> QED BY HomeInit, HomeStep, <1>1, PTL DEF LSSpec

\* No reserved register is handed out, and the prologue is told of every
\* callee-saved register in use.
THEOREM ScanFrameContract == LSSpec => []FrameContract
<1>1. HomeInv => FrameContract
  BY DEF HomeInv
<1> QED BY HomeInit, HomeStep, <1>1, PTL DEF LSSpec
=============================================================================

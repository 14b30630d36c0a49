----------------------------- MODULE LinearScan -----------------------------
(***************************************************************************)
(* regalloc_linear_scan (src/src/backend/regalloc_linear_scan.c): physical *)
(* registers and spill slots for live intervals.                           *)
(*                                                                         *)
(* Intervals are scanned by increasing start.  One step is one iteration   *)
(* of the scan: expire, then take a free register, or take the register of *)
(* the active interval that ends last, or spill the current interval.      *)
(*                                                                         *)
(* The code keeps `active' sorted by end, insertion order among equals, so *)
(* the first of the latest-ending entries is the one with the least index; *)
(* a set with that tie-break stands for the array.                         *)
(***************************************************************************)
EXTENDS Integers, Sequences, FiniteSets

CONSTANTS
    AllocOrder,     \* alloc_order: preference order of the physical registers
    Reserved,       \* RSP, RBP, return register, argument registers of the ABI
    CalleeSaved,    \* registers a CALL preserves
    MaxIntervals, MaxPos,   \* bounds of an instance
    Locals          \* bytes of the frame taken before allocation (stack_size)

ASSUME ScanAssumption ==
    /\ AllocOrder \in Seq(STRING) /\ \A k \in DOMAIN AllocOrder : AllocOrder[k] # "none"
    /\ MaxIntervals \in Nat /\ MaxPos \in Nat /\ Locals \in Nat

VARIABLES
    iv,         \* intervals [start, end], sorted (qsort by start, then vreg)
    calls,      \* positions of MACH_CALL
    cur,        \* index of the interval being scanned
    active,     \* indices of active intervals
    regFree,    \* registers with reg_free[r]
    phys,       \* phys[j]: register of interval j, or PhysNone
    slot,       \* slot[j]: spill offset below RBP, 0 if not spilled
    nextSpill,  \* next_spill_offset
    calleeUsed  \* callee_saved_used

lsvars == <<iv, calls, cur, active, regFree, phys, slot, nextSpill, calleeUsed>>

PhysNone == "none"
PhysReg == {AllocOrder[k] : k \in DOMAIN AllocOrder}
Ids == DOMAIN iv

IsCallerSaved(r) == r \notin CalleeSaved

CrossesCall(j) == \E p \in calls : iv[j].start < p /\ iv[j].end > p

\* reg_free at the start.
Allocatable == PhysReg \ Reserved

BeginScan(intervals, callPos) ==
    /\ iv = intervals
    /\ calls = callPos
    /\ cur = 1
    /\ active = {}
    /\ regFree = Allocatable
    /\ phys = [j \in DOMAIN intervals |-> PhysNone]
    /\ slot = [j \in DOMAIN intervals |-> 0]
    /\ nextSpill = Locals
    /\ calleeUsed = {}

Interval == {x \in [start : 0 .. MaxPos, end : 0 .. MaxPos] : x.start <= x.end}
SortedIntervals(n) ==
    {x \in [1 .. n -> Interval] :
        \A j, k \in 1 .. n : j < k => x[j].start <= x[k].start}

LSInit == \E n \in 0 .. MaxIntervals :
        \E x \in SortedIntervals(n), c \in SUBSET (0 .. MaxPos) : BeginScan(x, c)

-----------------------------------------------------------------------------

\* Step 1 of an iteration: intervals that ended before cur starts.
LiveOpen == {j \in active : ~(iv[j].end <= iv[cur].start)}
Live == {j \in active : ~(iv[j].end < iv[cur].start)}
FreeAfterExpiry == regFree \cup {phys[j] : j \in active \ Live}

AllowedAlways(r) == TRUE

\* Registers the current interval may take: not a caller-saved one if it is
\* live across a call.
Allowed(r) == ~(CrossesCall(cur) /\ IsCallerSaved(r))

Usable == {k \in DOMAIN AllocOrder :
             AllocOrder[k] \in FreeAfterExpiry /\ Allowed(AllocOrder[k])}

UseUnrecorded(r) == UNCHANGED calleeUsed

\* mark callee_saved_used, for the prologue.
UseRegister(r) ==
    calleeUsed' = IF r \in CalleeSaved THEN calleeUsed \cup {r} ELSE calleeUsed

\* Active intervals whose register would help and that end after cur.
Victims == {j \in Live : Allowed(phys[j]) /\ iv[j].end > iv[cur].end}

\* next_spill_offset is advanced, then used.
OldSlot == nextSpill
NewSlot == nextSpill + 8

\* The array without the spilled interval and with the current one.
ActiveAfterSpill(s) == (Live \ {s}) \cup {cur}

AssignFree ==
    /\ cur \in Ids
    /\ \E k \in Usable :
         /\ \A m \in Usable : k <= m
         /\ phys' = [phys EXCEPT ![cur] = AllocOrder[k]]
         /\ regFree' = FreeAfterExpiry \ {AllocOrder[k]}
         /\ UseRegister(AllocOrder[k])
    /\ active' = Live \cup {cur}
    /\ cur' = cur + 1
    /\ UNCHANGED <<iv, calls, slot, nextSpill>>

SpillActive ==
    /\ cur \in Ids
    /\ Usable = {}
    /\ \E s \in Victims :
         /\ \A j \in Victims :
              iv[j].end < iv[s].end \/ (iv[j].end = iv[s].end /\ s <= j)
         /\ phys' = [phys EXCEPT ![s] = PhysNone, ![cur] = phys[s]]
         /\ slot' = [slot EXCEPT ![s] = NewSlot]
         /\ active' = ActiveAfterSpill(s)
         /\ UseRegister(phys[s])
    /\ regFree' = FreeAfterExpiry
    /\ nextSpill' = nextSpill + 8
    /\ cur' = cur + 1
    /\ UNCHANGED <<iv, calls>>

SpillCurrent ==
    /\ cur \in Ids
    /\ Usable = {}
    /\ Victims = {}
    /\ slot' = [slot EXCEPT ![cur] = NewSlot]
    /\ nextSpill' = nextSpill + 8
    /\ active' = Live
    /\ regFree' = FreeAfterExpiry
    /\ cur' = cur + 1
    /\ UNCHANGED <<iv, calls, phys, calleeUsed>>

LSNext == AssignFree \/ SpillActive \/ SpillCurrent

LSSpec == LSInit /\ [][LSNext]_lsvars /\ WF_lsvars(LSNext)

-----------------------------------------------------------------------------

Scanned(j) == j \in Ids /\ j < cur

\* Two intervals that overlap, touching included (the destination of an
\* instruction and an operand it reads meet in one position), never share a
\* register, also after registers changed hands through spilling.
NoConflict ==
    \A j, k \in Ids :
        /\ Scanned(j) /\ Scanned(k) /\ j # k
        /\ phys[j] # PhysNone /\ phys[j] = phys[k]
        => iv[j].end < iv[k].start \/ iv[k].end < iv[j].start

\* A value that lives across a CALL is never in a register the call clobbers,
\* whether it took a free register or one freed by spilling.
CallSafe ==
    \A j \in Ids :
        Scanned(j) /\ phys[j] # PhysNone /\ CrossesCall(j) => phys[j] \in CalleeSaved

\* Every scanned interval has exactly one home, and the 8-byte spill slots
\* overlap neither each other nor the locals of the frame.
OneHome ==
    /\ \A j \in Ids : Scanned(j) => ((phys[j] # PhysNone) # (slot[j] # 0))
    /\ \A j, k \in Ids :
         slot[j] # 0 =>
            /\ slot[j] >= Locals + 8 /\ slot[j] <= nextSpill
            /\ (j # k /\ slot[k] # 0) =>
                 (slot[j] + 8 <= slot[k] \/ slot[k] + 8 <= slot[j])

\* A callee-saved register in use is recorded for the prologue, and reserved
\* ABI registers are never handed out.
FrameContract ==
    \A j \in Ids : phys[j] # PhysNone =>
        /\ phys[j] \notin Reserved
        /\ phys[j] \in CalleeSaved => phys[j] \in calleeUsed
=============================================================================

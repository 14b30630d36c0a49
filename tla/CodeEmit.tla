------------------------------ MODULE CodeEmit ------------------------------
(***************************************************************************)
(* From one IR instruction to assembly: instruction selection (isel.c,     *)
(* isel_arith.c, isel_memory.c, isel_control.c, isel_misc.c), rewriting of *)
(* operands after allocation (regalloc_rewrite.c) and emission by the GAS  *)
(* back end (emit.c, emit_inst_body_a.inc, _b.inc, _c.inc), all under      *)
(* src/src/backend/.                                                       *)
(*                                                                         *)
(* A virtual register lives in a physical register or, when spilled, in a  *)
(* stack slot that the rewritten instruction uses as a memory operand, so  *)
(* the emitter has to avoid what x86-64 cannot encode: two memory          *)
(* operands, or an immediate of more than 32 bits.  It does so with the    *)
(* scratch registers RAX and R11, which allocation never hands out.        *)
(*                                                                         *)
(* Operands are 64 bits wide.  Names that are live together have homes of  *)
(* their own (NoConflict and OneHome of LinearScan), so the home of v is   *)
(* the register or the slot called v.  Values are terms: <<"add", a, b>>.  *)
(***************************************************************************)
EXTENDS Integers, Sequences, SequencesExt, FiniteSets

CONSTANT Ops    \* operations to translate

\* x and y are operands of the IR instruction, p a pointer, d its result, t
\* and u temporaries made by selection.
VReg == {"x", "y", "p", "d", "t", "u"}

V(v)    == [kind |-> "vreg", at |-> v]
R(r)    == [kind |-> "reg", at |-> r]
S(s)    == [kind |-> "slot", at |-> s]       \* MACH_OP_MEM based on RBP
M(r)    == [kind |-> "mem", at |-> r]        \* MACH_OP_MEM based on r
Global  == [kind |-> "global", at |-> "g"]
Imm32   == [kind |-> "imm", at |-> "imm32"]
Imm64   == [kind |-> "imm", at |-> "imm64"]
None    == [kind |-> "none", at |-> "none"]
FitsImm32(o) == o = Imm32
WideImm(o) == o.kind = "imm" /\ ~FitsImm32(o)
Mem(o) == o.kind \in {"slot", "mem"}
MemLike(o) == Mem(o) \/ o.kind = "global"

Inst(op, dst, src1, src2) == [op |-> op, dst |-> dst, src1 |-> src1, src2 |-> src2]

Immediates == {Imm32, Imm64}
Operands == {V("x"), V("y")} \cup Immediates
BinOps == {"add", "sub", "imul", "and", "or", "xor"}
DivOps == {"div", "mod", "udiv", "umod"}

\* The operands an operation may have.
First(op) ==
    CASE op \in {"load", "loadg", "address"} -> {None}
      [] op = "widen" -> {V("x"), V("y")}
      [] op = "widenimm" -> Immediates
      [] OTHER -> Operands
Second(op) ==
    CASE op \in BinOps \cup DivOps \cup {"cmp", "fadd", "fcmp", "fcmpgt"} -> Operands
      [] op = "shl" -> {V("y"), Imm32}
      [] OTHER -> {None}
IRInsts == UNION {[op : {op}, a : First(op), b : Second(op)] : op \in Ops}

VARIABLES
    ir,         \* the IR instruction
    spilled,    \* the names that live in a slot
    mach,       \* machine instructions, as selected and then rewritten
    asm,        \* assembly emitted so far
    loc,        \* contents of registers, slots, memory and flags
    ip,         \* next assembly instruction to execute
    stage

vars == <<ir, spilled, mach, asm, loc, ip, stage>>

-----------------------------------------------------------------------------
(* Instruction selection: isel_lower_inst and the functions it calls.      *)

d == V("d")
t == V("t")
u == V("u")
Mov(dst, src) == Inst("mov", dst, src, None)

\* isel_materialize_imm_to_gpr64, isel_extend_to_gpr64: an operand that must
\* not be an immediate is first moved to the new virtual register tmp.
MaterializedNever(o, tmp) == o
Materialized(o, tmp) == IF o.kind = "imm" THEN tmp ELSE o
Materialize(o, tmp) == IF o.kind = "imm" THEN <<Mov(tmp, o)>> ELSE <<>>

LowerBinopSwapped(op, a, b) == <<Mov(d, b), Inst(op, d, d, a)>>
LowerBinop(op, a, b) == <<Mov(d, a), Inst(op, d, d, b)>>

LowerShift(a, b) ==
    <<Mov(d, a)>>
      \o (IF b.kind = "imm" THEN <<Inst("shl", d, d, b)>>
          ELSE <<Mov(R("rcx"), b), Inst("shl", d, d, R("rcx"))>>)

\* The high half of the dividend: zero, or the sign of RAX.
Dividend(unsigned) ==
    IF unsigned THEN <<Inst("xor", R("rdx"), R("rdx"), R("rdx"))>>
                ELSE <<Inst("cqo", None, R("rax"), None)>>

LowerDiv(op, a, b) ==
    LET unsigned == op \in {"udiv", "umod"}
    IN  Materialize(a, t) \o Materialize(b, u)
          \o <<Mov(R("rax"), Materialized(a, t))>>
          \o Dividend(unsigned)
          \o <<Inst(IF unsigned THEN "div" ELSE "idiv", R("rax"), Materialized(b, u), None),
               Mov(d, IF op \in {"mod", "umod"} THEN R("rdx") ELSE R("rax"))>>

\* Both operands of a floating-point operation go to XMM0 and XMM1.
ToXmm(a, b) ==
    Materialize(a, t) \o Materialize(b, u)
      \o <<Mov(R("xmm0"), Materialized(a, t)), Mov(R("xmm1"), Materialized(b, u))>>

LowerFloat(i) ==
    CASE i.op = "fadd" ->
           ToXmm(i.a, i.b) \o <<Inst("addsd", R("xmm0"), R("xmm0"), R("xmm1")), Mov(d, R("xmm0"))>>
      [] i.op = "fneg" ->
           Materialize(i.a, t)
             \o <<Mov(R("xmm0"), Materialized(i.a, t)), Mov(u, Imm64), Mov(R("xmm1"), u),
                  Inst("xorpd", R("xmm0"), R("xmm0"), R("xmm1")), Mov(d, R("xmm0"))>>
      [] i.op = "fcmp" ->       \* =, /=, < and <= also look at the parity flag
           ToXmm(i.a, i.b)
             \o <<Inst("ucomisd", None, R("xmm0"), R("xmm1")), Inst("set", d, None, None),
                  Inst("set", t, None, None), Inst("and", d, d, t), Inst("movzx", d, d, None)>>
      [] i.op = "fcmpgt" ->
           ToXmm(i.a, i.b)
             \o <<Inst("ucomisd", None, R("xmm0"), R("xmm1")), Inst("set", d, None, None),
                  Inst("movzx", d, d, None)>>

LowerCast(i) ==
    CASE i.op \in {"widen", "widenimm"} -> <<Inst("movzx", d, i.a, None)>>
      [] i.op = "itof" ->
           Materialize(i.a, t)
             \o <<Inst("cvtsi2sd", R("xmm0"), Materialized(i.a, t), None), Mov(d, R("xmm0"))>>
      [] i.op = "toint" ->
           Materialize(i.a, t)
             \o <<Mov(R("xmm0"), Materialized(i.a, t)),
                  Inst("cvttsd2si", u, R("xmm0"), None), Mov(d, u)>>

StoreThroughPointerRaw(v) == <<Inst("store", M("p"), v, None)>>
\* isel_lower_store keeps a wide immediate out of a store through a pointer.
StoreThroughPointer(v) ==
    IF WideImm(v)
      THEN <<Mov(t, v), Inst("store", M("p"), t, None)>>
      ELSE <<Inst("store", M("p"), v, None)>>

LowerMemory(i) ==
    CASE i.op = "load"   -> <<Inst("load", d, M("p"), None)>>
      [] i.op = "loadg"  -> <<Inst("load", d, Global, None)>>
      [] i.op = "store"  -> StoreThroughPointer(i.a)
      [] i.op = "storeg" -> <<Inst("store", Global, i.a, None)>>

\* isel_lower_ptr_offset by size of element: 1, a power of two, or another.
LowerPtrOffset(i) ==
    LET base == IF i.op = "indexg" THEN u ELSE V("p")
    IN  (IF i.op = "indexg" THEN <<Inst("lea", u, Global, None)>> ELSE <<>>)
          \o (CASE i.a.kind = "imm" \/ i.op \in {"index1", "indexg"} -> <<>>
                [] i.op = "index2" /\ i.a.kind # "imm" -> <<Mov(t, i.a), Inst("shl", t, t, Imm32)>>
                [] i.op = "index3" /\ i.a.kind # "imm" -> <<Mov(t, i.a), Inst("imul", t, t, Imm32)>>)
          \o <<Mov(d, base),
               Inst("add", d, d, IF i.a.kind = "imm" \/ i.op \in {"index1", "indexg"} THEN i.a ELSE t)>>

LowerCmp(i) ==
    Materialize(i.a, t)
      \o <<Inst("cmp", None, Materialized(i.a, t), i.b),
           Inst("set", d, None, None), Inst("movzx", d, d, None)>>

LowerInst(i) ==
    CASE i.op \in BinOps -> LowerBinop(i.op, i.a, i.b)
      [] i.op \in {"neg", "not"} -> <<Mov(d, i.a), Inst(i.op, d, d, None)>>
      [] i.op = "copy" -> <<Mov(d, i.a)>>
      [] i.op = "address" -> <<Inst("lea", t, Global, None), Mov(d, t)>>
      [] i.op = "mulpow2" -> LowerShift(i.a, Imm32)
      [] i.op = "shl" -> LowerShift(i.a, i.b)
      [] i.op \in DivOps -> LowerDiv(i.op, i.a, i.b)
      [] i.op = "cmp" -> LowerCmp(i)
      [] i.op = "br" ->
           Materialize(i.a, t) \o <<Inst("test", None, Materialized(i.a, t), Materialized(i.a, t))>>
      [] i.op \in {"load", "loadg", "store", "storeg"} -> LowerMemory(i)
      [] i.op \in {"fadd", "fneg", "fcmp", "fcmpgt"} -> LowerFloat(i)
      [] i.op \in {"widen", "widenimm", "itof", "toint"} -> LowerCast(i)
      [] i.op \in {"index1", "index2", "index3", "indexg"} -> LowerPtrOffset(i)

-----------------------------------------------------------------------------
(* regalloc_insert_spill_code, then regalloc_rewrite.                      *)

Home(v) == IF v \in spilled THEN S(v) ELSE R(v)

SpilledBase(o) == o.kind = "mem" /\ o.at \in spilled

\* rewrite_operand; the base of a memory operand is R11 when it was reloaded.
RewriteOperand(o) ==
    CASE o.kind = "vreg" -> Home(o.at)
      [] SpilledBase(o) -> M("r11")
      [] OTHER -> o

\* regalloc_fix_mem_base_operand on the operands of one instruction.
ReloadBase(i) ==
    LET bases == {o \in {i.dst, i.src1, i.src2} : SpilledBase(o)}
    IN  IF bases = {} THEN <<>>
        ELSE <<Inst("load", R("r11"), S((CHOOSE o \in bases : TRUE).at), None)>>

RewriteInst(i) ==
    Append(ReloadBase(i),
           Inst(i.op, RewriteOperand(i.dst), RewriteOperand(i.src1), RewriteOperand(i.src2)))

-----------------------------------------------------------------------------
(* emit_inst.  Assembly instructions are written source first.             *)

A(op, src, dst) == [op |-> op, src |-> src, dst |-> dst]
Via(tmp, op, src, dst) == <<A("mov", src, R(tmp)), A(op, R(tmp), dst)>>
ViaAbs(op, src, dst) == <<A("movabs", src, R("r11")), A(op, R("r11"), dst)>>

EmitMov(i) ==
    CASE WideImm(i.src1) /\ i.dst.kind = "reg" -> <<A("movabs", i.src1, i.dst)>>
      [] WideImm(i.src1) /\ MemLike(i.dst) -> ViaAbs("mov", i.src1, i.dst)
      [] Mem(i.src1) /\ Mem(i.dst) -> Via("rax", "mov", i.src1, i.dst)
      [] i.src1.kind = "reg" /\ i.src1 = i.dst -> <<>>
      [] OTHER -> <<A("mov", i.src1, i.dst)>>

EmitLoadStore(i) ==
    CASE i.op = "store" /\ MemLike(i.dst) /\ WideImm(i.src1) -> ViaAbs("mov", i.src1, i.dst)
      [] MemLike(i.src1) /\ MemLike(i.dst) -> Via("rax", "mov", i.src1, i.dst)
      [] OTHER -> <<A("mov", i.src1, i.dst)>>

EmitLogical(i) ==
    IF WideImm(i.src2) THEN ViaAbs(i.op, i.src2, i.dst) ELSE <<A(i.op, i.src2, i.dst)>>

EmitAddDirect(i) == EmitLogical(i)
\* ADD and SUB try emit_binary_mem_rhs_via_scratch first; AND, OR and XOR look
\* only at the immediate, IMUL and the shifts at nothing.
EmitAdd(i) ==
    IF MemLike(i.dst) /\ MemLike(i.src2) THEN Via("r11", i.op, i.src2, i.dst)
    ELSE EmitLogical(i)

EmitCompare(i) ==
    CASE i.op = "cmp" /\ WideImm(i.src2) -> ViaAbs("cmp", i.src2, i.src1)
      [] MemLike(i.src1) /\ MemLike(i.src2) -> Via("rax", i.op, i.src2, i.src1)
      [] OTHER -> <<A(i.op, i.src2, i.src1)>>

\* LEA and MOVZX write a register, RAX when the destination was spilled.
EmitToRegister(i) ==
    IF MemLike(i.dst)
      THEN <<A(i.op, i.src1, R("rax")), A("mov", R("rax"), i.dst)>>
      ELSE <<A(i.op, i.src1, i.dst)>>

EmitInst(i) ==
    CASE i.op = "mov" -> EmitMov(i)
      [] i.op \in {"load", "store"} -> EmitLoadStore(i)
      [] i.op \in {"add", "sub"} -> EmitAdd(i)
      [] i.op \in {"and", "or", "xor"} -> EmitLogical(i)
      [] i.op \in {"imul", "shl", "addsd", "xorpd"} -> <<A(i.op, i.src2, i.dst)>>
      [] i.op \in {"cmp", "test"} -> EmitCompare(i)
      [] i.op = "ucomisd" -> <<A(i.op, i.src2, i.src1)>>
      [] i.op \in {"lea", "movzx"} -> EmitToRegister(i)
      [] i.op \in {"cvtsi2sd", "cvttsd2si"} -> <<A(i.op, i.src1, i.dst)>>
      [] i.op \in {"idiv", "div"} -> <<A(i.op, i.src1, None)>>
      [] i.op \in {"neg", "not", "set", "cqo"} -> <<A(i.op, None, i.dst)>>

-----------------------------------------------------------------------------
(* The machine: what each instruction does, and which forms exist.         *)

Cell  == M("p")         \* the memory p points to
Flags == R("flags")
Wild  == M("wild")      \* any other memory
Place ==
    {R(v) : v \in VReg} \cup {S(v) : v \in VReg}
      \cup {R(r) : r \in {"rax", "rdx", "rcx", "r11", "xmm0", "xmm1"}}
      \cup {Cell, Global, Flags, Wild}

Start(v) == <<v>>
PlaceOf(o) ==
    IF o.kind # "mem" THEN o
    ELSE IF loc[R(o.at)] = Start("p") THEN Cell ELSE Wild
Value(o) == IF o.kind = "imm" THEN <<o.at>> ELSE loc[PlaceOf(o)]
Put(o, v) == loc' = [loc EXCEPT ![PlaceOf(o)] = v]

\* DIV and IDIV divide RDX:RAX; the high half must extend RAX.
Quotient(op, high, low, by) ==
    IF high = (IF op = "idiv" THEN <<"sign", low>> ELSE <<"zero">>)
      THEN [q |-> <<op, low, by>>, r |-> <<op, "rem", low, by>>]
      ELSE [q |-> <<"garbage">>, r |-> <<"garbage">>]

Execute(i) ==
    CASE i.op \in {"mov", "movabs"} -> Put(i.dst, Value(i.src))
      [] i.op = "xor" /\ i.src = i.dst -> Put(i.dst, <<"zero">>)
      [] i.op \in BinOps \cup {"shl", "addsd", "xorpd"} /\ ~(i.op = "xor" /\ i.src = i.dst) ->
           Put(i.dst, <<i.op, Value(i.dst), Value(i.src)>>)
      [] i.op \in {"cmp", "test", "ucomisd"} -> Put(Flags, <<i.op, Value(i.dst), Value(i.src)>>)
      [] i.op = "set" -> Put(i.dst, <<"set", loc[Flags]>>)
      [] i.op \in {"neg", "not"} -> Put(i.dst, <<i.op, Value(i.dst)>>)
      [] i.op \in {"movzx", "cvtsi2sd", "cvttsd2si"} -> Put(i.dst, <<i.op, Value(i.src)>>)
      [] i.op = "lea" -> Put(i.dst, <<"lea", <<i.src.at>>>>)
      [] i.op = "cqo" -> Put(R("rdx"), <<"sign", loc[R("rax")]>>)
      [] i.op \in {"idiv", "div"} ->
           LET q == Quotient(i.op, loc[R("rdx")], loc[R("rax")], Value(i.src))
           IN  loc' = [loc EXCEPT ![R("rax")] = q.q, ![R("rdx")] = q.r]

\* The operand forms x86-64 has.
HasEncoding(i) ==
    CASE i.op \in {"mov", "add", "sub", "and", "or", "xor", "cmp", "test"} ->
           /\ ~(MemLike(i.src) /\ MemLike(i.dst))
           /\ ~WideImm(i.src)
           /\ i.dst.kind # "imm"
           /\ i.src.kind = "imm" => i.dst \notin {R("xmm0"), R("xmm1")}
      [] i.op = "movabs" -> i.dst.kind = "reg"
      [] i.op = "imul" -> i.dst.kind = "reg" /\ ~WideImm(i.src)
      [] i.op = "shl" -> i.src \in {Imm32, R("rcx")}
      [] i.op \in {"idiv", "div"} -> i.src.kind # "imm"
      [] i.op \in {"lea", "movzx", "cvtsi2sd", "cvttsd2si"} ->
           i.dst.kind = "reg" /\ i.src.kind # "imm"
      [] i.op \in {"addsd", "xorpd", "ucomisd"} -> {i.src.kind, i.dst.kind} = {"reg"}
      [] i.op \in {"neg", "not", "set", "cqo"} -> i.dst.kind # "imm"

-----------------------------------------------------------------------------
Init ==
    /\ ir \in IRInsts
    /\ spilled \in SUBSET VReg
    /\ loc = [q \in Place |->
                CASE q.kind \in {"reg", "slot"} /\ q.at \in VReg ->
                       IF q = Home(q.at) THEN Start(q.at) ELSE <<"other">>
                  [] OTHER -> <<q.kind>>]
    /\ mach = <<>> /\ asm = <<>> /\ ip = 1
    /\ stage = "select"

\* isel_lower_inst
Select ==
    /\ stage = "select"
    /\ mach' = LowerInst(ir)
    /\ stage' = "rewrite"
    /\ UNCHANGED <<ir, spilled, asm, loc, ip>>

\* regalloc_insert_spill_code and regalloc_rewrite
Rewrite ==
    /\ stage = "rewrite"
    /\ mach' = FlattenSeq([k \in DOMAIN mach |-> RewriteInst(mach[k])])
    /\ stage' = "emit"
    /\ UNCHANGED <<ir, spilled, asm, loc, ip>>

\* emit_inst on the next machine instruction.
Emit ==
    /\ stage = "emit"
    /\ asm' = asm \o EmitInst(Head(mach))
    /\ mach' = Tail(mach)
    /\ stage' = IF Len(mach) = 1 THEN "run" ELSE "emit"
    /\ UNCHANGED <<ir, spilled, loc, ip>>

\* The processor executes the next assembly instruction.
Run ==
    /\ stage = "run" /\ ip <= Len(asm)
    /\ Execute(asm[ip])
    /\ ip' = ip + 1
    /\ UNCHANGED <<ir, spilled, mach, asm, stage>>

Finished == stage = "run" /\ ip > Len(asm) /\ UNCHANGED vars

Next == Select \/ Rewrite \/ Emit \/ Run \/ Finished

Spec == Init /\ [][Next]_vars

-----------------------------------------------------------------------------
(* Properties.                                                             *)

\* docs/INTERNALS.md:2237: a spilled name becomes a memory operand of the instruction.
\* "Works because x86-64 allows one memory operand per instruction."
FormsExist == \A k \in DOMAIN asm : HasEncoding(asm[k])

\* The operands that the emitter prints as they are, though the form they need does
\* not exist: IMUL and CVTTSD2SI into a slot, AND, OR and XOR of two slots, IMUL by
\* a wide immediate, and MOVZX of any.
PrintedAsIs(i) ==
    \/ i.op \in {"imul", "cvttsd2si"} /\ i.dst.kind = "slot"
    \/ i.op \in {"and", "or", "xor"} /\ i.src.kind = "slot" /\ i.dst.kind = "slot"
    \/ i.op = "imul" /\ WideImm(i.src)
    \/ i.op = "movzx" /\ i.src.kind = "imm"

\* But for those, every instruction printed exists on x86-64, whatever was spilled
\* and whatever the constants: at most one memory operand, a register where the
\* form needs one, no immediate wider than 32 bits outside movabs.
Encodable == \A k \in DOMAIN asm : HasEncoding(asm[k]) \/ PrintedAsIs(asm[k])

\* What the IR instruction means, as a term over the initial values.
In(o) == <<o.at>>
Result ==
    CASE ir.op \in BinOps \cup {"shl"} -> <<ir.op, In(ir.a), In(ir.b)>>
      [] ir.op = "mulpow2" -> <<"shl", In(ir.a), In(Imm32)>>
      [] ir.op \in {"neg", "not"} -> <<ir.op, In(ir.a)>>
      [] ir.op = "copy" -> In(ir.a)
      [] ir.op = "address" -> <<"lea", <<"g">>>>
      [] ir.op = "div" -> <<"idiv", In(ir.a), In(ir.b)>>
      [] ir.op = "mod" -> <<"idiv", "rem", In(ir.a), In(ir.b)>>
      [] ir.op = "udiv" -> <<"div", In(ir.a), In(ir.b)>>
      [] ir.op = "umod" -> <<"div", "rem", In(ir.a), In(ir.b)>>
      [] ir.op = "cmp" -> <<"movzx", <<"set", <<"cmp", In(ir.a), In(ir.b)>>>>>>
      [] ir.op = "fcmpgt" -> <<"movzx", <<"set", <<"ucomisd", In(ir.a), In(ir.b)>>>>>>
      [] ir.op = "fcmp" ->
           LET s == <<"set", <<"ucomisd", In(ir.a), In(ir.b)>>>> IN <<"movzx", <<"and", s, s>>>>
      [] ir.op = "fadd" -> <<"addsd", In(ir.a), In(ir.b)>>
      [] ir.op = "fneg" -> <<"xorpd", In(ir.a), In(Imm64)>>
      [] ir.op \in {"widen", "widenimm"} -> <<"movzx", In(ir.a)>>
      [] ir.op = "itof" -> <<"cvtsi2sd", In(ir.a)>>
      [] ir.op = "toint" -> <<"cvttsd2si", In(ir.a)>>
      [] ir.op = "load" -> <<"mem">>
      [] ir.op = "loadg" -> <<"global">>
      [] ir.op = "index1" -> <<"add", Start("p"), In(ir.a)>>
      [] ir.op = "indexg" -> <<"add", <<"lea", <<"g">>>>, In(ir.a)>>
      [] ir.op \in {"index2", "index3"} ->
           <<"add", Start("p"),
             IF ir.a.kind = "imm" THEN In(ir.a)
             ELSE <<IF ir.op = "index2" THEN "shl" ELSE "imul", In(ir.a), In(Imm32)>>>>
      [] OTHER -> Start("d")        \* store, storeg and br define nothing

\* Run on the machine, code that exists has the effect of the IR instruction
\* and no other: the result is in the home of d, memory holds what was stored,
\* a branch tests its condition, and the scratch registers used on the way
\* never reach x, y, p or memory the instruction does not name.
SameEffect ==
    stage = "run" /\ ip > Len(asm) /\ FormsExist =>
      /\ loc[Home("d")] = Result
      /\ \A v \in {"x", "y", "p"} : loc[Home(v)] = Start(v)
      /\ loc[Cell] = IF ir.op = "store" THEN In(ir.a) ELSE <<"mem">>
      /\ loc[Global] = IF ir.op = "storeg" THEN In(ir.a) ELSE <<"global">>
      /\ loc[Wild] = <<"mem">>
      /\ ir.op = "br" => loc[Flags] = <<"test", In(ir.a), In(ir.a)>>

=============================================================================

------------------------------- MODULE TypedIR --------------------------------
(***************************************************************************)
(* The typed IR the lowering produces (src/src/middleend/ir.h, ir.c): its  *)
(* types, values and instructions, the verifier (ir_verify_ir.c,           *)
(* ir_verify_inst.c), and what it means to run it.                         *)
(*                                                                         *)
(* Sizes in bytes are the program's; widths in bits are scaled down (Bits),*)
(* so that wrap-around happens with small numbers.  A character is one     *)
(* number above CharTag, the packed form of its code point.                *)
(***************************************************************************)
EXTENDS Words, Sequences, SequencesExt, FiniteSets, Functions, TLC

CONSTANT Fuel   \* blocks and calls an execution may enter

I1 == <<"i1">>
I8 == <<"i8">>
U8 == <<"u8">>
I32 == <<"i32">>
U32 == <<"u32">>
I64 == <<"i64">>
U64 == <<"u64">>
CHAR == <<"char">>
VOID == <<"void">>
Ptr(T) == <<"ptr", T>>
Arr(T, n) == <<"arr", T, n>>

IsPtr(T) == T[1] = "ptr"
IsArr(T) == T[1] = "arr"
Pointee(T) == T[2]
Unsigned(T) == T \in {U8, U32, U64}
IsInt(T) == T \in {I1, I8, U8, I32, U32, I64, U64, CHAR}

Bits(T) == CASE T = I1 -> 1 [] T \in {I8, U8} -> ByteBits [] T \in {I32, U32} -> HalfBits [] OTHER -> WordBits

RECURSIVE StoreSize(_)
StoreSize(T) ==
    CASE T \in {I1, I8, U8} -> 1
      [] T \in {I32, U32} -> 4
      [] IsArr(T) -> T[3] * StoreSize(T[2])
      [] OTHER -> 8

\* A number truncated to a type.  Addresses are not truncated.
WrapTo(T, n) ==
    CASE IsPtr(T) -> n
      [] Unsigned(T) \/ T = I1 -> WrapUnsigned(Bits(T), n)
      [] OTHER -> WrapSigned(Bits(T), n)

-----------------------------------------------------------------------------
(* Values, instructions, functions and modules.                            *)

Reg(r, T) == [kind |-> "reg", n |-> r, ty |-> T]
Num(c, T) == [kind |-> "num", n |-> c, ty |-> T]
Glob(name, T) == [kind |-> "global", n |-> name, ty |-> Ptr(T)]

NoDest == -1
Ins(op, T, dest, args) == [op |-> op, ty |-> T, dest |-> dest, args |-> args, to |-> <<>>, fn |-> ""]
CallIns(fn, T, dest, args) == [Ins("call", T, dest, args) EXCEPT !.fn = fn]
BrIns(b) == [Ins("br", VOID, NoDest, <<>>) EXCEPT !.to = <<b>>]
BrCondIns(v, yes, no) == [Ins("br_cond", VOID, NoDest, <<v>>) EXCEPT !.to = <<yes, no>>]
RetIns(args) == Ins("ret", VOID, NoDest, args)

BinOps == {"add", "sub", "mul", "div", "mod", "and", "or", "xor", "shl", "shr"}
CmpPreds == {"eq", "ne", "gt", "lt", "ge", "le", "ugt", "ult", "uge", "ule"}
Terminators == {"br", "br_cond", "ret"}
IsTerm(i) == i.op \in Terminators
Terminated(block) == block # <<>> /\ IsTerm(Last(block))

-----------------------------------------------------------------------------
(* The verifier.                                                           *)

SameTypes(vs) == \A j, k \in DOMAIN vs : vs[j].ty = vs[k].ty

CastAllowed(from, to) ==
    \/ IsInt(from) /\ (IsInt(to) \/ IsPtr(to))
    \/ IsPtr(from) /\ (IsInt(to) \/ IsPtr(to))

CallFits(mod, i) ==
    i.fn \in DOMAIN mod.funcs =>
        LET callee == mod.funcs[i.fn]
        IN  /\ Len(i.args) = Len(callee.params)
            /\ \A k \in DOMAIN i.args : i.args[k].ty = callee.params[k]
            /\ i.dest # NoDest => i.ty = callee.ret

RegInRange(f, r) == r \in 0 .. f.next - 1

\* One instruction's operands and types.
WellTyped(mod, f, i) ==
    LET a == i.args
    IN  CASE i.op \in BinOps ->
               Len(a) = 2 /\ IsInt(i.ty) /\ a[1].ty = i.ty /\ a[2].ty = i.ty
          [] i.op \in {"neg", "not"} -> Len(a) = 1 /\ a[1].ty = i.ty
          [] i.op = "alloca" -> a = <<>> /\ IsPtr(i.ty) /\ Pointee(i.ty) # VOID
          [] i.op = "load" -> Len(a) = 1 /\ IsPtr(a[1].ty) /\ i.ty = Pointee(a[1].ty)
          [] i.op = "store" -> Len(a) = 2 /\ i.ty = VOID /\ IsPtr(a[2].ty) /\ a[1].ty = Pointee(a[2].ty)
          [] i.op = "ptr_offset" -> Len(a) = 2 /\ IsPtr(i.ty) /\ a[1].ty = i.ty /\ IsInt(a[2].ty)
          [] i.op \in CmpPreds ->
               /\ Len(a) = 2 /\ i.ty = I1 /\ SameTypes(a)
               /\ IsInt(a[1].ty) \/ (IsPtr(a[1].ty) /\ i.op \in {"eq", "ne"})
          [] i.op = "cast" -> Len(a) = 1 /\ CastAllowed(a[1].ty, i.ty)
          [] i.op = "decode" -> a[1].ty = CHAR /\ i.ty = I64
          [] i.op = "encode" -> a[1].ty = I64 /\ i.ty = CHAR
          [] i.op = "call" -> CallFits(mod, i)
          [] i.op = "br" -> i.to[1] \in DOMAIN f.blocks
          [] i.op = "br_cond" -> a[1].ty = I1 /\ \A k \in {1, 2} : i.to[k] \in DOMAIN f.blocks
          [] i.op = "ret" -> IF a = <<>> THEN f.ret = VOID ELSE a[1].ty = f.ret

\* Destination and operands are registers of the function.
RegistersFit(f, i) ==
    /\ (i.dest = NoDest) = (i.op \in Terminators \cup {"store"} \/ (i.op = "call" /\ i.ty = VOID))
    /\ i.dest # NoDest => RegInRange(f, i.dest)
    /\ \A k \in DOMAIN i.args : i.args[k].kind = "reg" => RegInRange(f, i.args[k].n)

\* A block ends with its only terminator.
BlockEnds(block) == Terminated(block) /\ \A k \in 1 .. Len(block) - 1 : ~IsTerm(block[k])

VerifyFunc(mod, f) ==
    \A b \in DOMAIN f.blocks :
        /\ BlockEnds(f.blocks[b])
        /\ \A k \in DOMAIN f.blocks[b] :
              WellTyped(mod, f, f.blocks[b][k]) /\ RegistersFit(f, f.blocks[b][k])
VerifyModule(mod) == \A fn \in DOMAIN mod.funcs : VerifyFunc(mod, mod.funcs[fn])

-----------------------------------------------------------------------------
(* Running a module.                                                       *)

CharTag == 16
DecodeChar(p) == p % CharTag
EncodeChar(c) == CharTag + (c % CharTag)

\* The result of an operation on numbers of a type, before truncation.
Arith(op, T, a, b) ==
    LET u(n) == n % 2^Bits(T)
        s(n) == IF IsInt(T) THEN WrapSigned(Bits(T), n) ELSE n
    IN  CASE op = "add" -> a + b
          [] op = "sub" -> a - b
          [] op = "mul" -> a * b
          [] op = "div" -> TruncDiv(a, b)
          [] op = "mod" -> TruncMod(a, b)
          [] op = "and" -> BitAnd(a % 2^WordBits, b % 2^WordBits)
          [] op = "or" -> BitOr(a % 2^WordBits, b % 2^WordBits)
          [] op = "xor" -> BitXor(a % 2^WordBits, b % 2^WordBits)
          [] op = "shl" -> a * 2^(b % Bits(T))
          [] op = "shr" -> a \div 2^(b % Bits(T))
          [] op = "eq" -> Truth(a = b)
          [] op = "ne" -> Truth(a # b)
          [] op = "gt" -> Truth(s(a) > s(b))
          [] op = "lt" -> Truth(s(a) < s(b))
          [] op = "ge" -> Truth(s(a) >= s(b))
          [] op = "le" -> Truth(s(a) <= s(b))
          [] op = "ugt" -> Truth(u(a) > u(b))
          [] op = "ult" -> Truth(u(a) < u(b))
          [] op = "uge" -> Truth(u(a) >= u(b))
          [] op = "ule" -> Truth(u(a) <= u(b))

Garbage == 1            \* in memory before the first store
FirstAddress == 1000
Gap == 8                \* unmapped bytes after an object

\* The addresses of the cells of an object.
Cells(T, at) ==
    IF IsArr(T) THEN {at + k * StoreSize(T[2]) : k \in 0 .. T[3] - 1} ELSE {at}
InitCells(T, at, v) == [x \in Cells(T, at) |-> v]

Running == <<"running">>
NoFuel == <<"no fuel">>

\* An execution: memory, the next free address, calls made so far, what was
\* printed, the last result, and how it ended.
Machine == [mem |-> [x \in {} |-> 0], brk |-> FirstAddress, at |-> [x \in {} |-> 0],
            fuel |-> Fuel, reads |-> 0, out |-> <<>>, val |-> 0, end |-> Running]

\* Memory for an object of the type: its address, and the machine with it.
Reserve(m, T, init) ==
    [m EXCEPT !.mem = InitCells(T, m.brk, init) @@ @, !.brk = @ + StoreSize(T) + Gap]

PlaceGlobals(mod) ==
    FoldLeft(LAMBDA m, g :
                 LET T == g.ty
                     first == InitCells(T, m.brk, 0)
                     given == [x \in DOMAIN first |->
                                 LET k == IF IsArr(T) THEN 1 + (x - m.brk) \div StoreSize(T[2]) ELSE 1
                                 IN  IF k \in DOMAIN g.init THEN g.init[k] ELSE 0]
                 IN  [Reserve(m, T, 0) EXCEPT !.mem = given @@ @, !.at = (g.name :> m.brk) @@ @],
             Machine, mod.globals)

EvalV(m, env, v) == CASE v.kind = "num" -> v.n [] v.kind = "reg" -> env[v.n] [] v.kind = "global" -> m.at[v.n]

\* Library calls: printing, reading, the end of the process.
Library(m, fn, xs) ==
    CASE fn = "exit" -> [m EXCEPT !.end = <<"exit", xs[1]>>]
      [] fn = "print" -> [m EXCEPT !.out = Append(@, xs[1])]
      [] fn = "print_char" -> [m EXCEPT !.out = Append(@, DecodeChar(xs[1]))]
      [] fn = "read" -> IF xs[1] \in DOMAIN m.mem
                        THEN [m EXCEPT !.mem[xs[1]] = 3 + m.reads, !.reads = @ + 1]
                        ELSE [m EXCEPT !.end = <<"fault">>]
      [] OTHER -> m

\* The frame of a call: memory for every alloca of the function.
RECURSIVE RunFunc(_, _, _, _), RunBlock(_, _, _, _, _), RunCode(_, _, _, _)

Step(mod, f, s, i) ==
    LET m == s.m
        env == s.env
        x == [k \in DOMAIN i.args |-> EvalV(m, env, i.args[k])]
        Give(v) == [s EXCEPT !.env[i.dest] = WrapTo(i.ty, v)]
        Fault(e) == [s EXCEPT !.m.end = e]
    IN  CASE m.end # Running -> s
          [] i.op = "alloca" -> s
          [] i.op = "load" -> IF x[1] \in DOMAIN m.mem THEN Give(m.mem[x[1]]) ELSE Fault(<<"fault">>)
          [] i.op = "store" -> IF x[2] \in DOMAIN m.mem THEN [s EXCEPT !.m.mem[x[2]] = x[1]] ELSE Fault(<<"fault">>)
          [] i.op = "ptr_offset" -> Give(x[1] + x[2] * StoreSize(Pointee(i.ty)))
          [] i.op = "cast" -> Give(x[1])
          [] i.op = "neg" -> Give(-x[1])
          [] i.op = "not" -> Give(-1 - x[1])
          [] i.op = "decode" -> Give(DecodeChar(x[1]))
          [] i.op = "encode" -> Give(EncodeChar(x[1]))
          [] i.op = "call" /\ i.fn \in DOMAIN mod.funcs ->
               LET m2 == RunFunc(mod, mod.funcs[i.fn], x, m)
               IN  IF i.dest = NoDest \/ m2.end # Running THEN [s EXCEPT !.m = m2]
                   ELSE [s EXCEPT !.m = m2, !.env[i.dest] = m2.val]
          [] i.op = "call" -> [s EXCEPT !.m = Library(m, i.fn, x)]
          [] i.op \in {"div", "mod"} /\ x[2] = 0 -> Fault(<<"trap">>)
          [] i.op \in BinOps -> Give(Arith(i.op, i.ty, x[1], x[2]))
          [] i.op \in CmpPreds -> Give(Arith(i.op, i.args[1].ty, x[1], x[2]))
          [] OTHER -> s

\* Instructions in order, halves of them at a time.
RunCode(mod, f, s, code) ==
    LET half == Len(code) \div 2
    IN  CASE s.m.end # Running \/ code = <<>> -> s
          [] Len(code) = 1 -> Step(mod, f, s, code[1])
          [] OTHER -> RunCode(mod, f, RunCode(mod, f, s, SubSeq(code, 1, half)), SubSeq(code, half + 1, Len(code)))

\* The block runs up to its first terminator.
RunBlock(mod, f, b, env, m) ==
    LET body == f.blocks[b]
        stop == CHOOSE k \in DOMAIN body : IsTerm(body[k]) /\ \A j \in 1 .. k - 1 : ~IsTerm(body[j])
        s == RunCode(mod, f, [m |-> [m EXCEPT !.fuel = @ - 1], env |-> env], SubSeq(body, 1, stop - 1))
        t == body[stop]
        x == [k \in DOMAIN t.args |-> EvalV(s.m, s.env, t.args[k])]
    IN  CASE s.m.end # Running -> s.m
          [] m.fuel = 0 -> [s.m EXCEPT !.end = NoFuel]
          [] t.op = "ret" -> [s.m EXCEPT !.val = IF x = <<>> THEN 0 ELSE x[1]]
          [] t.op = "br" -> RunBlock(mod, f, t.to[1], s.env, s.m)
          [] t.op = "br_cond" -> RunBlock(mod, f, IF x[1] # 0 THEN t.to[1] ELSE t.to[2], s.env, s.m)

RunFunc(mod, f, args, m) ==
    LET allocas == SelectSeq(FlattenSeq(f.blocks), LAMBDA i : i.op = "alloca")
        empty == [r \in 0 .. f.next - 1 |-> IF r < Len(args) THEN args[r + 1] ELSE 0]
        frame == FoldLeft(LAMBDA s, i : [env |-> [s.env EXCEPT ![i.dest] = s.m.brk],
                                         m |-> Reserve(s.m, Pointee(i.ty), Garbage)],
                          [env |-> empty, m |-> m], allocas)
        done == RunBlock(mod, f, 1, frame.env, frame.m)
    IN  [done EXCEPT !.mem = [a \in {b \in DOMAIN @ : b < m.brk} |-> @[a]], !.brk = m.brk]

\* What the world sees of a run of the main function on an argument.
Behaviour(m) == [out |-> m.out, end |-> IF m.end = Running THEN <<"returned", m.val>> ELSE m.end]
RunModule(mod, fn, args) == Behaviour(RunFunc(mod, mod.funcs[fn], args, PlaceGlobals(mod)))
=============================================================================

-------------------------------- MODULE Mem2Reg --------------------------------
(***************************************************************************)
(* ir_mem2reg_func (src/src/middleend/ir_mem2reg.c): stack variables that  *)
(* are only loaded and stored, and never loaded before a store, become     *)
(* values, with phis where stores meet.                                    *)
(***************************************************************************)
EXTENDS Passes, Dominators

IsLoad(i, p) == i.op = "load" /\ i.args = <<RegV(p)>>
IsStore(i, p) == i.op = "store" /\ Len(i.args) = 2 /\ i.args[2] = RegV(p)

Allocas(f) == SelectSeq(Dests(f), LAMBDA r : DefInst(f, r).op = "alloca")

\* ir_inst_ptr_use_is_allowed: the address is used for nothing else.
AddressEscapes(f, p) ==
    \/ \E i \in ToSet(AllInsts(f)) :
         /\ RegV(p) \in Reads(i)
         /\ ~IsLoad(i, p)
         /\ ~(IsStore(i, p) /\ i.args[1] # RegV(p))
    \/ \E b \in Blocks(f) : RegV(p) \in ToSet(Term(f, b).arg)

-----------------------------------------------------------------------------
(* ir_alloca_loads_are_definitely_initialized                              *)

StoreIndices(f, p, b) == {k \in DOMAIN Insts(f, b) : IsStore(Insts(f, b)[k], p)}
LoadsFirst(f, p, b) ==
    \E k \in DOMAIN Insts(f, b) : IsLoad(Insts(f, b)[k], p) /\ \A j \in StoreIndices(f, p, b) : k < j

\* S: the blocks at whose end the variable is set.  None is at first, so a
\* loop that does not store to the variable counts as not setting it.
SetAtStart(f, S, b) == b # Entry(f) /\ Preds(f, b) # {} /\ Preds(f, b) \subseteq S
SetBlocks(f, p) ==
    LET Visit(S, b) == IF SetAtStart(f, S, b) \/ StoreIndices(f, p, b) # {} THEN S \cup {b} ELSE S
        Pass(S, k) == FoldLeft(Visit, S, f.order)
    IN  FoldLeftDomain(Pass, {}, f.order)
LoadsInitialized(f, p) ==
    \A b \in Blocks(f) : LoadsFirst(f, p, b) => SetAtStart(f, SetBlocks(f, p), b)

UseBlocks(f, p) == {b \in Blocks(f) : \E i \in ToSet(Insts(f, b)) : RegV(p) \in Reads(i)}
CanPromote(f, p) ==
    /\ LoadsInitialized(f, p)
    /\ ~AddressEscapes(f, p)
    /\ \A b \in UseBlocks(f, p) : Dominates(f, DefBlock(f, p), b)

-----------------------------------------------------------------------------
(* mem2reg_insert_phis_for_var, mem2reg_rename_block                       *)

\* Where the values of several stores meet; a phi is a store in its turn.
PhiBlocks(f, p) ==
    LET Frontiers(S, k) == S \cup UNION {Frontier(f, b) : b \in S \cup {c \in Blocks(f) : StoreIndices(f, p, c) # {}}}
    IN  FoldLeftDomain(Frontiers, {}, f.order)

\* All phis to insert, variable by variable: <<variable, block>>.
PhiSites(f, promoted) ==
    LET Of(p) == SelectSeq(f.order, LAMBDA b : b \in PhiBlocks(f, p))
        Sites(p) == [k \in DOMAIN Of(p) |-> <<p, Of(p)[k]>>]
    IN  FlattenSeq([k \in DOMAIN promoted |-> Sites(promoted[k])])
PhiReg(f, sites, p, b) == f.next + (CHOOSE k \in DOMAIN sites : sites[k] = <<p, b>>) - 1

\* The value of variable p before place k of block b: of the last store above
\* it, here or up the dominator tree, or of the phi of a block on the way.
NoValue == <<>>
RECURSIVE Current(_, _, _, _, _)
Current(f, sites, p, b, k) ==
    LET above == {j \in StoreIndices(f, p, b) : j < k}
    IN  CASE above # {} -> Insts(f, b)[Max(above)].args[1]
          [] above = {} /\ <<p, b>> \in ToSet(sites) -> RegV(PhiReg(f, sites, p, b))
          [] above = {} /\ <<p, b>> \notin ToSet(sites) /\ b = Entry(f) -> NoValue
          [] OTHER -> LET a == ImmediateDominator(f, b) IN Current(f, sites, p, a, Len(Insts(f, a)) + 1)

AtEnd(f, sites, p, b) ==
    LET v == Current(f, sites, p, b, Len(Insts(f, b)) + 1) IN IF v = NoValue THEN Const(0) ELSE v

NewPhis(f, sites, b) ==
    LET here == SelectSeq(sites, LAMBDA s : s[2] = b)
        Entries(p) == [q \in Preds(f, b) \cap Reachable(f) |-> AtEnd(f, sites, p, q)]
    IN  [k \in DOMAIN here |-> Phi(PhiReg(f, sites, here[k][1], b), Entries(here[k][1]))]

\* Blocks out of reach lose the alloca but keep what used it.
RenamedBlock(f, promoted, sites, b) ==
    LET Variable(i) == {p \in ToSet(promoted) : IsLoad(i, p)}
        Rename(k) ==
            LET i == Insts(f, b)[k]
                v == Current(f, sites, CHOOSE p \in Variable(i) : TRUE, b, k)
            IN  IF Variable(i) = {} \/ v = NoValue THEN i ELSE CopyOf(i, v)
        Stays(i) == /\ i.dest \notin ToSet(promoted)
                    /\ \A p \in ToSet(promoted) : ~IsStore(i, p)
        phis == SelectSeq(Insts(f, b), IsPhi)
        rest == SelectSeq([k \in DOMAIN Insts(f, b) |-> Rename(k)], LAMBDA i : ~IsPhi(i) /\ Stays(i))
    IN  IF b \in Reachable(f) THEN phis \o NewPhis(f, sites, b) \o rest
        ELSE SelectSeq(Insts(f, b), LAMBDA i : i.dest \notin ToSet(promoted))

Renamed(f, promoted, sites) ==
    [f EXCEPT !.next = @ + Len(sites),
              !.body = [b \in Blocks(f) |->
                  [insts |-> RenamedBlock(f, promoted, sites, b), term |-> Term(f, b)]]]
Promote(f, promoted) ==
    IF promoted = <<>> THEN Report(f, FALSE)
    ELSE Report(Renamed(f, promoted, PhiSites(f, promoted)), TRUE)
PromoteVariables(f) == Promote(f, SelectSeq(Allocas(f), LAMBDA p : CanPromote(f, p)))
=============================================================================

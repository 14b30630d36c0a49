----------------------------- MODULE MCCodeEmit -----------------------------
(***************************************************************************)
(* Every operation.  Any name may be spilled, and immediates are of both   *)
(* sizes.                                                                  *)
(***************************************************************************)
EXTENDS CodeEmit

MCOps == BinOps \cup DivOps \cup
    {"copy", "neg", "not", "address", "mulpow2", "shl", "cmp", "br", "load", "loadg", "store",
     "storeg", "fadd", "fneg", "fcmp", "fcmpgt", "widen", "widenimm", "itof", "toint",
     "index1", "index2", "index3", "indexg"}
=============================================================================

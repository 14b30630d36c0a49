-------------------------------- MODULE Driver --------------------------------
(***************************************************************************)
(* The compilation driver: the tail of baa_main (main.c),                  *)
(* driver_compile_files and compile_one_ir (driver_pipeline.c), direct and *)
(* generated Nazm units (driver_nazm.c), the startup object                *)
(* (driver_startup.c) and the one-definition registry                      *)
(* (driver_pipeline_validation.inc), all under src/src/driver/.            *)
(*                                                                         *)
(* Compiler processes run in one directory.  Every phase may fail; the     *)
(* files a phase writes and deletes are what later phases, and other       *)
(* processes, see.  File names are tuples <<kind, parts...>>: two names    *)
(* are equal when the strings the code builds are.  The target is the      *)
(* host, an ELF system; the shadow comparison, the JSON queries and the    *)
(* probe of the Nazm executable are left out, the object cache is          *)
(* BuildCache, and a tool's diagnostics file is part of the tool's step.   *)
(***************************************************************************)
EXTENDS Integers, Sequences, SequencesExt, FiniteSets, Functions

CONSTANTS
    Process,    \* compiler processes
    Jobs,       \* Jobs[p]: command lines p may have been given
    Exports     \* Exports[b]: functions and variables defined by source b

\* A command line: mode is "link", "compile" (-c), "assembly" (-S) or "check";
\* out is the argument of -o; inputs are [base, direct], direct for .نظم.
CommandLine ==
    [mode : {"link", "compile", "assembly", "check"}, assembler : {"gas", "nazm"},
     verbose : BOOLEAN, incremental : BOOLEAN, out : STRING,
     inputs : Seq([base : DOMAIN Exports, direct : BOOLEAN]) \ {<<>>}]

ASSUME JobsAssumption == \A p \in Process : Jobs[p] \subseteq CommandLine

VARIABLES
    disk,       \* files by name: who wrote them, and what they are made of
    job,        \* the command line of each process
    pc, unit,   \* phase, and index of the input it is at
    count,      \* artifact_counter of driver_make_temp_artifact_path
    obj, src,   \* object and assembly source of the current unit
    objs,       \* objects to link
    odr,        \* names in the one-definition registry
    compiled,   \* units compiled, not reused
    exit        \* exit status, or Running

vars == <<disk, job, pc, unit, count, obj, src, objs, odr, compiled, exit>>

Running == -1
Success == 0
SourceError == 1
InvalidInvocation == 2
Unsupported == 3
ToolchainError == 4
InternalError == 5

\* Contents: a file made by p, of a part <<process, source, position>>, or the
\* executable of the parts linked.
Made(p, what) == [by |-> p, of |-> what]
Wrote(n, c) == [f \in DOMAIN disk \cup {n} |-> IF f = n THEN c ELSE disk[f]]
Without(files, N) == Restrict(files, DOMAIN files \ N)

Input(p) == job[p].inputs[unit[p]]
Single(p) == Len(job[p].inputs) = 1
Objects(p) == job[p].mode \in {"link", "compile"}
UnitPart(p) == <<p, Input(p).base, unit[p]>>
StartupPart(p) == <<p, "startup", 0>>

-----------------------------------------------------------------------------
(* Names of files.                                                         *)

TempPathWithoutProcess(p, kind, base) == <<kind, base, count[p] + 1>>
\* driver_make_temp_artifact_path: base, prefix, process and a counter.
TempPath(p, kind, base) == <<kind, base, p, count[p] + 1>>

\* Objects: the output of -c, a temporary name for a link, and for a .نظم root
\* in a link the output with the number of such roots so far.
DirectCount(p) == Cardinality({k \in 1 .. unit[p] : job[p].inputs[k].direct})
ObjectPath(p) ==
    CASE job[p].mode = "compile" /\ Single(p) -> <<"out", job[p].out>>
      [] job[p].mode = "compile" /\ ~Single(p) -> <<"o", Input(p).base>>
      [] job[p].mode = "link" /\ Input(p).direct -> <<"unit", job[p].out, DirectCount(p)>>
      [] job[p].mode = "link" /\ ~Input(p).direct -> TempPath(p, "obj", <<"out", job[p].out>>)
      [] OTHER -> <<"no object">>

UsesCounter(p) == job[p].mode = "link" /\ ~Input(p).direct

\* The assembly source of a unit: the output of -S or a temporary.
SourceKind(p) == IF job[p].assembler = "gas" THEN "gas source" ELSE "nazm source"
SourcePath(p) ==
    CASE job[p].mode = "assembly" /\ Single(p) -> <<"out", job[p].out>>
      [] job[p].mode = "assembly" /\ ~Single(p) -> <<SourceKind(p), Input(p).base>>
      [] job[p].mode # "assembly" -> TempPath(p, job[p].assembler, obj[p])
MapOf(n) == <<"map", n>>

\* driver_startup_artifact_path
StartupSource(p) == <<"startup source", job[p].out, job[p].assembler>>
StartupObject(p) == <<"startup object", job[p].out, job[p].assembler>>

-----------------------------------------------------------------------------
Init ==
    /\ disk = [n \in {} |-> Made("nobody", <<"nobody", "nothing", 0>>)]
    /\ job \in {j \in [Process -> UNION {Jobs[p] : p \in Process}] :
                  \A p \in Process : j[p] \in Jobs[p]}
    /\ pc = [p \in Process |-> "begin"]
    /\ unit = [p \in Process |-> 1]
    /\ count = [p \in Process |-> 0]
    /\ obj = [p \in Process |-> <<"no object">>]
    /\ src = [p \in Process |-> <<"no source">>]
    /\ objs = [p \in Process |-> <<>>]
    /\ odr = [p \in Process |-> {}]
    /\ compiled = [p \in Process |-> {}]
    /\ exit = [p \in Process |-> Running]

At(p, phase) == pc[p] = phase
Goto(p, phase) == pc' = [pc EXCEPT ![p] = phase]
Leave(p, status) == Goto(p, "end") /\ exit' = [exit EXCEPT ![p] = status]
Continue == UNCHANGED exit

\* The rest of driver_compile_files after a unit: the next one, the startup
\* object when linking, or the end of the function.
NextUnit(p) ==
    IF unit[p] < Len(job[p].inputs)
      THEN Goto(p, "unit") /\ unit' = [unit EXCEPT ![p] = @ + 1]
      ELSE Goto(p, IF job[p].mode = "link" THEN "startup" ELSE "manifest") /\ UNCHANGED unit

AddedInFront(p, n) == <<n>> \o objs[p]
Added(p, n) == Append(objs[p], n)

-----------------------------------------------------------------------------
(* One unit.                                                               *)

\* driver_validate_nazm_inputs: .نظم roots are for -c and links only.
HasDirect(p) == \E k \in DOMAIN job[p].inputs : job[p].inputs[k].direct

Begin(p) ==
    /\ At(p, "begin")
    /\ IF HasDirect(p) /\ ~Objects(p) THEN Leave(p, Unsupported) ELSE Goto(p, "unit") /\ Continue
    /\ UNCHANGED <<disk, job, unit, count, obj, src, objs, odr, compiled>>

\* driver_build_try_reuse_object succeeds: the object is copied, and the unit
\* is neither parsed nor entered in the registry.
Reuse(p) ==
    /\ At(p, "unit")
    /\ job[p].incremental /\ Objects(p)
    /\ disk' = Wrote(ObjectPath(p), Made(p, UnitPart(p)))
    /\ objs' = [objs EXCEPT ![p] = Added(p, ObjectPath(p))]
    /\ count' = [count EXCEPT ![p] = IF UsesCounter(p) THEN @ + 1 ELSE @]
    /\ NextUnit(p)
    /\ Continue
    /\ UNCHANGED <<job, obj, src, odr, compiled>>

\* No reuse.  A direct Nazm unit goes to the assembler once its old object is
\* deleted; a Baa unit to the front end.
Miss(p) ==
    /\ At(p, "unit")
    /\ obj' = [obj EXCEPT ![p] = ObjectPath(p)]
    /\ IF Input(p).direct
         THEN Goto(p, "assemble") /\ disk' = Without(disk, {ObjectPath(p)})
         ELSE Goto(p, "front") /\ UNCHANGED disk
    /\ count' = [count EXCEPT ![p] = IF UsesCounter(p) THEN @ + 1 ELSE @]
    /\ Continue
    /\ UNCHANGED <<job, unit, src, objs, odr, compiled>>

\* The source cannot be read; syntax, semantics or -Werror; lowering.  Then
\* --verify-gate or --verify-ssa without optimisation; optimiser, verifier,
\* out-of-SSA, selection or allocation.
PhaseFails(p) ==
    /\ \/ At(p, "front") /\ \E s \in {ToolchainError, SourceError, InternalError} :
            (s = InternalError => job[p].mode # "check") /\ Leave(p, s)
       \/ At(p, "codegen") /\ \E s \in {InvalidInvocation, InternalError} : Leave(p, s)
    /\ UNCHANGED <<disk, job, unit, count, obj, src, objs, odr, compiled>>

\* --check ends here, once the manifest has a record of the unit.
Checked(p) ==
    /\ At(p, "front") /\ job[p].mode = "check"
    /\ NextUnit(p)
    /\ Continue
    /\ UNCHANGED <<disk, job, count, obj, src, objs, odr, compiled>>

KeepsRegistry(p) == job[p].mode = "link" /\ ~Single(p)
NotRegistered(p) == FALSE
\* driver_odr_record_symbol finds the name.
Registered(p) == KeepsRegistry(p) /\ Exports[Input(p).base] \cap odr[p] # {}

Lower(p) ==
    /\ At(p, "front") /\ job[p].mode # "check"
    /\ ~Registered(p)
    /\ odr' = [odr EXCEPT ![p] = IF KeepsRegistry(p) THEN @ \cup Exports[Input(p).base] ELSE @]
    /\ compiled' = [compiled EXCEPT ![p] = @ \cup {unit[p]}]
    /\ Goto(p, "codegen")
    /\ Continue
    /\ UNCHANGED <<disk, job, unit, count, obj, src, objs>>

DuplicateDefinition(p) ==
    /\ At(p, "front") /\ job[p].mode # "check"
    /\ Registered(p)
    /\ Leave(p, SourceError)
    /\ UNCHANGED <<disk, job, unit, count, obj, src, objs, odr, compiled>>

\* The assembly source is written: by emit_module_ex2 for GAS, with a source
\* map by driver_emit_nazm_source for Nazm.
Generated(p) ==
    LET n == SourcePath(p)  c == Made(p, UnitPart(p))
    IN  IF job[p].assembler = "gas" THEN Wrote(n, c)
        ELSE [f \in DOMAIN disk \cup {n, MapOf(n)} |-> IF f \in {n, MapOf(n)} THEN c ELSE disk[f]]

Emit(p) ==
    /\ At(p, "codegen")
    /\ disk' = IF job[p].assembler = "nazm" THEN Without(Generated(p), {obj[p]}) ELSE Generated(p)
    /\ src' = [src EXCEPT ![p] = SourcePath(p)]
    /\ IF job[p].mode = "assembly"
         THEN NextUnit(p) /\ UNCHANGED count
         ELSE Goto(p, "assemble") /\ count' = [count EXCEPT ![p] = @ + 1] /\ UNCHANGED unit
    /\ Continue
    /\ UNCHANGED <<job, obj, objs, odr, compiled>>

\* For -S with Nazm the manifest has to take the record as well.
EmitUnrecorded(p) ==
    /\ At(p, "codegen")
    /\ job[p].mode = "assembly" /\ job[p].assembler = "nazm"
    /\ disk' = Generated(p)
    /\ Leave(p, ToolchainError)
    /\ UNCHANGED <<job, unit, count, obj, src, objs, odr, compiled>>

\* The file cannot be opened; or emission fails, or the options are not
\* supported, after it was opened.  A temporary GAS source is then left behind.
PartLeft(p) == Wrote(SourcePath(p), Made(p, <<p, "part", 0>>))
LeftByEmission(p) ==
    IF job[p].assembler = "gas"
      THEN IF job[p].mode = "assembly" THEN Without(disk, {SourcePath(p)})
                                       ELSE PartLeft(p)
      ELSE Without(disk, {SourcePath(p), MapOf(SourcePath(p)), obj[p]})

EmitFails(p) ==
    /\ At(p, "codegen")
    /\ \/ /\ disk' = LeftByEmission(p)
          /\ \E s \in {Unsupported, IF job[p].assembler = "gas" THEN InternalError ELSE ToolchainError} :
               Leave(p, s)
       \/ /\ job[p].assembler = "gas"
          /\ Leave(p, ToolchainError)
          /\ UNCHANGED disk
    /\ UNCHANGED <<job, unit, count, obj, src, objs, odr, compiled>>

\* What is deleted of the generated sources, by either driver after its tool.
Spent(p) ==
    CASE job[p].verbose -> {}
      [] ~job[p].verbose /\ Input(p).direct -> {}
      [] ~job[p].verbose /\ ~Input(p).direct -> {src[p], MapOf(src[p])}

\* driver_toolchain_assemble_one or driver_nazm_run_assembler, the tool.
Assemble(p) ==
    /\ At(p, "assemble")
    /\ Input(p).direct \/ src[p] \in DOMAIN disk
    /\ disk' = Wrote(obj[p], Made(p, IF Input(p).direct THEN UnitPart(p) ELSE disk[src[p]].of))
    /\ Goto(p, "assembled")
    /\ Continue
    /\ UNCHANGED <<job, unit, count, obj, src, objs, odr, compiled>>

\* Nazm's object is deleted when it fails, and for a direct source its status
\* is a source error.
AssembleFails(p) ==
    /\ At(p, "assemble")
    /\ disk' = Without(disk, Spent(p) \cup
                 (IF Input(p).direct \/ job[p].assembler = "nazm" THEN {obj[p]} ELSE {}))
    /\ \E s \in {ToolchainError} \cup (IF Input(p).direct THEN {SourceError} ELSE {}) : Leave(p, s)
    /\ UNCHANGED <<job, unit, count, obj, src, objs, odr, compiled>>

\* The sources are deleted, and the manifest and the cache updated.
Record(p) ==
    /\ At(p, "assembled")
    /\ disk' = Without(disk, Spent(p))
    /\ objs' = [objs EXCEPT ![p] = Added(p, obj[p])]
    /\ NextUnit(p)
    /\ Continue
    /\ UNCHANGED <<job, count, obj, src, odr, compiled>>

RecordFails(p) ==
    /\ At(p, "assembled")
    /\ disk' = Without(disk, Spent(p) \cup (IF Input(p).direct THEN {obj[p]} ELSE {}))
    /\ Leave(p, ToolchainError)
    /\ UNCHANGED <<job, unit, count, obj, src, objs, odr, compiled>>

-----------------------------------------------------------------------------
(* driver_build_startup_object                                             *)

StartupFiles(p) == {StartupSource(p), StartupObject(p)}
SpentStartupNever(p) == {}
SpentStartup(p) == IF job[p].verbose THEN {} ELSE {StartupSource(p)}

WriteStartup(p) ==
    /\ At(p, "startup")
    /\ disk' = [f \in (DOMAIN disk \ StartupFiles(p)) \cup {StartupSource(p)} |->
                  IF f = StartupSource(p) THEN Made(p, StartupPart(p)) ELSE disk[f]]
    /\ Goto(p, "startup source")
    /\ Continue
    /\ UNCHANGED <<job, unit, count, obj, src, objs, odr, compiled>>

AssembleStartup(p) ==
    /\ At(p, "startup source")
    /\ StartupSource(p) \in DOMAIN disk
    /\ disk' = Wrote(StartupObject(p), Made(p, disk[StartupSource(p)].of))
    /\ Goto(p, "startup object")
    /\ Continue
    /\ UNCHANGED <<job, unit, count, obj, src, objs, odr, compiled>>

EndStartup(p) ==
    /\ At(p, "startup object")
    /\ disk' = Without(disk, SpentStartup(p))
    /\ objs' = [objs EXCEPT ![p] = Added(p, StartupObject(p))]
    /\ Goto(p, "manifest")
    /\ Continue
    /\ UNCHANGED <<job, unit, count, obj, src, odr, compiled>>

\* The source cannot be written, or the tool fails.
StartupFails(p) ==
    /\ \/ At(p, "startup") /\ disk' = Without(disk, StartupFiles(p))
       \/ At(p, "startup source") /\ disk' = Without(disk, SpentStartup(p) \cup {StartupObject(p)})
    /\ Leave(p, ToolchainError)
    /\ UNCHANGED <<job, unit, count, obj, src, objs, odr, compiled>>

-----------------------------------------------------------------------------
(* The end of baa_main.                                                    *)

WriteManifest(p) ==
    /\ At(p, "manifest")
    /\ IF job[p].mode = "link" THEN Goto(p, "link") /\ Continue ELSE Leave(p, Success)
    /\ UNCHANGED <<disk, job, unit, count, obj, src, objs, odr, compiled>>

ManifestFails(p) ==
    /\ At(p, "manifest")
    /\ Leave(p, ToolchainError)
    /\ UNCHANGED <<disk, job, unit, count, obj, src, objs, odr, compiled>>

Linked(p) == [k \in DOMAIN objs[p] |-> disk[objs[p][k]].of]
Defines(part) == IF part[2] \in DOMAIN Exports THEN Exports[part[2]] ELSE {part[2]}
\* The linker needs every file, and one definition of every name.
Linkable(p) ==
    /\ ToSet(objs[p]) \subseteq DOMAIN disk
    /\ \A j, k \in DOMAIN Linked(p) : j # k => Defines(Linked(p)[j]) \cap Defines(Linked(p)[k]) = {}

Link(p) ==
    /\ At(p, "link")
    /\ Linkable(p)
    /\ disk' = Wrote(<<"out", job[p].out>>, Made(p, Linked(p)))
    /\ Goto(p, "linked")
    /\ Continue
    /\ UNCHANGED <<job, unit, count, obj, src, objs, odr, compiled>>

LinkFails(p) ==
    /\ At(p, "link")
    /\ Leave(p, ToolchainError)
    /\ UNCHANGED <<disk, job, unit, count, obj, src, objs, odr, compiled>>

CleanUp(p) ==
    /\ At(p, "linked")
    /\ disk' = IF job[p].verbose THEN disk ELSE Without(disk, ToSet(objs[p]))
    /\ Leave(p, Success)
    /\ UNCHANGED <<job, unit, count, obj, src, objs, odr, compiled>>

CompileUnit(p) ==
    \/ Begin(p) \/ Reuse(p) \/ Miss(p) \/ PhaseFails(p) \/ Checked(p) \/ Lower(p)
    \/ DuplicateDefinition(p) \/ Emit(p) \/ EmitUnrecorded(p) \/ EmitFails(p)
    \/ Assemble(p) \/ AssembleFails(p) \/ Record(p) \/ RecordFails(p)
Startup(p) == WriteStartup(p) \/ AssembleStartup(p) \/ EndStartup(p) \/ StartupFails(p)
Finish(p) == WriteManifest(p) \/ ManifestFails(p) \/ Link(p) \/ LinkFails(p) \/ CleanUp(p)

Terminated == (\A p \in Process : At(p, "end")) /\ UNCHANGED vars

Next == Terminated \/ \E p \in Process : CompileUnit(p) \/ Startup(p) \/ Finish(p)

Spec == Init /\ [][Next]_vars

-----------------------------------------------------------------------------

Names == DOMAIN disk

Units(p) == [k \in DOMAIN job[p].inputs |-> <<p, job[p].inputs[k].base, k>>]

\* The files the command line asked for.
Requested(p) ==
    LET outputs(kind) == IF Single(p) THEN {<<"out", job[p].out>>}
                         ELSE {<<kind, job[p].inputs[k].base>> : k \in DOMAIN job[p].inputs}
        sources == outputs(SourceKind(p))
    IN  CASE job[p].mode = "link" -> {<<"out", job[p].out>>}
          [] job[p].mode = "compile" -> outputs("o")
          [] job[p].mode = "assembly" /\ job[p].assembler = "gas" -> sources
          [] job[p].mode = "assembly" /\ job[p].assembler = "nazm" -> sources \cup {MapOf(n) : n \in sources}
          [] job[p].mode = "check" -> {}

\* No two inputs ask for one file.  They do in -c a.baa a.نظم, both for a.o: the
\* second overwrites the first, and the status is 0.
OneEach(p) ==
    job[p].mode \in {"compile", "assembly"} =>
      \A j, k \in DOMAIN job[p].inputs : j # k => job[p].inputs[j].base # job[p].inputs[k].base

\* No other process was told to write one of the same files.
Apart(p, q) == Requested(p) \cap Requested(q) = {}
OwnOutput(p) == OneEach(p) /\ \A q \in Process \ {p} : Apart(p, q)

\* Exit status 0 means that what was asked for is there: the executable holds
\* every unit of the command line, in its order, and the startup code last,
\* all made by this process; -c and -S left one file per unit.
Delivered ==
    \A p \in Process : exit[p] = Success /\ OwnOutput(p) =>
      /\ Requested(p) \subseteq Names
      /\ job[p].mode = "link" =>
           disk[<<"out", job[p].out>>].of = Append(Units(p), StartupPart(p))
      /\ job[p].mode \in {"compile", "assembly"} =>
           {disk[n].of : n \in Requested(p)} = ToSet(Units(p))

\* A successful build that is not verbose leaves nothing else behind.
NothingLeft ==
    \A p \in Process : exit[p] = Success /\ OwnOutput(p) /\ ~job[p].verbose =>
      {n \in Names : disk[n].by = p} \subseteq Requested(p)

SameName(p, j, k) ==
    Exports[job[p].inputs[j].base] \cap Exports[job[p].inputs[k].base] # {}

\* Of the Baa units compiled by one link, no two that define the same name
\* ever reach the linker.
DuplicatesStopped ==
    \A p \in Process : pc[p] \in {"link", "linked"} =>
      \A j, k \in compiled[p] : j # k => ~SameName(p, j, k)

\* The files of q that p must leave alone: all of them, or its temporary
\* objects and sources if both were told to write one of the same files.
PrivateOf(q, p) ==
    {n \in Names : /\ disk[n].by = q
                   /\ ~Apart(p, q) => n[1] \in {"obj", "gas", "nazm"}}

\* Builds that run at the same time in one directory never overwrite or
\* delete a file of each other; if they write one of the same, not a temporary.
PrivateArtifacts ==
    [][\A p, q \in Process : p # q /\ <<pc[p], unit[p]>>' # <<pc[p], unit[p]>> =>
         \A n \in PrivateOf(q, p) : n \in DOMAIN disk' /\ disk'[n] = disk[n]]_vars
=============================================================================

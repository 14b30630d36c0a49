----------------------------- MODULE DriverProofs ------------------------------
(***************************************************************************)
(* For any number of compilers in one directory and any command lines: the *)
(* files of one are not touched by another, duplicates never reach the     *)
(* linker, and status 0 means that what was asked for, and nothing else,   *)
(* was left.                                                               *)
(***************************************************************************)
EXTENDS Driver, TLAPS, FiniteSetTheorems

Phases == {"begin", "unit", "front", "codegen", "assemble", "assembled", "startup", "startup source",
           "startup object", "manifest", "link", "linked", "end"}
UnitPhases == {"begin", "unit", "front", "codegen", "assemble", "assembled"}
AfterMiss == {"front", "codegen", "assemble", "assembled"}
Assembling == {"assemble", "assembled"}
StartupPhases == {"startup", "startup source", "startup object"}
LinkPhases == {"manifest", "link", "linked"}

OutName == {"out"} \X STRING
ObjectName ==
    OutName \cup ({"o"} \X DOMAIN Exports) \cup ({"unit"} \X STRING \X Nat)
    \cup ({"obj"} \X OutName \X Process \X Nat) \cup ({"startup object"} \X STRING \X {"gas", "nazm"})

-----------------------------------------------------------------------------
(* Whose name a file has.                                                  *)

Plain(p, n) ==
    \/ n[1] \in {"obj", "gas", "nazm"} /\ n[3] = p
    \/ n[1] \in {"out", "o", "gas source", "nazm source"} /\ n \in Requested(p)
    \/ n[1] \in {"unit", "startup source", "startup object"} /\ n[2] = job[p].out /\ job[p].mode = "link"
Named(p, n) == Plain(p, n) \/ (n[1] = "map" /\ Plain(p, n[2]))

\* The units of the command line that are finished.
Done(p) == IF pc[p] \in UnitPhases THEN unit[p] - 1 ELSE Len(job[p].inputs)
Direct(p, k) == job[p].inputs[k].direct
Part(p, k) == <<p, job[p].inputs[k].base, k>>

-----------------------------------------------------------------------------
(* The invariant, for each compiler.                                       *)

Shape(p) ==
    /\ pc[p] \in Phases /\ unit[p] \in 1 .. Len(job[p].inputs) /\ count[p] \in Nat
    /\ objs[p] \in Seq(ObjectName)
    /\ exit[p] = Running <=> pc[p] # "end"
    /\ pc[p] \notin {"begin", "end"} /\ HasDirect(p) => Objects(p)
    /\ pc[p] \in Assembling => Objects(p)
    /\ pc[p] \in {"front", "codegen"} => ~Input(p).direct
    /\ pc[p] = "codegen" => job[p].mode # "check"
    /\ pc[p] \in StartupPhases \cup {"link", "linked"} => job[p].mode = "link"

\* n is a name the object of unit k may have when the counter is at last.
DirectUpTo(p, k) == {i \in 1 .. k : job[p].inputs[i].direct}
ObjectOf(p, k, n, last) ==
    \/ job[p].mode = "compile" /\ n = IF Single(p) THEN <<"out", job[p].out>> ELSE <<"o", job[p].inputs[k].base>>
    \/ job[p].mode = "link" /\ Direct(p, k) /\ n = <<"unit", job[p].out, Cardinality(DirectUpTo(p, k))>>
    \/ job[p].mode = "link" /\ ~Direct(p, k) /\ \E c \in 1 .. last : n = <<"obj", <<"out", job[p].out>>, p, c>>

\* The objects so far, with names of their own in a link, and the startup object.
Count(p) == IF ~Objects(p) THEN 0 ELSE IF job[p].mode = "link" /\ pc[p] \in LinkPhases THEN Done(p) + 1 ELSE Done(p)
Counted(p) == pc[p] # "end" => Len(objs[p]) = Count(p)
UnitObjects(p) == pc[p] # "end" /\ Objects(p) => \A k \in 1 .. Done(p) : ObjectOf(p, k, objs[p][k], count[p])
Distinct(p) == pc[p] # "end" /\ job[p].mode = "link" => \A j, k \in 1 .. Done(p) : j # k => objs[p][j] # objs[p][k]
StartupLast(p) == pc[p] \in LinkPhases /\ job[p].mode = "link" => objs[p][Len(job[p].inputs) + 1] = StartupObject(p)

\* The object and the assembly source of the present unit.
Present(p) ==
    /\ pc[p] \in AfterMiss /\ Objects(p) => ObjectOf(p, unit[p], obj[p], count[p])
    /\ pc[p] \in AfterMiss /\ job[p].mode = "link" => \A k \in 1 .. Done(p) : objs[p][k] # obj[p]
    /\ pc[p] \in AfterMiss /\ ~Objects(p) => obj[p] = <<"no object">>
    /\ pc[p] \in Assembling /\ ~Input(p).direct => src[p][1] \in {"gas", "nazm"} /\ src[p][3] = p

Objs(p) == Counted(p) /\ UnitObjects(p) /\ Distinct(p) /\ StartupLast(p) /\ Present(p)

Holds(n, what) == n \in DOMAIN disk /\ disk[n].of = what
SourceOf(p, k) == IF Single(p) THEN <<"out", job[p].out>> ELSE <<SourceKind(p), job[p].inputs[k].base>>

DeliveredBy(p) ==
    /\ Requested(p) \subseteq Names
    /\ job[p].mode = "link" => disk[<<"out", job[p].out>>].of = Append(Units(p), StartupPart(p))
    /\ job[p].mode \in {"compile", "assembly"} => {disk[n].of : n \in Requested(p)} = ToSet(Units(p))

\* What is in them.
ObjectsHold(p) ==
    pc[p] # "end" /\ Objects(p) =>
      \A k \in 1 .. Done(p) : Holds(objs[p][k], Part(p, k)) \/ (pc[p] = "assemble" /\ objs[p][k] = obj[p])
SourcesHold(p) ==
    pc[p] # "end" /\ job[p].mode = "assembly" =>
      \A k \in 1 .. Done(p) : /\ Holds(SourceOf(p, k), Part(p, k))
                              /\ job[p].assembler = "nazm" => Holds(MapOf(SourceOf(p, k)), Part(p, k))
PresentHolds(p) ==
    /\ pc[p] = "assemble" /\ ~Input(p).direct => Holds(src[p], Part(p, unit[p]))
    /\ pc[p] = "assembled" => Holds(obj[p], Part(p, unit[p]))
StartupHolds(p) ==
    /\ pc[p] = "startup source" => Holds(StartupSource(p), StartupPart(p))
    /\ pc[p] = "startup object" \/ (pc[p] \in {"manifest", "link"} /\ job[p].mode = "link") =>
         Holds(StartupObject(p), StartupPart(p))
    /\ pc[p] = "linked" => Holds(<<"out", job[p].out>>, Append(Units(p), StartupPart(p)))

Files(p) ==
    /\ OneEach(p) /\ ObjectsHold(p) /\ SourcesHold(p) /\ PresentHolds(p) /\ StartupHolds(p)
    /\ exit[p] = Success => DeliveredBy(p)

\* What p made and nobody asked for, for which there is still a use.
Needed(p) ==
    ToSet(objs[p])
    \cup (IF pc[p] \in Assembling THEN {obj[p]} \cup (IF Input(p).direct THEN {} ELSE {src[p], MapOf(src[p])}) ELSE {})
    \cup (IF pc[p] \in StartupPhases THEN StartupFiles(p) ELSE {})
Left(p) ==
    ~job[p].verbose =>
      /\ pc[p] # "end" => \A n \in DOMAIN disk : disk[n].by = p => n \in Requested(p) \cup Needed(p)
      /\ exit[p] = Success => \A n \in DOMAIN disk : disk[n].by = p => n \in Requested(p)

\* The registry holds every name of the units compiled, each of one unit.
Registry(p) ==
    /\ compiled[p] \subseteq 1 .. unit[p]
    /\ KeepsRegistry(p) => \A k \in compiled[p] : Exports[job[p].inputs[k].base] \subseteq odr[p]
    /\ KeepsRegistry(p) => \A j, k \in compiled[p] : j # k => ~SameName(p, j, k)

Types ==
    /\ job \in [Process -> CommandLine]
    /\ DOMAIN pc = Process /\ DOMAIN unit = Process /\ DOMAIN count = Process /\ DOMAIN obj = Process
    /\ DOMAIN src = Process /\ DOMAIN objs = Process /\ DOMAIN odr = Process /\ DOMAIN compiled = Process
    /\ DOMAIN exit = Process

\* Every file is named after the compiler that made it.
Makers == \A n \in DOMAIN disk : disk[n].by \in Process /\ Named(disk[n].by, n)

DriverInv ==
    /\ Types /\ Makers
    /\ \A p \in Process : Shape(p) /\ Objs(p) /\ (OwnOutput(p) => Files(p)) /\ Left(p) /\ Registry(p)

-----------------------------------------------------------------------------
(* A step is of one compiler.                                              *)

Step(p) == CompileUnit(p) \/ Startup(p) \/ Finish(p)

LEMMA SequenceIs ==
  ASSUME NEW S, NEW s \in Seq(S), s # <<>>
  PROVE  Len(s) \in Nat \ {0} /\ DOMAIN s = 1 .. Len(s) /\ \A k \in 1 .. Len(s) : s[k] \in S
OBVIOUS

LEMMA CommandLineIs ==
  ASSUME Types, NEW p \in Process
  PROVE  /\ job[p].mode \in {"link", "compile", "assembly", "check"} /\ job[p].assembler \in {"gas", "nazm"}
         /\ job[p].verbose \in BOOLEAN /\ job[p].incremental \in BOOLEAN /\ job[p].out \in STRING
         /\ Len(job[p].inputs) \in Nat \ {0} /\ DOMAIN job[p].inputs = 1 .. Len(job[p].inputs)
         /\ \A k \in 1 .. Len(job[p].inputs) :
              job[p].inputs[k].base \in DOMAIN Exports /\ job[p].inputs[k].direct \in BOOLEAN
<1> DEFINE I == [base : DOMAIN Exports, direct : BOOLEAN]
<1>1. job[p] \in CommandLine
  BY DEF Types
<1>2. job[p].inputs \in Seq(I) /\ job[p].inputs # <<>>
  BY <1>1 DEF CommandLine
<1>3. Len(job[p].inputs) \in Nat \ {0} /\ DOMAIN job[p].inputs = 1 .. Len(job[p].inputs)
      /\ \A k \in 1 .. Len(job[p].inputs) : job[p].inputs[k] \in I
  BY <1>2, SequenceIs
<1> QED BY <1>1, <1>3 DEF CommandLine

Unmoved(q) ==
    /\ pc'[q] = pc[q] /\ unit'[q] = unit[q] /\ count'[q] = count[q] /\ obj'[q] = obj[q] /\ src'[q] = src[q]
    /\ objs'[q] = objs[q] /\ odr'[q] = odr[q] /\ compiled'[q] = compiled[q] /\ exit'[q] = exit[q]

LEMMA NextUnitMoves ==
  ASSUME Types, NEW p \in Process, NextUnit(p)
  PROVE  /\ DOMAIN pc' = Process /\ DOMAIN unit' = Process
         /\ \A q \in Process : q # p => pc'[q] = pc[q] /\ unit'[q] = unit[q]
BY DEF NextUnit, Goto, Types

LEMMA OthersUnmoved ==
  ASSUME Types, NEW p \in Process, Step(p)
  PROVE  UNCHANGED job /\ Types' /\ \A q \in Process : q # p => Unmoved(q)
<1> DEFINE Goal == UNCHANGED job /\ Types' /\ \A q \in Process : q # p => Unmoved(q)
<1> USE DEF Types, Unmoved, Goto, Leave, Continue
<1>1. Begin(p) => Goal
  BY DEF Begin
<1>2. Reuse(p) => Goal
  BY NextUnitMoves DEF Reuse
<1>3. Miss(p) => Goal
  BY DEF Miss
<1>4. PhaseFails(p) => Goal
  BY DEF PhaseFails
<1>5. Checked(p) => Goal
  BY NextUnitMoves DEF Checked
<1>6. Lower(p) => Goal
  BY DEF Lower
<1>7. DuplicateDefinition(p) => Goal
  BY DEF DuplicateDefinition
<1>8. Emit(p) => Goal
  BY NextUnitMoves DEF Emit
<1>9. EmitUnrecorded(p) => Goal
  BY DEF EmitUnrecorded
<1>10. EmitFails(p) => Goal
  BY DEF EmitFails
<1>11. Assemble(p) => Goal
  BY DEF Assemble
<1>12. AssembleFails(p) => Goal
  BY DEF AssembleFails
<1>13. Record(p) => Goal
  BY NextUnitMoves DEF Record
<1>14. RecordFails(p) => Goal
  BY DEF RecordFails
<1>15. WriteStartup(p) => Goal
  BY DEF WriteStartup
<1>16. AssembleStartup(p) => Goal
  BY DEF AssembleStartup
<1>17. EndStartup(p) => Goal
  BY DEF EndStartup
<1>18. StartupFails(p) => Goal
  BY DEF StartupFails
<1>19. WriteManifest(p) => Goal
  BY DEF WriteManifest
<1>20. ManifestFails(p) => Goal
  BY DEF ManifestFails
<1>21. Link(p) => Goal
  BY DEF Link
<1>22. LinkFails(p) => Goal
  BY DEF LinkFails
<1>23. CleanUp(p) => Goal
  BY DEF CleanUp
<1> HIDE DEF Goal
<1>g. Goal
  BY <1>1, <1>2, <1>3, <1>4, <1>5, <1>6, <1>7, <1>8, <1>9, <1>10, <1>11, <1>12, <1>13, <1>14, <1>15, <1>16, <1>17, <1>18, <1>19, <1>20, <1>21, <1>22, <1>23
     DEF Step, CompileUnit, Startup, Finish
<1> QED BY <1>g DEF Goal

-----------------------------------------------------------------------------
(* Names of objects.                                                       *)

LEMMA DirectCounts ==
  ASSUME Types, NEW p \in Process, NEW k \in 1 .. Len(job[p].inputs)
  PROVE  /\ IsFiniteSet(DirectUpTo(p, k)) /\ Cardinality(DirectUpTo(p, k)) \in Nat
         /\ Direct(p, k) => \A j \in 1 .. Len(job[p].inputs) :
              j < k => Cardinality(DirectUpTo(p, j)) # Cardinality(DirectUpTo(p, k))
<1>0. Len(job[p].inputs) \in Nat
  BY CommandLineIs
<1>1. \A j \in 1 .. Len(job[p].inputs) :
        IsFiniteSet(DirectUpTo(p, j)) /\ Cardinality(DirectUpTo(p, j)) \in Nat
  <2> SUFFICES ASSUME NEW j \in 1 .. Len(job[p].inputs)
               PROVE  IsFiniteSet(DirectUpTo(p, j)) /\ Cardinality(DirectUpTo(p, j)) \in Nat
    OBVIOUS
  <2>1. IsFiniteSet(1 .. j)
    BY <1>0, FS_Interval
  <2>2. DirectUpTo(p, j) \subseteq 1 .. j
    BY DEF DirectUpTo
  <2> QED BY <2>1, <2>2, FS_Subset, FS_CardinalityType
<1>2. ASSUME Direct(p, k), NEW j \in 1 .. Len(job[p].inputs), j < k
      PROVE  Cardinality(DirectUpTo(p, j)) # Cardinality(DirectUpTo(p, k))
  <2>1. DirectUpTo(p, j) \subseteq DirectUpTo(p, k)
    BY <1>0, <1>2 DEF DirectUpTo
  <2>2. k \in DirectUpTo(p, k) /\ k \notin DirectUpTo(p, j)
    BY <1>0, <1>2 DEF DirectUpTo, Direct
  <2> QED BY <1>1, <2>1, <2>2, FS_Subset
<1> QED BY <1>1, <1>2

LEMMA ObjectNameHas ==
  /\ \A o \in STRING : <<"out", o>> \in ObjectName
  /\ \A b \in DOMAIN Exports : <<"o", b>> \in ObjectName
  /\ \A o \in STRING, k \in Nat : <<"unit", o, k>> \in ObjectName
  /\ \A o \in STRING, p \in Process, c \in Nat : <<"obj", <<"out", o>>, p, c>> \in ObjectName
  /\ \A o \in STRING, a \in {"gas", "nazm"} : <<"startup object", o, a>> \in ObjectName
<1>1. \A o \in STRING : <<"out", o>> \in OutName
  BY DEF OutName
<1>2. \A o \in STRING : <<"out", o>> \in ObjectName
  BY <1>1 DEF ObjectName
<1>3. \A b \in DOMAIN Exports : <<"o", b>> \in ObjectName
  BY DEF ObjectName
<1>4. \A o \in STRING, k \in Nat : <<"unit", o, k>> \in ObjectName
  BY DEF ObjectName
<1>5. \A o \in OutName, p \in Process, c \in Nat : <<"obj", o, p, c>> \in ObjectName
  BY DEF ObjectName
<1>6. \A o \in STRING, a \in {"gas", "nazm"} : <<"startup object", o, a>> \in ObjectName
  BY DEF ObjectName
<1> QED BY <1>1, <1>2, <1>3, <1>4, <1>5, <1>6

\* The names of the objects, and of the outputs, that were asked for.
LEMMA RequestedHas ==
  ASSUME Types, NEW p \in Process
  PROVE  /\ job[p].mode = "link" => Requested(p) = {<<"out", job[p].out>>}
         /\ job[p].mode = "check" => Requested(p) = {}
         /\ job[p].mode = "compile" =>
              \A n, c : \A k \in 1 .. Len(job[p].inputs) : ObjectOf(p, k, n, c) => n \in Requested(p)
         /\ job[p].mode = "compile" =>
              \A n \in Requested(p) : \E k \in 1 .. Len(job[p].inputs) : \A c : ObjectOf(p, k, n, c)
<1>0. DOMAIN job[p].inputs = 1 .. Len(job[p].inputs) /\ Len(job[p].inputs) \in Nat \ {0}
  BY CommandLineIs
<1>1. job[p].mode = "link" => Requested(p) = {<<"out", job[p].out>>}
  BY DEF Requested
<1>2. job[p].mode = "check" => Requested(p) = {}
  BY DEF Requested
<1>3. job[p].mode = "compile" =>
        Requested(p) = IF Single(p) THEN {<<"out", job[p].out>>}
                       ELSE {<<"o", job[p].inputs[k].base>> : k \in DOMAIN job[p].inputs}
  BY DEF Requested
<1>4. ASSUME job[p].mode = "compile", NEW k \in 1 .. Len(job[p].inputs), NEW n, NEW c, ObjectOf(p, k, n, c)
      PROVE  n \in Requested(p)
  BY <1>0, <1>3, <1>4 DEF ObjectOf
<1>5. ASSUME job[p].mode = "compile", NEW n \in Requested(p)
      PROVE  \E k \in 1 .. Len(job[p].inputs) : \A c : ObjectOf(p, k, n, c)
  <2>1. CASE Single(p)
    BY <1>0, <1>3, <1>5, <2>1 DEF ObjectOf
  <2>2. CASE ~Single(p)
    BY <1>0, <1>3, <1>5, <2>2 DEF ObjectOf
  <2> QED BY <2>1, <2>2
<1> QED BY <1>1, <1>2, <1>4, <1>5

\* For -S: the source of each unit, and with Nazm its map.
LEMMA RequestedSources ==
  ASSUME Types, NEW p \in Process, job[p].mode = "assembly"
  PROVE  /\ \A k \in 1 .. Len(job[p].inputs) :
              /\ SourceOf(p, k) \in Requested(p)
              /\ job[p].assembler = "nazm" => MapOf(SourceOf(p, k)) \in Requested(p)
         /\ \A n \in Requested(p) : \E k \in 1 .. Len(job[p].inputs) :
              n = SourceOf(p, k) \/ (job[p].assembler = "nazm" /\ n = MapOf(SourceOf(p, k)))
<1> DEFINE S == IF Single(p) THEN {<<"out", job[p].out>>}
                ELSE {<<SourceKind(p), job[p].inputs[k].base>> : k \in DOMAIN job[p].inputs}
<1>0. DOMAIN job[p].inputs = 1 .. Len(job[p].inputs) /\ Len(job[p].inputs) \in Nat \ {0}
      /\ job[p].assembler \in {"gas", "nazm"}
  BY CommandLineIs
<1>1. Requested(p) = IF job[p].assembler = "gas" THEN S ELSE S \cup {MapOf(n) : n \in S}
  BY <1>0 DEF Requested
<1>2. \A k \in 1 .. Len(job[p].inputs) : SourceOf(p, k) \in S
  BY <1>0 DEF SourceOf
<1>3. \A n \in S : \E k \in 1 .. Len(job[p].inputs) : n = SourceOf(p, k)
  BY <1>0 DEF SourceOf
<1> HIDE DEF S
<1> QED BY <1>0, <1>1, <1>2, <1>3

LEMMA ObjectNames ==
  ASSUME Types, NEW p \in Process, NEW k \in 1 .. Len(job[p].inputs), NEW n, NEW last \in Nat,
         ObjectOf(p, k, n, last)
  PROVE  /\ n \in ObjectName /\ Plain(p, n)
         /\ n[1] \in {"out", "o", "unit", "obj"} /\ (job[p].mode = "link" => n[1] \in {"unit", "obj"})
         /\ \A more \in Nat : last <= more => ObjectOf(p, k, n, more)
<1>0. /\ job[p].out \in STRING /\ job[p].inputs[k].base \in DOMAIN Exports /\ k \in DOMAIN job[p].inputs
  BY CommandLineIs
<1>1. CASE job[p].mode = "compile" /\ n = IF Single(p) THEN <<"out", job[p].out>> ELSE <<"o", job[p].inputs[k].base>>
  <2>0. n \in Requested(p)
    BY <1>0, <1>1, RequestedHas DEF ObjectOf
  <2>1. CASE Single(p)
    <3>1. n = <<"out", job[p].out>> /\ n[1] = "out" /\ n[2] = job[p].out
      BY <1>1, <2>1
    <3> QED BY <1>0, <1>1, <2>0, <3>1, ObjectNameHas DEF ObjectOf, Plain
  <2>2. CASE ~Single(p)
    <3>1. n = <<"o", job[p].inputs[k].base>> /\ n[1] = "o" /\ n[2] = job[p].inputs[k].base
      BY <1>1, <2>2
    <3> QED BY <1>0, <1>1, <2>0, <3>1, ObjectNameHas DEF ObjectOf, Plain
  <2> QED BY <2>1, <2>2
<1>2. CASE job[p].mode = "link" /\ Direct(p, k) /\ n = <<"unit", job[p].out, Cardinality(DirectUpTo(p, k))>>
  <2>1. Cardinality(DirectUpTo(p, k)) \in Nat
    BY DirectCounts
  <2>2. n[1] = "unit" /\ n[2] = job[p].out
    BY <1>2
  <2> QED BY <1>0, <1>2, <2>1, <2>2, ObjectNameHas DEF ObjectOf, Plain
<1>3. CASE job[p].mode = "link" /\ ~Direct(p, k) /\ \E c \in 1 .. last : n = <<"obj", <<"out", job[p].out>>, p, c>>
  <2>1. PICK c \in 1 .. last : n = <<"obj", <<"out", job[p].out>>, p, c>>
    BY <1>3
  <2>2. n \in ObjectName
    <3>1. c \in Nat
      OBVIOUS
    <3> QED BY <1>0, <2>1, <3>1, ObjectNameHas
  <2>3. Plain(p, n) /\ n[1] = "obj"
    BY <2>1 DEF Plain
  <2>4. \A more \in Nat : last <= more => c \in 1 .. more
    OBVIOUS
  <2> QED BY <1>3, <2>1, <2>2, <2>3, <2>4 DEF ObjectOf
<1> QED BY <1>1, <1>2, <1>3 DEF ObjectOf

\* The name of the object of the present unit, and no other unit has it in a link.
LEMMA ObjectPathIs ==
  ASSUME Types, NEW p \in Process, Shape(p)
  PROVE  /\ Objects(p) => ObjectOf(p, unit[p], ObjectPath(p), IF UsesCounter(p) THEN count[p] + 1 ELSE count[p])
         /\ ~Objects(p) => ObjectPath(p) = <<"no object">>
         /\ job[p].mode = "link" =>
              \A n : \A k \in 1 .. (unit[p] - 1) : ObjectOf(p, k, n, count[p]) => n # ObjectPath(p)
<1>0. /\ unit[p] \in 1 .. Len(job[p].inputs) /\ count[p] \in Nat /\ Len(job[p].inputs) \in Nat
      /\ Input(p) = job[p].inputs[unit[p]] /\ DirectCount(p) = Cardinality(DirectUpTo(p, unit[p]))
      /\ job[p].mode \in {"link", "compile", "assembly", "check"} /\ Input(p).direct \in BOOLEAN
  BY CommandLineIs DEF Shape, Input, DirectCount, DirectUpTo
<1>1. CASE job[p].mode = "compile"
  BY <1>0, <1>1 DEF ObjectPath, ObjectOf, Objects
<1>2. CASE job[p].mode = "link" /\ Input(p).direct
  <2>1. ObjectPath(p) = <<"unit", job[p].out, Cardinality(DirectUpTo(p, unit[p]))>>
    BY <1>0, <1>2 DEF ObjectPath
  <2>2. ASSUME NEW k \in 1 .. (unit[p] - 1), NEW n, ObjectOf(p, k, n, count[p])
        PROVE  n # ObjectPath(p)
    <3>1. k \in 1 .. Len(job[p].inputs) /\ k < unit[p]
      BY <1>0
    <3>2. Cardinality(DirectUpTo(p, k)) # Cardinality(DirectUpTo(p, unit[p]))
      BY <1>0, <1>2, <3>1, DirectCounts DEF Direct
    <3>3. CASE n = <<"unit", job[p].out, Cardinality(DirectUpTo(p, k))>>
      BY <2>1, <3>2, <3>3
    <3>4. CASE \E c \in 1 .. count[p] : n = <<"obj", <<"out", job[p].out>>, p, c>>
      BY <2>1, <3>4
    <3> QED BY <1>2, <2>2, <3>3, <3>4 DEF ObjectOf
  <2> QED BY <1>0, <1>2, <2>1, <2>2 DEF ObjectOf, Objects, Direct
<1>3. CASE job[p].mode = "link" /\ ~Input(p).direct
  <2>1. ObjectPath(p) = <<"obj", <<"out", job[p].out>>, p, count[p] + 1>> /\ UsesCounter(p)
    BY <1>0, <1>3 DEF ObjectPath, TempPath, UsesCounter
  <2>2. ASSUME NEW k \in 1 .. (unit[p] - 1), NEW n, ObjectOf(p, k, n, count[p])
        PROVE  n # ObjectPath(p)
    <3>3. CASE n = <<"unit", job[p].out, Cardinality(DirectUpTo(p, k))>>
      BY <2>1, <3>3
    <3>4. CASE \E c \in 1 .. count[p] : n = <<"obj", <<"out", job[p].out>>, p, c>>
      <4>1. PICK c \in 1 .. count[p] : n = <<"obj", <<"out", job[p].out>>, p, c>>
        BY <3>4
      <4>2. c # count[p] + 1 /\ n[4] = c
        BY <1>0, <4>1
      <4> QED BY <2>1, <4>2
    <3> QED BY <1>3, <2>2, <3>3, <3>4 DEF ObjectOf
  <2>3. count[p] + 1 \in 1 .. (count[p] + 1)
    BY <1>0
  <2> QED BY <1>0, <1>3, <2>1, <2>2, <2>3 DEF ObjectOf, Objects, Direct
<1>4. CASE job[p].mode \in {"assembly", "check"}
  BY <1>4 DEF ObjectPath, Objects
<1> QED BY <1>0, <1>1, <1>2, <1>3, <1>4

-----------------------------------------------------------------------------
(* What each action does to its compiler, files apart.                     *)

Fails(p) ==
    /\ pc'[p] = "end" /\ exit'[p] \notin {Running, Success}
    /\ unit'[p] = unit[p] /\ count'[p] = count[p] /\ objs'[p] = objs[p] /\ odr'[p] = odr[p] /\ compiled'[p] = compiled[p]

\* A unit is finished: another one, or what comes after the last.
Advances(p) ==
    \/ /\ unit[p] < Len(job[p].inputs) /\ pc'[p] = "unit" /\ unit'[p] = unit[p] + 1
    \/ /\ unit[p] = Len(job[p].inputs) /\ unit'[p] = unit[p]
       /\ pc'[p] = IF job[p].mode = "link" THEN "startup" ELSE "manifest"

LEMMA FailuresEnd ==
  ASSUME Types, NEW p \in Process,
         \/ PhaseFails(p) \/ DuplicateDefinition(p) \/ EmitUnrecorded(p) \/ EmitFails(p) \/ AssembleFails(p)
         \/ RecordFails(p) \/ StartupFails(p) \/ ManifestFails(p) \/ LinkFails(p)
  PROVE  Fails(p)
<1> DEFINE Statuses == {SourceError, InvalidInvocation, Unsupported, ToolchainError, InternalError}
<1>1. PICK e \in Statuses : Leave(p, e) /\ UNCHANGED <<unit, count, objs, odr, compiled>>
  <2> USE DEF Statuses
  <2>1. PhaseFails(p) => \E e \in Statuses : Leave(p, e) /\ UNCHANGED <<unit, count, objs, odr, compiled>>
    BY DEF PhaseFails
  <2>2. DuplicateDefinition(p) => \E e \in Statuses : Leave(p, e) /\ UNCHANGED <<unit, count, objs, odr, compiled>>
    BY DEF DuplicateDefinition
  <2>3. EmitUnrecorded(p) => \E e \in Statuses : Leave(p, e) /\ UNCHANGED <<unit, count, objs, odr, compiled>>
    BY DEF EmitUnrecorded
  <2>4. EmitFails(p) => \E e \in Statuses : Leave(p, e) /\ UNCHANGED <<unit, count, objs, odr, compiled>>
    BY DEF EmitFails
  <2>5. AssembleFails(p) => \E e \in Statuses : Leave(p, e) /\ UNCHANGED <<unit, count, objs, odr, compiled>>
    BY DEF AssembleFails
  <2>6. RecordFails(p) \/ StartupFails(p) \/ ManifestFails(p) \/ LinkFails(p) =>
          \E e \in Statuses : Leave(p, e) /\ UNCHANGED <<unit, count, objs, odr, compiled>>
    BY DEF RecordFails, StartupFails, ManifestFails, LinkFails
  <2> QED BY <2>1, <2>2, <2>3, <2>4, <2>5, <2>6
<1> QED BY <1>1 DEF Leave, Goto, Types, Fails, Statuses, Running, Success, SourceError, InvalidInvocation,
           Unsupported, ToolchainError, InternalError

LEMMA NextUnitIs ==
  ASSUME Types, NEW p \in Process, Shape(p), NextUnit(p)
  PROVE  Advances(p)
<1>1. unit[p] \in 1 .. Len(job[p].inputs) /\ Len(job[p].inputs) \in Nat
  BY CommandLineIs DEF Shape
<1> QED BY <1>1 DEF NextUnit, Advances, Goto, Types

LEMMA AdvancesIs ==
  ASSUME Types, NEW p \in Process, Shape(p), Advances(p), UNCHANGED job
  PROVE  Done(p)' = unit[p] /\ unit'[p] \in 1 .. Len(job'[p].inputs) /\ pc'[p] \in Phases /\ pc'[p] # "end"
<1>1. unit[p] \in 1 .. Len(job[p].inputs) /\ Len(job[p].inputs) \in Nat
  BY CommandLineIs DEF Shape
<1>2. CASE unit[p] < Len(job[p].inputs) /\ pc'[p] = "unit" /\ unit'[p] = unit[p] + 1
  <2>1. unit[p] + 1 \in 1 .. Len(job[p].inputs) /\ (unit[p] + 1) - 1 = unit[p]
    BY <1>1, <1>2
  <2> QED BY <1>2, <2>1 DEF Done, UnitPhases, Phases
<1>3. CASE /\ unit[p] = Len(job[p].inputs) /\ unit'[p] = unit[p]
           /\ pc'[p] \in {"startup", "manifest"}
  BY <1>1, <1>3 DEF Done, UnitPhases, Phases
<1> QED BY <1>2, <1>3 DEF Advances

LEMMA BeginIs ==
  ASSUME Types, NEW p \in Process, Shape(p), Begin(p)
  PROVE  /\ pc[p] = "begin"
         /\ Fails(p) \/ (pc'[p] = "unit" /\ exit'[p] = exit[p] /\ (HasDirect(p) => Objects(p)))
         /\ unit'[p] = unit[p] /\ count'[p] = count[p] /\ obj'[p] = obj[p] /\ src'[p] = src[p]
         /\ objs'[p] = objs[p] /\ odr'[p] = odr[p] /\ compiled'[p] = compiled[p]
BY DEF Begin, At, Goto, Leave, Continue, Types, Fails, Running, Success, Unsupported

LEMMA ReuseIs ==
  ASSUME Types, NEW p \in Process, Shape(p), Reuse(p)
  PROVE  /\ pc[p] = "unit"
         /\ Advances(p)
         /\ obj'[p] = obj[p] /\ src'[p] = src[p] /\ odr'[p] = odr[p] /\ compiled'[p] = compiled[p]
         /\ exit'[p] = exit[p]
         /\ objs'[p] = Append(objs[p], ObjectPath(p))
         /\ count'[p] = IF UsesCounter(p) THEN count[p] + 1 ELSE count[p]
BY NextUnitIs, NextUnitMoves DEF Reuse, At, Goto, Leave, Continue, Types, Added

LEMMA MissIs ==
  ASSUME Types, NEW p \in Process, Shape(p), Miss(p)
  PROVE  /\ pc[p] = "unit"
         /\ pc'[p] = IF Input(p).direct THEN "assemble" ELSE "front"
         /\ unit'[p] = unit[p] /\ src'[p] = src[p] /\ objs'[p] = objs[p] /\ odr'[p] = odr[p]
         /\ compiled'[p] = compiled[p] /\ exit'[p] = exit[p]
         /\ obj'[p] = ObjectPath(p)
         /\ count'[p] = IF UsesCounter(p) THEN count[p] + 1 ELSE count[p]
BY DEF Miss, At, Goto, Leave, Continue, Types

LEMMA CheckedIs ==
  ASSUME Types, NEW p \in Process, Shape(p), Checked(p)
  PROVE  /\ pc[p] = "front"
         /\ Advances(p)
         /\ count'[p] = count[p] /\ obj'[p] = obj[p] /\ src'[p] = src[p] /\ objs'[p] = objs[p]
         /\ odr'[p] = odr[p] /\ compiled'[p] = compiled[p] /\ exit'[p] = exit[p]
BY NextUnitIs, NextUnitMoves DEF Checked, At, Goto, Leave, Continue, Types

LEMMA LowerIs ==
  ASSUME Types, NEW p \in Process, Shape(p), Lower(p)
  PROVE  /\ pc[p] = "front"
         /\ pc'[p] = "codegen"
         /\ unit'[p] = unit[p] /\ count'[p] = count[p] /\ obj'[p] = obj[p] /\ src'[p] = src[p]
         /\ objs'[p] = objs[p] /\ exit'[p] = exit[p]
         /\ odr'[p] = IF KeepsRegistry(p) THEN odr[p] \cup Exports[Input(p).base] ELSE odr[p]
         /\ compiled'[p] = compiled[p] \cup {unit[p]}
BY DEF Lower, At, Goto, Leave, Continue, Types

LEMMA EmitIs ==
  ASSUME Types, NEW p \in Process, Shape(p), Emit(p)
  PROVE  /\ pc[p] = "codegen"
         /\ IF job[p].mode = "assembly" THEN Advances(p) /\ count'[p] = count[p]
            ELSE pc'[p] = "assemble" /\ unit'[p] = unit[p] /\ count'[p] = count[p] + 1
         /\ obj'[p] = obj[p] /\ objs'[p] = objs[p] /\ odr'[p] = odr[p] /\ compiled'[p] = compiled[p]
         /\ exit'[p] = exit[p]
         /\ src'[p] = SourcePath(p)
BY NextUnitIs, NextUnitMoves DEF Emit, At, Goto, Leave, Continue, Types

LEMMA AssembleIs ==
  ASSUME Types, NEW p \in Process, Shape(p), Assemble(p)
  PROVE  /\ pc[p] = "assemble"
         /\ pc'[p] = "assembled"
         /\ unit'[p] = unit[p] /\ count'[p] = count[p] /\ obj'[p] = obj[p] /\ src'[p] = src[p]
         /\ objs'[p] = objs[p] /\ odr'[p] = odr[p] /\ compiled'[p] = compiled[p] /\ exit'[p] = exit[p]
BY DEF Assemble, At, Goto, Leave, Continue, Types

LEMMA RecordIs ==
  ASSUME Types, NEW p \in Process, Shape(p), Record(p)
  PROVE  /\ pc[p] = "assembled"
         /\ Advances(p)
         /\ count'[p] = count[p] /\ obj'[p] = obj[p] /\ src'[p] = src[p] /\ odr'[p] = odr[p]
         /\ compiled'[p] = compiled[p] /\ exit'[p] = exit[p]
         /\ objs'[p] = Append(objs[p], obj[p])
BY NextUnitIs, NextUnitMoves DEF Record, At, Goto, Leave, Continue, Types, Added

LEMMA WriteStartupIs ==
  ASSUME Types, NEW p \in Process, Shape(p), WriteStartup(p)
  PROVE  /\ pc[p] = "startup"
         /\ pc'[p] = "startup source"
         /\ unit'[p] = unit[p] /\ count'[p] = count[p] /\ obj'[p] = obj[p] /\ src'[p] = src[p]
         /\ objs'[p] = objs[p] /\ odr'[p] = odr[p] /\ compiled'[p] = compiled[p] /\ exit'[p] = exit[p]
BY DEF WriteStartup, At, Goto, Leave, Continue, Types

LEMMA AssembleStartupIs ==
  ASSUME Types, NEW p \in Process, Shape(p), AssembleStartup(p)
  PROVE  /\ pc[p] = "startup source"
         /\ pc'[p] = "startup object"
         /\ unit'[p] = unit[p] /\ count'[p] = count[p] /\ obj'[p] = obj[p] /\ src'[p] = src[p]
         /\ objs'[p] = objs[p] /\ odr'[p] = odr[p] /\ compiled'[p] = compiled[p] /\ exit'[p] = exit[p]
BY DEF AssembleStartup, At, Goto, Leave, Continue, Types

LEMMA EndStartupIs ==
  ASSUME Types, NEW p \in Process, Shape(p), EndStartup(p)
  PROVE  /\ pc[p] = "startup object"
         /\ pc'[p] = "manifest"
         /\ unit'[p] = unit[p] /\ count'[p] = count[p] /\ obj'[p] = obj[p] /\ src'[p] = src[p]
         /\ odr'[p] = odr[p] /\ compiled'[p] = compiled[p] /\ exit'[p] = exit[p]
         /\ objs'[p] = Append(objs[p], StartupObject(p))
BY DEF EndStartup, At, Goto, Leave, Continue, Types, Added

LEMMA WriteManifestIs ==
  ASSUME Types, NEW p \in Process, Shape(p), WriteManifest(p)
  PROVE  /\ pc[p] = "manifest"
         /\ IF job[p].mode = "link" THEN pc'[p] = "link" /\ exit'[p] = exit[p]
            ELSE pc'[p] = "end" /\ exit'[p] = Success
         /\ unit'[p] = unit[p] /\ count'[p] = count[p] /\ obj'[p] = obj[p] /\ src'[p] = src[p]
         /\ objs'[p] = objs[p] /\ odr'[p] = odr[p] /\ compiled'[p] = compiled[p]
BY DEF WriteManifest, At, Goto, Leave, Continue, Types

LEMMA LinkIs ==
  ASSUME Types, NEW p \in Process, Shape(p), Link(p)
  PROVE  /\ pc[p] = "link"
         /\ pc'[p] = "linked"
         /\ unit'[p] = unit[p] /\ count'[p] = count[p] /\ obj'[p] = obj[p] /\ src'[p] = src[p]
         /\ objs'[p] = objs[p] /\ odr'[p] = odr[p] /\ compiled'[p] = compiled[p] /\ exit'[p] = exit[p]
BY DEF Link, At, Goto, Leave, Continue, Types

LEMMA CleanUpIs ==
  ASSUME Types, NEW p \in Process, Shape(p), CleanUp(p)
  PROVE  /\ pc[p] = "linked"
         /\ pc'[p] = "end"
         /\ unit'[p] = unit[p] /\ count'[p] = count[p] /\ obj'[p] = obj[p] /\ src'[p] = src[p]
         /\ objs'[p] = objs[p] /\ odr'[p] = odr[p] /\ compiled'[p] = compiled[p]
         /\ exit'[p] = Success
BY DEF CleanUp, At, Goto, Leave, Continue, Types

-----------------------------------------------------------------------------
(* The shape of the state, and the registry.                               *)

LEMMA StepCases ==
  ASSUME NEW p \in Process, Types, Shape(p), Step(p)
  PROVE  \/ Fails(p) \/ Begin(p) \/ Reuse(p) \/ Miss(p) \/ Checked(p) \/ Lower(p) \/ Emit(p) \/ Assemble(p)
         \/ Record(p) \/ WriteStartup(p) \/ AssembleStartup(p) \/ EndStartup(p) \/ WriteManifest(p)
         \/ Link(p) \/ CleanUp(p)
BY FailuresEnd DEF Step, CompileUnit, Startup, Finish

LEMMA AppendKeeps ==
  ASSUME NEW S, NEW s \in Seq(S), NEW e \in S
  PROVE  /\ Append(s, e) \in Seq(S) /\ Len(Append(s, e)) = Len(s) + 1 /\ Len(s) \in Nat
         /\ \A k \in 1 .. Len(s) : Append(s, e)[k] = s[k]
         /\ Append(s, e)[Len(s) + 1] = e
OBVIOUS

LEMMA ShapeStep ==
  ASSUME NEW p \in Process, Types, Shape(p), Objs(p), Step(p)
  PROVE  Shape(p)'
<1>0. /\ UNCHANGED job /\ unit[p] \in 1 .. Len(job[p].inputs) /\ Len(job[p].inputs) \in Nat /\ count[p] \in Nat
      /\ objs[p] \in Seq(ObjectName) /\ (exit[p] = Running <=> pc[p] # "end")
      /\ job[p].mode \in {"link", "compile", "assembly", "check"}
      /\ job[p].assembler \in {"gas", "nazm"} /\ job[p].out \in STRING
      /\ count[p] + 1 \in Nat
  BY OthersUnmoved, CommandLineIs DEF Shape
<1> USE DEF Phases, Assembling, StartupPhases
<1>d. pc[p] \in {"unit", "front", "codegen", "assemble", "assembled"} /\ Input(p).direct => HasDirect(p)
  BY <1>0, CommandLineIs DEF Input, HasDirect
<1>a. ASSUME Advances(p), count'[p] \in Nat, objs'[p] \in Seq(ObjectName), exit'[p] = exit[p],
             pc[p] \in {"unit", "front", "codegen", "assembled"}
      PROVE  Shape(p)'
  <2>1. /\ pc'[p] \in {"unit", "startup", "manifest"} /\ (pc'[p] = "startup" => job[p].mode = "link")
        /\ unit'[p] \in 1 .. Len(job'[p].inputs) /\ (HasDirect(p) => Objects(p))
    BY <1>0, <1>a, AdvancesIs DEF Advances, Shape
  <2> QED BY <1>0, <1>a, <2>1 DEF Shape, HasDirect, Objects
<1>1. CASE Fails(p)
  BY <1>0, <1>1 DEF Fails, Shape
<1>2. CASE Begin(p)
  <2>1. CASE pc'[p] = "unit" /\ exit'[p] = exit[p] /\ (HasDirect(p) => Objects(p))
    BY <1>0, <1>2, <2>1, BeginIs DEF Shape, HasDirect, Objects
  <2> QED BY <1>1, <1>2, <2>1, BeginIs
<1>3. CASE Reuse(p)
  <2>1. Objects(p)
    BY <1>3 DEF Reuse
  <2>2. /\ ObjectOf(p, unit[p], ObjectPath(p), IF UsesCounter(p) THEN count[p] + 1 ELSE count[p])
        /\ (IF UsesCounter(p) THEN count[p] + 1 ELSE count[p]) \in Nat
    BY <1>0, <2>1, ObjectPathIs
  <2>3. ObjectPath(p) \in ObjectName
    BY <1>0, <2>2, ObjectNames
  <2>4. Append(objs[p], ObjectPath(p)) \in Seq(ObjectName)
    BY <1>0, <2>3, AppendKeeps
  <2> QED BY <1>3, <1>a, <2>2, <2>4, ReuseIs
<1>4. CASE Miss(p)
  <2>1. /\ pc[p] = "unit" /\ pc'[p] = (IF Input(p).direct THEN "assemble" ELSE "front")
        /\ unit'[p] = unit[p] /\ objs'[p] = objs[p] /\ exit'[p] = exit[p] /\ count'[p] \in Nat
    BY <1>0, <1>4, MissIs
  <2>2. HasDirect(p) => Objects(p)
    BY <2>1 DEF Shape
  <2>3. Input(p)' = Input(p) /\ HasDirect(p)' = HasDirect(p) /\ Objects(p)' = Objects(p)
    BY <1>0, <2>1 DEF Input, HasDirect, Objects
  <2> QED BY <1>0, <1>d, <2>1, <2>2, <2>3 DEF Shape
<1>5. CASE Checked(p)
  BY <1>0, <1>5, <1>a, CheckedIs
<1>6. CASE Lower(p)
  <2>1. /\ pc[p] = "front" /\ pc'[p] = "codegen" /\ job[p].mode # "check"
        /\ unit'[p] = unit[p] /\ objs'[p] = objs[p] /\ exit'[p] = exit[p] /\ count'[p] = count[p]
    BY <1>6, LowerIs DEF Lower
  <2> QED BY <1>0, <2>1 DEF Shape, Input, HasDirect, Objects
<1>7. CASE Emit(p)
  <2>1. CASE job[p].mode = "assembly"
    BY <1>0, <1>7, <1>a, <2>1, EmitIs
  <2>2. CASE job[p].mode # "assembly"
    <3>1. /\ pc[p] = "codegen" /\ pc'[p] = "assemble"
          /\ unit'[p] = unit[p] /\ objs'[p] = objs[p] /\ exit'[p] = exit[p] /\ count'[p] = count[p] + 1
      BY <1>7, <2>2, EmitIs
    <3>2. Objects(p)
      BY <1>0, <2>2, <3>1 DEF Shape, Objects
    <3> QED BY <1>0, <3>1, <3>2 DEF Shape, Input, HasDirect, Objects
  <2> QED BY <2>1, <2>2
<1>8. CASE Assemble(p)
  BY <1>0, <1>8, AssembleIs DEF Shape, Input, HasDirect, Objects
<1>9. CASE Record(p)
  <2>1. pc[p] = "assembled" /\ Objects(p)
    BY <1>9, RecordIs DEF Shape
  <2>2. obj[p] \in ObjectName
    BY <1>0, <2>1, ObjectNames DEF Objs, Present, AfterMiss
  <2>3. Append(objs[p], obj[p]) \in Seq(ObjectName)
    BY <1>0, <2>2, AppendKeeps
  <2> QED BY <1>0, <1>9, <1>a, <2>3, RecordIs
<1>10. CASE WriteStartup(p)
  BY <1>0, <1>10, WriteStartupIs DEF Shape, Input, HasDirect, Objects
<1>11. CASE AssembleStartup(p)
  BY <1>0, <1>11, AssembleStartupIs DEF Shape, Input, HasDirect, Objects
<1>12. CASE EndStartup(p)
  <2>1. StartupObject(p) \in ObjectName
    BY <1>0, ObjectNameHas DEF StartupObject
  <2>2. Append(objs[p], StartupObject(p)) \in Seq(ObjectName)
    BY <1>0, <2>1, AppendKeeps
  <2> QED BY <1>0, <1>12, <2>2, EndStartupIs DEF Shape, HasDirect, Objects
<1>13. CASE WriteManifest(p)
  <2>1. /\ pc[p] = "manifest" /\ unit'[p] = unit[p] /\ objs'[p] = objs[p] /\ count'[p] = count[p]
        /\ IF job[p].mode = "link" THEN pc'[p] = "link" /\ exit'[p] = exit[p]
           ELSE pc'[p] = "end" /\ exit'[p] = Success
    BY <1>13, WriteManifestIs
  <2>2. CASE job[p].mode = "link"
    BY <1>0, <2>1, <2>2 DEF Shape, HasDirect, Objects
  <2>3. CASE job[p].mode # "link"
    <3>1. pc'[p] = "end" /\ exit'[p] # Running
      BY <2>1, <2>3 DEF Running, Success
    <3> QED BY <1>0, <2>1, <3>1 DEF Shape
  <2> QED BY <2>2, <2>3
<1>14. CASE Link(p)
  BY <1>0, <1>14, LinkIs DEF Shape, Input, HasDirect, Objects
<1>15. CASE CleanUp(p)
  <2>1. pc'[p] = "end" /\ exit'[p] = Success /\ unit'[p] = unit[p] /\ objs'[p] = objs[p] /\ count'[p] = count[p]
    BY <1>15, CleanUpIs
  <2>2. pc'[p] = "end" /\ exit'[p] # Running
    BY <2>1 DEF Running, Success
  <2> QED BY <1>0, <2>1, <2>2 DEF Shape
<1> QED BY <1>1, <1>2, <1>3, <1>4, <1>5, <1>6, <1>7, <1>8, <1>9, <1>10, <1>11, <1>12, <1>13, <1>14, <1>15, StepCases

LEMMA RegistryStep ==
  ASSUME NEW p \in Process, Types, Shape(p), Registry(p), Step(p)
  PROVE  Registry(p)'
<1>0. UNCHANGED job /\ unit[p] \in 1 .. Len(job[p].inputs) /\ Len(job[p].inputs) \in Nat
  BY OthersUnmoved, CommandLineIs DEF Shape
<1>1. CASE Lower(p)
  <2>1. /\ unit'[p] = unit[p] /\ compiled'[p] = compiled[p] \cup {unit[p]}
        /\ odr'[p] = IF KeepsRegistry(p) THEN odr[p] \cup Exports[Input(p).base] ELSE odr[p]
        /\ ~Registered(p)
    BY <1>1, LowerIs DEF Lower
  <2>2. compiled'[p] \subseteq 1 .. unit'[p]
    BY <1>0, <2>1 DEF Registry
  <2>3. ASSUME KeepsRegistry(p)
        PROVE  /\ \A k \in compiled'[p] : Exports[job'[p].inputs[k].base] \subseteq odr'[p]
               /\ \A j, k \in compiled'[p] : j # k => ~SameName(p, j, k)
    <3>1. Exports[job[p].inputs[unit[p]].base] \cap odr[p] = {}
      BY <2>1, <2>3 DEF Registered, Input
    <3>2. \A k \in compiled[p] : Exports[job[p].inputs[k].base] \subseteq odr[p]
      BY <2>3 DEF Registry
    <3>3. \A k \in compiled'[p] : Exports[job'[p].inputs[k].base] \subseteq odr'[p]
      BY <1>0, <2>1, <2>3, <3>2 DEF Input
    <3>4. \A k \in compiled[p] : ~SameName(p, unit[p], k) /\ ~SameName(p, k, unit[p])
      BY <3>1, <3>2 DEF SameName
    <3> QED BY <2>1, <2>3, <3>3, <3>4 DEF Registry
  <2> QED BY <1>0, <2>2, <2>3 DEF Registry, KeepsRegistry, Single, SameName
<1>2. CASE ~Lower(p)
  <2> DEFINE Same == odr'[p] = odr[p] /\ compiled'[p] = compiled[p] /\ (unit'[p] = unit[p] \/ unit'[p] = unit[p] + 1)
  <2>a1. Begin(p) => Same
    BY BeginIs DEF Advances, Fails
  <2>a2. Reuse(p) => Same
    BY ReuseIs DEF Advances, Fails
  <2>a3. Miss(p) => Same
    BY MissIs DEF Advances, Fails
  <2>a4. Checked(p) => Same
    BY CheckedIs DEF Advances, Fails
  <2>a5. Emit(p) => Same
    BY EmitIs DEF Advances, Fails
  <2>a6. Assemble(p) => Same
    BY AssembleIs DEF Advances, Fails
  <2>a7. Record(p) => Same
    BY RecordIs DEF Advances, Fails
  <2>a8. WriteStartup(p) => Same
    BY WriteStartupIs DEF Advances, Fails
  <2>a9. AssembleStartup(p) => Same
    BY AssembleStartupIs DEF Advances, Fails
  <2>a10. EndStartup(p) => Same
    BY EndStartupIs DEF Advances, Fails
  <2>a11. WriteManifest(p) => Same
    BY WriteManifestIs DEF Advances, Fails
  <2>a12. Link(p) => Same
    BY LinkIs DEF Advances, Fails
  <2>a13. CleanUp(p) => Same
    BY CleanUpIs DEF Advances, Fails
  <2>f. Fails(p) => Same
    BY DEF Fails
  <2>1. Same
    <3> HIDE DEF Same
    <3> QED BY <1>2, StepCases, <2>f, <2>a1, <2>a2, <2>a3, <2>a4, <2>a5, <2>a6, <2>a7, <2>a8, <2>a9, <2>a10, <2>a11, <2>a12, <2>a13
  <2>2. compiled'[p] \subseteq 1 .. unit'[p]
    BY <1>0, <2>1 DEF Registry
  <2> QED BY <1>0, <2>1, <2>2 DEF Registry, KeepsRegistry, Single, SameName
<1> QED BY <1>1, <1>2

-----------------------------------------------------------------------------
(* The objects: how many, under which names.                               *)

LEMMA ObjsStep ==
  ASSUME NEW p \in Process, Types, Shape(p), Objs(p), Step(p)
  PROVE  Objs(p)'
<1> DEFINE N == Len(job[p].inputs)
<1>0. /\ UNCHANGED job /\ Shape(p)' /\ unit[p] \in 1 .. N /\ N \in Nat /\ count[p] \in Nat
      /\ objs[p] \in Seq(ObjectName) /\ Input(p) = job[p].inputs[unit[p]]
      /\ (pc[p] \in UnitPhases => Done(p) = unit[p] - 1) /\ (pc[p] \notin UnitPhases => Done(p) = N)
      /\ job[p].mode \in {"link", "compile", "assembly", "check"}
  BY OthersUnmoved, CommandLineIs, ShapeStep DEF Shape, Done, Input
<1>s. /\ Objects(p)' = Objects(p)
      /\ \A k, n, c : ObjectOf(p, k, n, c)' <=> ObjectOf(p, k, n, c)
      /\ StartupObject(p)' = StartupObject(p)
  BY <1>0 DEF Objects, ObjectOf, Direct, Single, DirectUpTo, StartupObject
<1>m. \A n : \A k \in 1 .. N, c \in Nat, d \in Nat : c <= d /\ ObjectOf(p, k, n, c) => ObjectOf(p, k, n, d)
  BY <1>0, ObjectNames
<1> USE DEF AfterMiss, Assembling, LinkPhases, UnitPhases
\* A step that leaves the objects, and Done, as they are.
<1>a. ASSUME pc[p] # "end", objs'[p] = objs[p], count'[p] \in Nat, count[p] <= count'[p], Done(p)' = Done(p),
             (pc[p] \in LinkPhases) <=> (pc'[p] \in LinkPhases)
      PROVE  Counted(p)' /\ UnitObjects(p)' /\ Distinct(p)' /\ StartupLast(p)'
  <2>1. 1 .. Done(p) \subseteq 1 .. N
    BY <1>0
  <2>2. Counted(p)'
    BY <1>0, <1>s, <1>a DEF Objs, Counted, Count
  <2>3. UnitObjects(p)'
    BY <1>0, <1>s, <1>a, <1>m, <2>1 DEF Objs, UnitObjects
  <2>4. Distinct(p)'
    BY <1>0, <1>a DEF Objs, Distinct
  <2>5. StartupLast(p)'
    BY <1>0, <1>s, <1>a DEF Objs, StartupLast
  <2> QED BY <2>2, <2>3, <2>4, <2>5
\* A step that adds the object n of the unit and finishes the unit.
<1>b. ASSUME pc[p] \in {"unit", "assembled"}, NEW n \in ObjectName, NEW c \in Nat, count[p] <= c, Objects(p),
             ObjectOf(p, unit[p], n, c), objs'[p] = Append(objs[p], n), count'[p] = c, Advances(p),
             job[p].mode = "link" => \A k \in 1 .. Done(p) : objs[p][k] # n
      PROVE  Objs(p)'
  <2>1. Done(p)' = unit[p] /\ Done(p) = unit[p] - 1 /\ Len(objs[p]) = Done(p)
    BY <1>0, <1>b, AdvancesIs DEF Objs, Counted, Count
  <2>2. /\ Len(objs'[p]) = unit[p] /\ objs'[p][unit[p]] = n /\ \A k \in 1 .. Done(p) : objs'[p][k] = objs[p][k]
    BY <1>0, <1>b, <2>1, AppendKeeps
  <2>3. \A k \in 1 .. unit[p] : k = unit[p] \/ k \in 1 .. Done(p)
    BY <1>0, <2>1
  <2>4. \A k \in 1 .. Done(p) : ObjectOf(p, k, objs[p][k], count[p]) /\ k \in 1 .. N
    BY <1>0, <1>b, <2>1 DEF Objs, UnitObjects
  <2>5. \A k \in 1 .. unit[p] : ObjectOf(p, k, objs'[p][k], c)
    BY <1>0, <1>b, <1>m, <2>2, <2>3, <2>4
  <2>6. job[p].mode = "link" => \A j, k \in 1 .. Done(p) : j # k => objs[p][j] # objs[p][k]
    BY <1>b DEF Objs, Distinct
  <2>7. job[p].mode = "link" => \A j, k \in 1 .. unit[p] : j # k => objs'[p][j] # objs'[p][k]
    BY <1>b, <2>2, <2>3, <2>6
  <2>8. pc'[p] \in {"unit", "startup", "manifest"} /\ (pc'[p] = "manifest" => job[p].mode # "link")
    BY <1>b DEF Advances
  <2>9. Counted(p)' /\ StartupLast(p)' /\ Present(p)'
    BY <1>0, <1>s, <1>b, <2>1, <2>2, <2>8 DEF Counted, Count, StartupLast, Present
  <2>10. UnitObjects(p)' /\ Distinct(p)'
    BY <1>0, <1>s, <1>b, <2>1, <2>5, <2>7 DEF UnitObjects, Distinct
  <2> QED BY <2>9, <2>10 DEF Objs
<1>1. CASE Fails(p)
  BY <1>1 DEF Fails, Objs, Counted, UnitObjects, Distinct, StartupLast, Present, AfterMiss
<1>2. CASE Begin(p)
  <2>1. CASE pc[p] = "begin" /\ pc'[p] = "unit"
    <3>1. Done(p)' = Done(p) /\ objs'[p] = objs[p] /\ count'[p] = count[p] /\ count[p] <= count'[p]
      BY <1>0, <1>2, <2>1, BeginIs DEF Done
    <3> QED BY <1>0, <1>s, <1>a, <2>1, <3>1 DEF Objs, Present
  <2> QED BY <1>1, <1>2, <2>1, BeginIs
<1>3. CASE Reuse(p)
  <2> DEFINE c == IF UsesCounter(p) THEN count[p] + 1 ELSE count[p]
  <2>1. Objects(p) /\ pc[p] = "unit" /\ objs'[p] = Append(objs[p], ObjectPath(p)) /\ count'[p] = c /\ Advances(p)
    BY <1>3, ReuseIs DEF Reuse
  <2>2. ObjectOf(p, unit[p], ObjectPath(p), c)
    BY <2>1, ObjectPathIs
  <2>5. c \in Nat /\ count[p] <= c
    BY <1>0
  <2>3. ObjectPath(p) \in ObjectName
    BY <1>0, <2>2, <2>5, ObjectNames
  <2>4. job[p].mode = "link" => \A k \in 1 .. Done(p) : objs[p][k] # ObjectPath(p)
    BY <1>0, <2>1, ObjectPathIs DEF Objs, UnitObjects
  <2> HIDE DEF c
  <2> QED BY <1>b, <2>1, <2>2, <2>3, <2>4, <2>5
<1>4. CASE Miss(p)
  <2> DEFINE c == IF UsesCounter(p) THEN count[p] + 1 ELSE count[p]
  <2>1. /\ pc[p] = "unit" /\ pc'[p] = (IF Input(p).direct THEN "assemble" ELSE "front") /\ unit'[p] = unit[p]
        /\ objs'[p] = objs[p] /\ count'[p] = c /\ c \in Nat /\ count[p] <= c /\ obj'[p] = ObjectPath(p)
    BY <1>0, <1>4, MissIs
  <2>2. Done(p)' = Done(p) /\ Done(p) = unit[p] - 1 /\ Input(p)' = Input(p)
    BY <1>0, <2>1 DEF Done, Input
  <2>3. Objects(p) => ObjectOf(p, unit[p], obj'[p], c)
    BY <2>1, ObjectPathIs
  <2>4. job[p].mode = "link" => \A k \in 1 .. Done(p) : objs[p][k] # obj'[p]
    BY <1>0, <2>1, <2>2, ObjectPathIs DEF Objs, UnitObjects, Objects
  <2>5. ~Objects(p) => obj'[p] = <<"no object">>
    BY <2>1, ObjectPathIs
  <2>6. pc'[p] \in Assembling => Input(p).direct
    BY <2>1
  <2> HIDE DEF c
  <2> QED BY <1>0, <1>s, <1>a, <2>1, <2>2, <2>3, <2>4, <2>5, <2>6 DEF Objs, Present
<1>5. CASE Checked(p)
  <2>1. pc[p] = "front" /\ job[p].mode = "check" /\ Advances(p) /\ objs'[p] = objs[p]
    BY <1>5, CheckedIs DEF Checked
  <2> QED BY <1>0, <1>s, <2>1 DEF Objs, Counted, UnitObjects, Distinct, StartupLast, Present, Count, Objects, Advances
<1>6. CASE Lower(p)
  <2>1. /\ pc[p] = "front" /\ pc'[p] = "codegen" /\ unit'[p] = unit[p] /\ count'[p] = count[p]
        /\ objs'[p] = objs[p] /\ obj'[p] = obj[p]
    BY <1>6, LowerIs
  <2>2. Done(p)' = Done(p) /\ count[p] <= count[p]
    BY <1>0, <2>1 DEF Done
  <2> QED BY <1>0, <1>s, <1>a, <2>1, <2>2 DEF Objs, Present
<1>7. CASE Emit(p)
  <2>1. pc[p] = "codegen" /\ objs'[p] = objs[p] /\ obj'[p] = obj[p] /\ src'[p] = SourcePath(p)
    BY <1>7, EmitIs
  <2>2. CASE job[p].mode = "assembly"
    BY <1>0, <1>s, <1>7, <2>1, <2>2, EmitIs DEF Objs, Counted, UnitObjects, Distinct, StartupLast, Present, Count, Objects, Advances
  <2>3. CASE job[p].mode # "assembly"
    <3>1. pc'[p] = "assemble" /\ unit'[p] = unit[p] /\ count'[p] = count[p] + 1 /\ count[p] <= count'[p]
      BY <1>0, <1>7, <2>3, EmitIs
    <3>2. Done(p)' = Done(p) /\ 1 .. Done(p) \subseteq 1 .. N
      BY <1>0, <2>1, <3>1 DEF Done
    <3>3. src'[p] = <<job[p].assembler, obj[p], p, count[p] + 1>>
      BY <2>1, <2>3 DEF SourcePath, TempPath
    <3>4. src'[p][1] \in {"gas", "nazm"} /\ src'[p][3] = p
      BY <3>3, CommandLineIs
    <3>5. Objects(p) => ObjectOf(p, unit[p], obj'[p], count'[p])
      BY <1>0, <1>m, <2>1, <3>1 DEF Objs, Present
    <3>6. Counted(p)' /\ UnitObjects(p)' /\ Distinct(p)' /\ StartupLast(p)'
      BY <1>0, <1>a, <2>1, <3>1, <3>2
    <3>7. Present(p)'
      BY <1>0, <1>s, <2>1, <3>1, <3>2, <3>4, <3>5 DEF Objs, Present
    <3> QED BY <3>6, <3>7 DEF Objs
  <2> QED BY <2>2, <2>3
<1>8. CASE Assemble(p)
  <2>1. /\ pc[p] = "assemble" /\ pc'[p] = "assembled" /\ unit'[p] = unit[p] /\ count'[p] = count[p]
        /\ objs'[p] = objs[p] /\ obj'[p] = obj[p] /\ src'[p] = src[p]
    BY <1>8, AssembleIs
  <2>2. Done(p)' = Done(p) /\ count[p] <= count[p] /\ Input(p)' = Input(p)
    BY <1>0, <2>1 DEF Done, Input
  <2> QED BY <1>0, <1>s, <1>a, <2>1, <2>2 DEF Objs, Present
<1>9. CASE Record(p)
  <2>1. pc[p] = "assembled" /\ Objects(p) /\ objs'[p] = Append(objs[p], obj[p]) /\ count'[p] = count[p] /\ Advances(p)
        /\ count[p] <= count[p]
    BY <1>0, <1>9, RecordIs DEF Shape
  <2>2. ObjectOf(p, unit[p], obj[p], count[p])
    BY <2>1 DEF Objs, Present
  <2>3. obj[p] \in ObjectName
    BY <1>0, <2>2, ObjectNames
  <2>4. job[p].mode = "link" => \A k \in 1 .. Done(p) : objs[p][k] # obj[p]
    BY <2>1 DEF Objs, Present
  <2> QED BY <1>0, <1>b, <2>1, <2>2, <2>3, <2>4
<1>10. CASE WriteStartup(p) \/ AssembleStartup(p) \/ Link(p)
  <2>1. /\ unit'[p] = unit[p] /\ count'[p] = count[p] /\ objs'[p] = objs[p] /\ pc[p] # "end" /\ pc'[p] # "end"
        /\ pc[p] \notin UnitPhases /\ pc'[p] \notin UnitPhases /\ ((pc[p] \in LinkPhases) <=> (pc'[p] \in LinkPhases))
    BY <1>10, WriteStartupIs, AssembleStartupIs, LinkIs
  <2>2. Done(p)' = Done(p) /\ count[p] <= count[p]
    BY <1>0, <2>1 DEF Done
  <2> QED BY <1>0, <1>s, <1>a, <2>1, <2>2 DEF Objs, Present
<1>11. CASE EndStartup(p)
  <2>1. /\ pc[p] = "startup object" /\ pc'[p] = "manifest" /\ count'[p] = count[p]
        /\ objs'[p] = Append(objs[p], StartupObject(p)) /\ job[p].mode = "link" /\ Objects(p)
    BY <1>11, EndStartupIs DEF Shape, StartupPhases, Objects
  <2>2. Done(p) = N /\ Done(p)' = N /\ Len(objs[p]) = N
    BY <1>0, <2>1 DEF Objs, Counted, Count, Done
  <2>3. StartupObject(p) \in ObjectName
    BY CommandLineIs, ObjectNameHas DEF StartupObject
  <2>4. /\ Len(objs'[p]) = N + 1 /\ objs'[p][N + 1] = StartupObject(p) /\ \A k \in 1 .. N : objs'[p][k] = objs[p][k]
    <3>1. /\ Len(Append(objs[p], StartupObject(p))) = Len(objs[p]) + 1
          /\ Append(objs[p], StartupObject(p))[Len(objs[p]) + 1] = StartupObject(p)
          /\ \A k \in 1 .. Len(objs[p]) : Append(objs[p], StartupObject(p))[k] = objs[p][k]
      BY <1>0, <2>3, AppendKeeps
    <3> QED BY <2>1, <2>2, <3>1
  <2>5. Counted(p)' /\ StartupLast(p)' /\ Present(p)'
    BY <1>0, <1>s, <2>1, <2>2, <2>4 DEF Counted, Count, StartupLast, Present
  <2>6. UnitObjects(p)' /\ Distinct(p)'
    BY <1>0, <1>s, <2>1, <2>2, <2>4 DEF Objs, UnitObjects, Distinct
  <2> QED BY <2>5, <2>6 DEF Objs
<1>12. CASE WriteManifest(p)
  <2>1. CASE job[p].mode = "link"
    <3>1. pc[p] = "manifest" /\ pc'[p] = "link" /\ unit'[p] = unit[p] /\ count'[p] = count[p] /\ objs'[p] = objs[p]
      BY <1>12, <2>1, WriteManifestIs
    <3>2. Done(p)' = Done(p) /\ count[p] <= count[p]
      BY <1>0, <3>1 DEF Done
    <3> QED BY <1>0, <1>s, <1>a, <3>1, <3>2 DEF Objs, Present
  <2>2. CASE job[p].mode # "link"
    BY <1>12, <2>2, WriteManifestIs DEF Objs, Counted, UnitObjects, Distinct, StartupLast, Present
  <2> QED BY <2>1, <2>2
<1>13. CASE CleanUp(p)
  BY <1>13, CleanUpIs DEF Objs, Counted, UnitObjects, Distinct, StartupLast, Present
<1> QED BY <1>1, <1>2, <1>3, <1>4, <1>5, <1>6, <1>7, <1>8, <1>9, <1>10, <1>11, <1>12, <1>13, StepCases

-----------------------------------------------------------------------------
(* The files a step touches.                                               *)

\* The files of W are written with c, those of D deleted, and no others change.
Changed(W, D, c) ==
    /\ DOMAIN disk' = (DOMAIN disk \cup W) \ D
    /\ \A n \in W \ D : disk'[n] = c
    /\ \A n \in DOMAIN disk \ (W \cup D) : disk'[n] = disk[n]

LEMMA WroteIs ==
  ASSUME NEW n, NEW c, disk' = Wrote(n, c)
  PROVE  Changed({n}, {}, c)
BY DEF Wrote, Changed

LEMMA WithoutIs ==
  ASSUME NEW D, NEW c, disk' = Without(disk, D)
  PROVE  Changed({}, D, c)
BY DEF Without, Restrict, Changed

LEMMA SameIs ==
  ASSUME NEW c, disk' = disk
  PROVE  Changed({}, {}, c)
BY DEF Changed

\* Only files named after p change, and those it writes are marked as its own.
Touched(p) ==
    /\ \A n \in DOMAIN disk' : n \notin DOMAIN disk \/ disk'[n] # disk[n] => Named(p, n) /\ disk'[n].by = p
    /\ \A n \in DOMAIN disk : n \notin DOMAIN disk' => Named(p, n)

LEMMA ChangedTouches ==
  ASSUME NEW p, NEW W, NEW D, NEW c, Changed(W, D, c), c.by = p,
         \A n \in W : Named(p, n), \A n \in D : Named(p, n) \/ n \notin DOMAIN disk
  PROVE  Touched(p)
<1>1. ASSUME NEW n \in DOMAIN disk', n \notin DOMAIN disk \/ disk'[n] # disk[n]
      PROVE  n \in W \ D
  BY <1>1 DEF Changed
<1> QED BY <1>1 DEF Changed, Touched

\* What a unit writes as it is emitted.
Sources(p) == {SourcePath(p)} \cup (IF job[p].assembler = "gas" THEN {} ELSE {MapOf(SourcePath(p))})
NoObject == <<"no object">>

LEMMA SourcePathIs ==
  ASSUME Types, NEW p \in Process, Shape(p), pc[p] = "codegen"
  PROVE  /\ job[p].mode = "assembly" => SourcePath(p) = SourceOf(p, unit[p])
         /\ job[p].mode # "assembly" => SourcePath(p)[1] \in {"gas", "nazm"}
<1>1. job[p].assembler \in {"gas", "nazm"} /\ Input(p) = job[p].inputs[unit[p]]
  BY CommandLineIs DEF Input
<1>2. job[p].mode # "assembly" => SourcePath(p) = <<job[p].assembler, obj[p], p, count[p] + 1>>
  BY DEF SourcePath, TempPath
<1> QED BY <1>1, <1>2 DEF SourcePath, SourceOf

LEMMA NamesOf ==
  ASSUME Types, Makers, NEW p \in Process, Shape(p), Objs(p)
  PROVE  /\ Objects(p) => Plain(p, ObjectPath(p))
         /\ pc[p] \in AfterMiss => Plain(p, obj[p]) \/ obj[p] \notin DOMAIN disk
         /\ pc[p] = "codegen" => Plain(p, SourcePath(p))
         /\ pc[p] \in Assembling /\ ~Input(p).direct => Plain(p, src[p])
         /\ job[p].mode = "link" =>
              Plain(p, StartupSource(p)) /\ Plain(p, StartupObject(p)) /\ Plain(p, <<"out", job[p].out>>)
         /\ pc[p] # "end" => \A n \in ToSet(objs[p]) : Plain(p, n)
<1>0. /\ unit[p] \in 1 .. Len(job[p].inputs) /\ count[p] \in Nat /\ Len(job[p].inputs) \in Nat
      /\ job[p].mode \in {"link", "compile", "assembly", "check"} /\ job[p].assembler \in {"gas", "nazm"}
      /\ DOMAIN job[p].inputs = 1 .. Len(job[p].inputs)
  BY CommandLineIs DEF Shape
<1>1. Objects(p) => Plain(p, ObjectPath(p))
  <2> DEFINE c == IF UsesCounter(p) THEN count[p] + 1 ELSE count[p]
  <2>1. Objects(p) => ObjectOf(p, unit[p], ObjectPath(p), c)
    BY ObjectPathIs
  <2>2. c \in Nat
    BY <1>0
  <2> HIDE DEF c
  <2> QED BY <1>0, <2>1, <2>2, ObjectNames
<1>2. pc[p] \in AfterMiss => Plain(p, obj[p]) \/ obj[p] \notin DOMAIN disk
  <2>1. CASE Objects(p)
    BY <1>0, <2>1, ObjectNames DEF Objs, Present
  <2>2. CASE ~Objects(p)
    <3>1. ASSUME NoObject \in DOMAIN disk PROVE FALSE
      <4>1. Named(disk[NoObject].by, NoObject)
        BY <3>1 DEF Makers
      <4>2. NoObject[1] = "no object"
        BY DEF NoObject
      <4> QED BY <4>1, <4>2 DEF Named, Plain
    <3> QED BY <2>2, <3>1 DEF Objs, Present, NoObject
  <2> QED BY <2>1, <2>2
<1>3. pc[p] = "codegen" => Plain(p, SourcePath(p))
  <2>1. CASE pc[p] = "codegen" /\ job[p].mode = "assembly"
    <3>1. SourcePath(p) \in Requested(p) /\ SourcePath(p) = SourceOf(p, unit[p])
      BY <1>0, <2>1, RequestedSources, SourcePathIs
    <3>2. SourceOf(p, unit[p])[1] \in {"out", SourceKind(p)}
      BY DEF SourceOf
    <3> QED BY <3>1, <3>2 DEF SourceKind, Plain
  <2>3. CASE job[p].mode # "assembly"
    <3>1. SourcePath(p) = <<job[p].assembler, obj[p], p, count[p] + 1>>
      BY <2>3 DEF SourcePath, TempPath
    <3>2. SourcePath(p)[1] = job[p].assembler /\ SourcePath(p)[3] = p
      BY <3>1
    <3> QED BY <1>0, <3>2 DEF Plain
  <2> QED BY <2>1, <2>3
<1>4. pc[p] \in Assembling /\ ~Input(p).direct => Plain(p, src[p])
  BY DEF Objs, Present, Plain
<1>5. job[p].mode = "link" =>
        Plain(p, StartupSource(p)) /\ Plain(p, StartupObject(p)) /\ Plain(p, <<"out", job[p].out>>)
  BY RequestedHas DEF Plain, StartupSource, StartupObject
<1>6. ASSUME pc[p] # "end", NEW n \in ToSet(objs[p]) PROVE Plain(p, n)
  <2>1. PICK k \in 1 .. Len(objs[p]) : n = objs[p][k]
    BY DEF ToSet, Shape
  <2>2. Objects(p) /\ (k \in 1 .. Done(p) \/ (k = Done(p) + 1 /\ job[p].mode = "link" /\ pc[p] \in LinkPhases))
    BY <1>0, <1>6 DEF Objs, Counted, Count, Done
  <2>3. CASE k \in 1 .. Done(p)
    <3>1. k \in 1 .. Len(job[p].inputs)
      BY <1>0, <2>3 DEF Done
    <3> QED BY <1>0, <1>6, <2>1, <2>2, <2>3, <3>1, ObjectNames DEF Objs, UnitObjects
  <2>4. CASE k = Done(p) + 1 /\ job[p].mode = "link" /\ pc[p] \in LinkPhases
    <3>1. n = StartupObject(p)
      BY <2>1, <2>4 DEF Objs, StartupLast, Done, LinkPhases, UnitPhases
    <3> QED BY <1>5, <2>4, <3>1
  <2> QED BY <2>2, <2>3, <2>4
<1> QED BY <1>1, <1>2, <1>3, <1>4, <1>5, <1>6

\* What the steps that succeed change.
LEMMA BeginDisk ==
  ASSUME NEW p \in Process, Begin(p) \/ Checked(p) \/ Lower(p) \/ WriteManifest(p)
  PROVE  disk' = disk
BY DEF Begin, Checked, Lower, WriteManifest

LEMMA ReuseDisk ==
  ASSUME NEW p \in Process, Reuse(p)
  PROVE  Changed({ObjectPath(p)}, {}, Made(p, UnitPart(p)))
BY WroteIs DEF Reuse

LEMMA MissDisk ==
  ASSUME NEW p \in Process, Miss(p)
  PROVE  Changed({}, IF Input(p).direct THEN {ObjectPath(p)} ELSE {}, Made(p, UnitPart(p)))
BY WithoutIs, SameIs DEF Miss

LEMMA GeneratedIs ==
  ASSUME NEW p \in Process
  PROVE  /\ DOMAIN Generated(p) = DOMAIN disk \cup Sources(p)
         /\ \A n \in Sources(p) : Generated(p)[n] = Made(p, UnitPart(p))
         /\ \A n \in DOMAIN disk \ Sources(p) : Generated(p)[n] = disk[n]
BY DEF Generated, Sources, Wrote

LEMMA EmitDisk ==
  ASSUME NEW p \in Process, Emit(p)
  PROVE  Changed(Sources(p), IF job[p].assembler = "nazm" THEN {obj[p]} ELSE {}, Made(p, UnitPart(p)))
<1>1. disk' = IF job[p].assembler = "nazm" THEN Without(Generated(p), {obj[p]}) ELSE Generated(p)
  BY DEF Emit
<1> QED BY <1>1, GeneratedIs DEF Changed, Without, Restrict

LEMMA EmitUnrecordedDisk ==
  ASSUME NEW p \in Process, EmitUnrecorded(p)
  PROVE  Changed(Sources(p), {}, Made(p, UnitPart(p)))
<1>1. disk' = Generated(p)
  BY DEF EmitUnrecorded
<1> QED BY <1>1, GeneratedIs DEF Changed

LEMMA AssembleDisk ==
  ASSUME NEW p \in Process, Assemble(p)
  PROVE  Changed({obj[p]}, {}, Made(p, IF Input(p).direct THEN UnitPart(p) ELSE disk[src[p]].of))
BY WroteIs DEF Assemble

LEMMA RecordDisk ==
  ASSUME NEW p \in Process, Record(p)
  PROVE  Changed({}, Spent(p), Made(p, UnitPart(p)))
BY WithoutIs DEF Record

LEMMA WriteStartupDisk ==
  ASSUME NEW p \in Process, WriteStartup(p)
  PROVE  Changed({StartupSource(p)}, {StartupObject(p)}, Made(p, StartupPart(p)))
<1>1. StartupSource(p) # StartupObject(p)
  BY DEF StartupSource, StartupObject
<1>2. disk' = [f \in (DOMAIN disk \ StartupFiles(p)) \cup {StartupSource(p)} |->
                 IF f = StartupSource(p) THEN Made(p, StartupPart(p)) ELSE disk[f]]
  BY DEF WriteStartup
<1> QED BY <1>1, <1>2 DEF StartupFiles, Changed

LEMMA AssembleStartupDisk ==
  ASSUME NEW p \in Process, AssembleStartup(p)
  PROVE  Changed({StartupObject(p)}, {}, Made(p, disk[StartupSource(p)].of))
BY WroteIs DEF AssembleStartup

LEMMA EndStartupDisk ==
  ASSUME NEW p \in Process, EndStartup(p)
  PROVE  Changed({}, SpentStartup(p), Made(p, StartupPart(p)))
BY WithoutIs DEF EndStartup

LEMMA LinkDisk ==
  ASSUME NEW p \in Process, Link(p)
  PROVE  Changed({<<"out", job[p].out>>}, {}, Made(p, Linked(p)))
BY WroteIs DEF Link

LEMMA CleanUpDisk ==
  ASSUME NEW p \in Process, CleanUp(p)
  PROVE  Changed({}, IF job[p].verbose THEN {} ELSE ToSet(objs[p]), Made(p, Linked(p)))
BY WithoutIs, SameIs DEF CleanUp

\* Nothing but p's own files is written or deleted by p.
LEMMA StepTouches ==
  ASSUME Types, Makers, NEW p \in Process, Shape(p), Objs(p), Step(p)
  PROVE  Touched(p)
<1> DEFINE c == Made(p, <<p, "part", 0>>)
           Mine(D) == \A n \in D : Named(p, n) \/ n \notin DOMAIN disk
<1>0. /\ Objects(p) => Named(p, ObjectPath(p))
      /\ pc[p] \in AfterMiss => Mine({obj[p]})
      /\ pc[p] = "codegen" => Named(p, SourcePath(p)) /\ Named(p, MapOf(SourcePath(p)))
      /\ pc[p] \in Assembling /\ ~Input(p).direct => Named(p, src[p]) /\ Named(p, MapOf(src[p]))
      /\ job[p].mode = "link" =>
           Named(p, StartupSource(p)) /\ Named(p, StartupObject(p)) /\ Named(p, <<"out", job[p].out>>)
      /\ pc[p] # "end" => \A n \in ToSet(objs[p]) : Named(p, n)
  BY NamesOf DEF Named, MapOf
<1>c. c.by = p /\ \A what : Made(p, what).by = p
  BY DEF Made
<1>o. pc[p] \in Assembling => Named(p, obj[p])
  BY NamesOf, CommandLineIs, ObjectNames DEF Shape, Objs, Present, Named, Assembling, AfterMiss
<1>s. pc[p] \in Assembling => Mine(Spent(p))
  BY <1>0, CommandLineIs DEF Spent, Shape, Input
<1>n. Changed({}, {}, c) => Touched(p)
  BY <1>c, ChangedTouches
<1>d. \A D : Mine(D) /\ Changed({}, D, c) => Touched(p)
  BY <1>c, ChangedTouches
<1>w. \A W, what : (\A n \in W : Named(p, n)) /\ Changed(W, {}, Made(p, what)) => Touched(p)
  BY <1>c, ChangedTouches
<1> HIDE DEF c
<1>1. CASE disk' = disk
  BY <1>1, <1>n, SameIs
<1>2. CASE Begin(p) \/ PhaseFails(p) \/ Checked(p) \/ Lower(p) \/ DuplicateDefinition(p) \/ WriteManifest(p)
           \/ ManifestFails(p) \/ LinkFails(p)
  BY <1>1, <1>2 DEF Begin, PhaseFails, Checked, Lower, DuplicateDefinition, WriteManifest, ManifestFails, LinkFails
<1>3. CASE Reuse(p)
  BY <1>0, <1>3, <1>w, ReuseDisk DEF Reuse
<1>4. CASE Miss(p)
  <2>1. Input(p).direct => Objects(p)
    BY <1>4, CommandLineIs DEF Miss, At, Shape, HasDirect, Input
  <2>2. disk' = disk \/ (Input(p).direct /\ disk' = Without(disk, {ObjectPath(p)}))
    BY <1>4 DEF Miss
  <2>3. CASE Input(p).direct /\ disk' = Without(disk, {ObjectPath(p)})
    <3>1. Changed({}, {ObjectPath(p)}, c)
      BY <2>3, WithoutIs
    <3> QED BY <1>0, <1>d, <2>1, <2>3, <3>1
  <2> QED BY <1>1, <2>2, <2>3
<1>5. CASE Emit(p)
  <2>1. pc[p] = "codegen"
    BY <1>5 DEF Emit, At
  <2>2. \A n \in Sources(p) : Named(p, n)
    BY <1>0, <2>1 DEF Sources
  <2>3. Mine(IF job[p].assembler = "nazm" THEN {obj[p]} ELSE {})
    BY <1>0, <2>1 DEF AfterMiss
  <2> DEFINE D == IF job[p].assembler = "nazm" THEN {obj[p]} ELSE {}
             e == Made(p, UnitPart(p))
  <2>4. Changed(Sources(p), D, e) /\ e.by = p /\ \A n \in D : Named(p, n) \/ n \notin DOMAIN disk
    BY <1>5, <1>c, <2>3, EmitDisk
  <2> HIDE DEF D, e
  <2> QED BY <2>2, <2>4, ChangedTouches
<1>6. CASE EmitUnrecorded(p)
  <2>1. \A n \in Sources(p) : Named(p, n)
    BY <1>0, <1>6 DEF Sources, EmitUnrecorded, At
  <2> QED BY <1>6, <1>w, <2>1, EmitUnrecordedDisk
<1>7. CASE EmitFails(p)
  <2>1. pc[p] = "codegen" /\ (disk' = disk \/ disk' = LeftByEmission(p))
    BY <1>7 DEF EmitFails, At
  <2>2. CASE disk' = PartLeft(p)
    <3>1. Changed({SourcePath(p)}, {}, Made(p, <<p, "part", 0>>))
      BY <2>2, WroteIs DEF PartLeft
    <3> QED BY <1>0, <1>w, <2>1, <3>1
  <2>3. CASE \E D : D \subseteq {SourcePath(p), MapOf(SourcePath(p)), obj[p]} /\ disk' = Without(disk, D)
    <3>1. PICK D : D \subseteq {SourcePath(p), MapOf(SourcePath(p)), obj[p]} /\ disk' = Without(disk, D)
      BY <2>3
    <3>2. Mine(D)
      BY <1>0, <2>1, <3>1 DEF AfterMiss
    <3>3. Changed({}, D, c)
      BY <3>1, WithoutIs
    <3> QED BY <1>d, <3>2, <3>3
  <2>4. \/ LeftByEmission(p) = PartLeft(p) \/ LeftByEmission(p) = Without(disk, {SourcePath(p)})
        \/ LeftByEmission(p) = Without(disk, {SourcePath(p), MapOf(SourcePath(p)), obj[p]})
    BY DEF LeftByEmission
  <2> QED BY <1>1, <2>1, <2>2, <2>3, <2>4
<1>8. CASE Assemble(p)
  <2>1. Named(p, obj[p])
    BY <1>8, <1>o DEF Assemble, At, Assembling
  <2>2. PICK what : Changed({obj[p]}, {}, Made(p, what))
    BY <1>8, AssembleDisk
  <2>3. \A n \in {obj[p]} : Named(p, n)
    BY <2>1
  <2> QED BY <1>w, <2>2, <2>3
<1>9. CASE AssembleFails(p) \/ Record(p) \/ RecordFails(p)
  <2>1. /\ pc[p] \in Assembling
        /\ \E D : D \subseteq Spent(p) \cup {obj[p]} /\ disk' = Without(disk, D)
    BY <1>9 DEF AssembleFails, Record, RecordFails, At, Assembling
  <2>2. PICK D : D \subseteq Spent(p) \cup {obj[p]} /\ disk' = Without(disk, D)
    BY <2>1
  <2>3. Mine(D) /\ Changed({}, D, c)
    BY <1>o, <1>s, <2>1, <2>2, WithoutIs
  <2> QED BY <1>d, <2>3
<1>l. WriteStartup(p) \/ AssembleStartup(p) \/ EndStartup(p) \/ StartupFails(p) \/ Link(p) => job[p].mode = "link"
  BY DEF WriteStartup, AssembleStartup, EndStartup, StartupFails, Link, At, Shape, StartupPhases
<1>10. CASE WriteStartup(p)
  <2> DEFINE e == Made(p, StartupPart(p))
  <2>1. Changed({StartupSource(p)}, {StartupObject(p)}, e) /\ e.by = p
    BY <1>10, <1>c, WriteStartupDisk
  <2>2. /\ \A n \in {StartupSource(p)} : Named(p, n)
        /\ \A n \in {StartupObject(p)} : Named(p, n) \/ n \notin DOMAIN disk
    BY <1>0, <1>l, <1>10
  <2> HIDE DEF e
  <2> QED BY <2>1, <2>2, ChangedTouches
<1>11. CASE AssembleStartup(p)
  BY <1>0, <1>l, <1>11, <1>w, AssembleStartupDisk
<1>12. CASE EndStartup(p) \/ StartupFails(p)
  <2>1. \E D : D \subseteq StartupFiles(p) /\ disk' = Without(disk, D)
    BY <1>12 DEF EndStartup, StartupFails, StartupFiles, SpentStartup
  <2>2. PICK D : D \subseteq StartupFiles(p) /\ disk' = Without(disk, D)
    BY <2>1
  <2>3. Mine(D) /\ Changed({}, D, c)
    BY <1>0, <1>l, <1>12, <2>2, WithoutIs DEF StartupFiles
  <2> QED BY <1>d, <2>3
<1>13. CASE Link(p)
  BY <1>0, <1>l, <1>13, <1>w, LinkDisk
<1>14. CASE CleanUp(p)
  <2>1. pc[p] # "end" /\ (disk' = disk \/ disk' = Without(disk, ToSet(objs[p])))
    BY <1>14 DEF CleanUp, At
  <2>2. CASE disk' = Without(disk, ToSet(objs[p]))
    <3>1. Changed({}, ToSet(objs[p]), c)
      BY <2>2, WithoutIs
    <3> QED BY <1>0, <1>d, <2>1, <3>1
  <2> QED BY <1>1, <2>1, <2>2
<1> QED BY <1>2, <1>3, <1>4, <1>5, <1>6, <1>7, <1>8, <1>9, <1>10, <1>11, <1>12, <1>13, <1>14
        DEF Step, CompileUnit, Startup, Finish

-----------------------------------------------------------------------------
(* Names of two compilers.                                                 *)

LEMMA NamesApart ==
  ASSUME NEW p, NEW q, NEW n, p # q, Named(p, n), Named(q, n)
  PROVE  ~Apart(p, q) /\ n[1] \notin {"obj", "gas", "nazm"}
<1>0. \A r : job[r].mode = "link" => <<"out", job[r].out>> \in Requested(r)
  BY DEF Requested
<1>1. ASSUME NEW m, Plain(p, m), Plain(q, m) PROVE ~Apart(p, q) /\ m[1] \notin {"obj", "gas", "nazm"}
  <2>1. CASE m \in Requested(p) /\ m \in Requested(q)
    BY <1>1, <2>1 DEF Plain, Apart
  <2>2. CASE job[p].mode = "link" /\ job[q].mode = "link" /\ job[p].out = job[q].out
             /\ m[1] \in {"unit", "startup source", "startup object"}
    <3>1. <<"out", job[p].out>> \in Requested(p) \cap Requested(q)
      BY <1>0, <2>2
    <3> QED BY <2>2, <3>1 DEF Apart
  <2> QED BY <1>1, <2>1, <2>2 DEF Plain
<1>2. ~(n[1] = "map" /\ (Plain(p, n) \/ Plain(q, n)))
  BY DEF Plain
<1>3. CASE Plain(p, n) /\ Plain(q, n)
  BY <1>1, <1>3
<1>4. CASE n[1] = "map" /\ Plain(p, n[2]) /\ Plain(q, n[2])
  BY <1>1, <1>4
<1> QED BY <1>2, <1>3, <1>4 DEF Named

LEMMA RequestedStays ==
  ASSUME NEW p \in Process, UNCHANGED job
  PROVE  Requested(p)' = Requested(p)
BY DEF Requested, Single, SourceKind, MapOf

LEMMA MakersStep ==
  ASSUME Makers, UNCHANGED job, NEW p \in Process, Touched(p)
  PROVE  Makers'
<1>1. \A q, n : Named(q, n)' <=> Named(q, n)
  BY DEF Named, Plain, Requested, Single, SourceKind, MapOf
<1>2. ASSUME NEW n \in DOMAIN disk' PROVE disk'[n].by \in Process /\ Named(disk'[n].by, n)
  <2>1. CASE n \in DOMAIN disk /\ disk'[n] = disk[n]
    BY <2>1 DEF Makers
  <2>2. CASE n \notin DOMAIN disk \/ disk'[n] # disk[n]
    BY <2>2 DEF Touched
  <2> QED BY <2>1, <2>2
<1> QED BY <1>1, <1>2 DEF Makers

\* Another compiler, told to write and read other files, leaves p's alone.
LEMMA OthersFiles ==
  ASSUME NEW p \in Process, NEW q \in Process, p # q, Touched(q), Apart(p, q)
  PROVE  \A n : Named(p, n) => /\ n \in DOMAIN disk' <=> n \in DOMAIN disk
                               /\ n \in DOMAIN disk => disk'[n] = disk[n]
<1>1. \A n : Named(p, n) => ~Named(q, n)
  BY NamesApart
<1> QED BY <1>1 DEF Touched

\* A file q left with p's mark was there before.
LEMMA OthersMarks ==
  ASSUME NEW p \in Process, NEW q \in Process, p # q, Touched(q)
  PROVE  \A n \in DOMAIN disk' : disk'[n].by = p => n \in DOMAIN disk /\ disk[n].by = p
BY DEF Touched

-----------------------------------------------------------------------------
(* A step of one compiler leaves the others where they are.                *)

LEMMA UnmovedKeeps ==
  ASSUME NEW p \in Process, Unmoved(p), UNCHANGED job, Shape(p), Objs(p), Registry(p)
  PROVE  Shape(p)' /\ Objs(p)' /\ Registry(p)'
<1>1. Input(p)' = Input(p) /\ Done(p)' = Done(p) /\ (Objects(p)' <=> Objects(p)) /\ (HasDirect(p)' <=> HasDirect(p))
      /\ StartupObject(p)' = StartupObject(p) /\ StartupFiles(p)' = StartupFiles(p)
  BY DEF Unmoved, Input, Done, Objects, HasDirect, StartupObject, StartupSource, StartupFiles
<1>2. \A k, n, c : ObjectOf(p, k, n, c)' <=> ObjectOf(p, k, n, c)
  BY DEF ObjectOf, Direct, Single, DirectUpTo
<1>3. Shape(p)'
  BY <1>1 DEF Unmoved, Shape
<1>4. Counted(p)'
  BY <1>1 DEF Objs, Unmoved, Counted, Count
<1>5. UnitObjects(p)'
  BY <1>1, <1>2 DEF Objs, Unmoved, UnitObjects
<1>6. Distinct(p)' /\ StartupLast(p)'
  BY <1>1 DEF Objs, Unmoved, Distinct, StartupLast
<1>7. Present(p)'
  BY <1>1, <1>2 DEF Objs, Unmoved, Present
<1>8. Registry(p)'
  BY DEF Unmoved, Registry, KeepsRegistry, Single, SameName
<1> QED BY <1>3, <1>4, <1>5, <1>6, <1>7, <1>8 DEF Objs

LEMMA NeededStays ==
  ASSUME NEW p \in Process, Unmoved(p), UNCHANGED job
  PROVE  Needed(p)' = Needed(p)
<1>1. Input(p)' = Input(p) /\ StartupFiles(p)' = StartupFiles(p)
  BY DEF Unmoved, Input, StartupObject, StartupSource, StartupFiles
<1> QED BY <1>1 DEF Unmoved, Needed, MapOf

LEMMA OwnOutputStays ==
  ASSUME NEW p \in Process, UNCHANGED job
  PROVE  OwnOutput(p)' <=> OwnOutput(p)
BY RequestedStays DEF OwnOutput, OneEach, Apart

LEMMA LeftOthers ==
  ASSUME NEW p \in Process, NEW q \in Process, p # q, Unmoved(p), UNCHANGED job, Touched(q), Left(p)
  PROVE  Left(p)'
<1>1. Needed(p)' = Needed(p) /\ Requested(p)' = Requested(p) /\ pc'[p] = pc[p] /\ exit'[p] = exit[p]
  BY NeededStays, RequestedStays DEF Unmoved
<1> QED BY <1>1, OthersMarks DEF Left

-----------------------------------------------------------------------------
(* Nothing but what was asked for, and what there is still a use for.      *)

LEMMA AppendedIs ==
  ASSUME NEW S, NEW s \in Seq(S), NEW e \in S
  PROVE  ToSet(Append(s, e)) = ToSet(s) \cup {e}
<1>1. \A k \in 1 .. Len(Append(s, e)) : Append(s, e)[k] = e \/ (k \in 1 .. Len(s) /\ Append(s, e)[k] = s[k])
  OBVIOUS
<1>2. DOMAIN Append(s, e) = 1 .. Len(Append(s, e)) /\ DOMAIN s = 1 .. Len(s)
  OBVIOUS
<1> QED BY <1>1, <1>2, AppendKeeps DEF ToSet

\* A step that writes W and deletes D: what it writes is needed, and what is no
\* longer needed is deleted.
LEMMA LeftByChange ==
  ASSUME Types, NEW p \in Process, UNCHANGED job, Shape(p), Shape(p)', Left(p), pc[p] # "end",
         NEW W, NEW D, NEW c, Changed(W, D, c),
         ~job[p].verbose => W \subseteq Requested(p) \cup Needed(p)',
         ~job[p].verbose => Needed(p) \subseteq Requested(p) \cup Needed(p)' \cup D,
         ~job[p].verbose /\ exit'[p] = Success => Needed(p)' \subseteq Requested(p)
  PROVE  Left(p)'
<1>1. Requested(p)' = Requested(p)
  BY RequestedStays
<1>2. ASSUME ~job[p].verbose, NEW n \in DOMAIN disk', disk'[n].by = p
      PROVE  n \in Requested(p) \cup Needed(p)'
  <2>1. CASE n \in W
    BY <1>2, <2>1
  <2>2. CASE n \notin W
    <3>1. n \in DOMAIN disk /\ n \notin D /\ disk[n].by = p
      BY <1>2, <2>2 DEF Changed
    <3>2. n \in Requested(p) \cup Needed(p)
      BY <1>2, <3>1 DEF Left
    <3> QED BY <1>2, <3>1, <3>2
  <2> QED BY <2>1, <2>2
<1>3. ~job[p].verbose => \A n \in DOMAIN disk' : disk'[n].by = p => n \in Requested(p) \cup Needed(p)'
  BY <1>2
<1>4. ~job[p].verbose /\ exit'[p] = Success => \A n \in DOMAIN disk' : disk'[n].by = p => n \in Requested(p)
  BY <1>3
<1> QED BY <1>1, <1>3, <1>4 DEF Left

LEMMA LeftStep ==
  ASSUME NEW p \in Process, Types, Makers, Shape(p), Objs(p), Left(p), Step(p)
  PROVE  Left(p)'
<1>0. /\ UNCHANGED job /\ Shape(p)' /\ Types' /\ Objs(p)'
      /\ objs[p] \in Seq(ObjectName) /\ (exit[p] = Running <=> pc[p] # "end")
  BY OthersUnmoved, ShapeStep, ObjsStep DEF Shape
<1>r. Running # Success
  BY DEF Running, Success
<1>s. StartupFiles(p)' = StartupFiles(p)
  BY <1>0 DEF StartupFiles, StartupSource, StartupObject
<1>e. Step(p) => pc[p] # "end"
  BY DEF Step, CompileUnit, Startup, Finish, Begin, Reuse, Miss, PhaseFails, Checked, Lower, DuplicateDefinition, Emit,
         EmitUnrecorded, EmitFails, Assemble, AssembleFails, Record, RecordFails, WriteStartup, AssembleStartup,
         EndStartup, StartupFails, WriteManifest, ManifestFails, Link, LinkFails, CleanUp, At
<1> USE DEF Assembling, StartupPhases
\* Outside the phases with temporary sources, only the objects are needed.
<1>n. pc[p] \notin Assembling \cup StartupPhases => Needed(p) = ToSet(objs[p])
  BY DEF Needed
<1>m. ToSet(objs'[p]) \subseteq Needed(p)' /\ (pc'[p] \notin Assembling \cup StartupPhases => Needed(p)' = ToSet(objs'[p]))
  BY DEF Needed
<1>1. CASE Fails(p)
  BY <1>1 DEF Fails, Left
<1>2. CASE Begin(p) \/ Checked(p) \/ Lower(p)
  <2>1. CASE Fails(p)
    BY <1>1, <2>1
  <2>2. CASE ~Fails(p)
    <3>1. objs'[p] = objs[p] /\ pc[p] \in {"begin", "front"} /\ exit'[p] # Success /\ disk' = disk
      BY <1>0, <1>2, <1>r, <2>2, BeginIs, CheckedIs, LowerIs, BeginDisk
    <3>2. Changed({}, {}, NoObject)
      BY <3>1, SameIs
    <3> QED BY <1>0, <1>m, <1>n, <3>1, <3>2, LeftByChange
  <2> QED BY <2>1, <2>2
<1>3. CASE Reuse(p)
  <2> DEFINE e == Made(p, UnitPart(p))
  <2>1. pc[p] = "unit" /\ objs'[p] = Append(objs[p], ObjectPath(p)) /\ exit'[p] = exit[p] /\ Objects(p)
    BY <1>3, ReuseIs DEF Reuse
  <2>2. Changed({ObjectPath(p)}, {}, e)
    BY <1>3, ReuseDisk
  <2>3. ObjectPath(p) \in ObjectName
    <3> DEFINE c == IF UsesCounter(p) THEN count[p] + 1 ELSE count[p]
    <3>1. ObjectOf(p, unit[p], ObjectPath(p), c)
      BY <2>1, ObjectPathIs
    <3>2. count[p] \in Nat /\ unit[p] \in 1 .. Len(job[p].inputs)
      BY DEF Shape
    <3>3. c \in Nat
      BY <3>2
    <3> HIDE DEF c
    <3> QED BY <3>1, <3>2, <3>3, ObjectNames
  <2>4. ToSet(objs'[p]) = ToSet(objs[p]) \cup {ObjectPath(p)}
    BY <1>0, <2>1, <2>3, AppendedIs
  <2> HIDE DEF e
  <2>5. exit'[p] # Success
    BY <1>0, <1>r, <2>1
  <2> QED BY <1>0, <1>m, <1>n, <2>1, <2>2, <2>4, <2>5, LeftByChange
<1>4. CASE Miss(p)
  <2> DEFINE e == Made(p, UnitPart(p))
             D == IF Input(p).direct THEN {ObjectPath(p)} ELSE {}
  <2>1. pc[p] = "unit" /\ objs'[p] = objs[p] /\ exit'[p] = exit[p]
    BY <1>4, MissIs
  <2>2. Changed({}, D, e)
    BY <1>4, MissDisk
  <2>3. exit'[p] # Success
    BY <1>0, <1>r, <2>1
  <2> HIDE DEF D, e
  <2> QED BY <1>0, <1>m, <1>n, <2>1, <2>2, <2>3, LeftByChange
<1>5. CASE Emit(p)
  <2> DEFINE e == Made(p, UnitPart(p))
             D == IF job[p].assembler = "nazm" THEN {obj[p]} ELSE {}
  <2>1. pc[p] = "codegen" /\ objs'[p] = objs[p] /\ exit'[p] = exit[p] /\ src'[p] = SourcePath(p) /\ obj'[p] = obj[p]
    BY <1>5, EmitIs
  <2>2. Changed(Sources(p), D, e)
    BY <1>5, EmitDisk
  <2>3. exit'[p] # Success
    BY <1>0, <1>r, <2>1
  <2>4. CASE job[p].mode = "assembly"
    <3>1. unit[p] \in 1 .. Len(job[p].inputs) /\ job[p].assembler \in {"gas", "nazm"}
      BY CommandLineIs DEF Shape
    <3>2. Sources(p) \subseteq Requested(p)
      BY <2>1, <2>4, <3>1, RequestedSources, SourcePathIs DEF Sources
    <3> HIDE DEF D, e
    <3> QED BY <1>0, <1>m, <1>n, <2>1, <2>2, <2>3, <3>2, LeftByChange
  <2>5. CASE job[p].mode # "assembly"
    <3>1. pc'[p] = "assemble" /\ unit'[p] = unit[p]
      BY <1>5, <2>5, EmitIs
    <3>2. ~Input(p)'.direct
      BY <1>0, <2>1, <3>1 DEF Shape, Input
    <3>3. Sources(p) \subseteq Needed(p)'
      BY <2>1, <3>1, <3>2 DEF Sources, Needed, MapOf
    <3> HIDE DEF D, e
    <3> QED BY <1>0, <1>m, <1>n, <2>1, <2>2, <2>3, <3>3, LeftByChange
  <2> QED BY <2>4, <2>5
<1>6. CASE Assemble(p)
  <2> DEFINE e == Made(p, IF Input(p).direct THEN UnitPart(p) ELSE disk[src[p]].of)
  <2>1. /\ pc[p] = "assemble" /\ pc'[p] = "assembled" /\ objs'[p] = objs[p] /\ exit'[p] = exit[p]
        /\ unit'[p] = unit[p] /\ src'[p] = src[p] /\ obj'[p] = obj[p]
    BY <1>6, AssembleIs
  <2>2. Changed({obj[p]}, {}, e)
    BY <1>6, AssembleDisk
  <2>3. exit'[p] # Success
    BY <1>0, <1>r, <2>1
  <2>4. Needed(p)' = Needed(p) /\ obj[p] \in Needed(p)
    BY <1>0, <2>1 DEF Needed, Input, MapOf
  <2> HIDE DEF e
  <2> QED BY <1>0, <2>1, <2>2, <2>3, <2>4, LeftByChange
<1>7. CASE Record(p)
  <2> DEFINE e == Made(p, UnitPart(p))
  <2>1. pc[p] = "assembled" /\ objs'[p] = Append(objs[p], obj[p]) /\ exit'[p] = exit[p] /\ Objects(p)
    BY <1>7, RecordIs DEF Shape
  <2>2. Changed({}, Spent(p), e)
    BY <1>7, RecordDisk
  <2>3. exit'[p] # Success
    BY <1>0, <1>r, <2>1
  <2>4. obj[p] \in ObjectName
    BY <2>1, ObjectNames DEF Shape, Objs, Present, AfterMiss
  <2>5. ToSet(objs'[p]) = ToSet(objs[p]) \cup {obj[p]}
    BY <1>0, <2>1, <2>4, AppendedIs
  <2>6. ~job[p].verbose => Needed(p) = ToSet(objs[p]) \cup {obj[p]} \cup Spent(p)
    BY <2>1 DEF Needed, Spent
  <2> HIDE DEF e
  <2> QED BY <1>0, <1>m, <2>1, <2>2, <2>3, <2>5, <2>6, LeftByChange
<1>8. CASE WriteStartup(p)
  <2> DEFINE e == Made(p, StartupPart(p))
  <2>1. pc[p] = "startup" /\ pc'[p] = "startup source" /\ objs'[p] = objs[p] /\ exit'[p] = exit[p]
    BY <1>8, WriteStartupIs
  <2>2. Changed({StartupSource(p)}, {StartupObject(p)}, e)
    BY <1>8, WriteStartupDisk
  <2>3. exit'[p] # Success
    BY <1>0, <1>r, <2>1
  <2>4. Needed(p)' = Needed(p) /\ StartupSource(p) \in Needed(p)
    BY <1>s, <2>1 DEF Needed, StartupFiles
  <2> HIDE DEF e
  <2> QED BY <1>0, <2>1, <2>2, <2>3, <2>4, LeftByChange
<1>9. CASE AssembleStartup(p)
  <2> DEFINE e == Made(p, disk[StartupSource(p)].of)
  <2>1. pc[p] = "startup source" /\ pc'[p] = "startup object" /\ objs'[p] = objs[p] /\ exit'[p] = exit[p]
    BY <1>9, AssembleStartupIs
  <2>2. Changed({StartupObject(p)}, {}, e)
    BY <1>9, AssembleStartupDisk
  <2>3. exit'[p] # Success
    BY <1>0, <1>r, <2>1
  <2>4. Needed(p)' = Needed(p) /\ StartupObject(p) \in Needed(p)
    BY <1>s, <2>1 DEF Needed, StartupFiles
  <2> HIDE DEF e
  <2> QED BY <1>0, <2>1, <2>2, <2>3, <2>4, LeftByChange
<1>10. CASE EndStartup(p)
  <2> DEFINE e == Made(p, StartupPart(p))
  <2>1. /\ pc[p] = "startup object" /\ pc'[p] = "manifest" /\ exit'[p] = exit[p]
        /\ objs'[p] = Append(objs[p], StartupObject(p))
    BY <1>10, EndStartupIs
  <2>2. Changed({}, SpentStartup(p), e)
    BY <1>10, EndStartupDisk
  <2>3. exit'[p] # Success
    BY <1>0, <1>r, <2>1
  <2>4. StartupObject(p) \in ObjectName
    BY CommandLineIs, ObjectNameHas DEF StartupObject
  <2>5. ToSet(objs'[p]) = ToSet(objs[p]) \cup {StartupObject(p)}
    <3>1. ToSet(Append(objs[p], StartupObject(p))) = ToSet(objs[p]) \cup {StartupObject(p)}
      BY <1>0, <2>4, AppendedIs
    <3> QED BY <2>1, <3>1
  <2>6. ~job[p].verbose => Needed(p) = ToSet(objs[p]) \cup {StartupObject(p)} \cup SpentStartup(p)
    BY <2>1 DEF Needed, SpentStartup, StartupFiles
  <2> HIDE DEF e
  <2> QED BY <1>0, <1>m, <2>1, <2>2, <2>3, <2>5, <2>6, LeftByChange
<1>11. CASE WriteManifest(p)
  <2>1. pc[p] = "manifest" /\ pc'[p] \in {"link", "end"} /\ objs'[p] = objs[p] /\ disk' = disk
        /\ (job[p].mode = "link" => exit'[p] = exit[p])
    BY <1>11, WriteManifestIs, BeginDisk
  <2>2. Changed({}, {}, NoObject)
    BY <2>1, SameIs
  <2>3. CASE job[p].mode = "link"
    <3>1. exit'[p] # Success
      BY <1>0, <1>r, <2>1, <2>3
    <3> QED BY <1>0, <1>m, <1>n, <2>1, <2>2, <3>1, LeftByChange
  <2>4. CASE job[p].mode # "link"
    <3>1. ASSUME NEW n \in ToSet(objs[p]) PROVE n \in Requested(p)
      <4>1. PICK k \in 1 .. Len(objs[p]) : n = objs[p][k]
        BY <1>0 DEF ToSet
      <4>2. Objects(p) /\ k \in 1 .. Done(p) /\ Done(p) = Len(job[p].inputs)
        BY <2>1, <2>4 DEF Objs, Counted, Count, Done, UnitPhases
      <4>3. job[p].mode = "compile"
        BY <2>4, <4>2 DEF Objects
      <4> QED BY <2>1, <4>1, <4>2, <4>3, RequestedHas DEF Objs, UnitObjects
    <3> QED BY <1>0, <1>m, <1>n, <2>1, <2>2, <3>1, LeftByChange
  <2> QED BY <2>3, <2>4
<1>12. CASE Link(p)
  <2> DEFINE e == Made(p, Linked(p))
  <2>1. pc[p] = "link" /\ pc'[p] = "linked" /\ objs'[p] = objs[p] /\ exit'[p] = exit[p] /\ job[p].mode = "link"
    BY <1>12, LinkIs DEF Shape
  <2>2. Changed({<<"out", job[p].out>>}, {}, e)
    BY <1>12, LinkDisk
  <2>3. exit'[p] # Success
    BY <1>0, <1>r, <2>1
  <2>4. Requested(p) = {<<"out", job[p].out>>}
    BY <2>1, RequestedHas
  <2> HIDE DEF e
  <2> QED BY <1>0, <1>m, <1>n, <2>1, <2>2, <2>3, <2>4, LeftByChange
<1>13. CASE CleanUp(p)
  <2>1. pc[p] = "linked" /\ pc'[p] = "end"
    BY <1>13, CleanUpIs
  <2>2. disk' = IF job[p].verbose THEN disk ELSE Without(disk, ToSet(objs[p]))
    BY <1>13 DEF CleanUp
  <2>3. ASSUME ~job[p].verbose, NEW n \in DOMAIN disk', disk'[n].by = p
        PROVE  n \in Requested(p)
    <3>1. n \in DOMAIN disk /\ n \notin ToSet(objs[p]) /\ disk[n].by = p
      BY <2>2, <2>3 DEF Without, Restrict
    <3> QED BY <1>n, <2>1, <2>3, <3>1 DEF Left
  <2>4. Requested(p)' = Requested(p)
    BY <1>0, RequestedStays
  <2> QED BY <1>0, <2>1, <2>3, <2>4 DEF Left
<1> QED BY <1>1, <1>2, <1>3, <1>4, <1>5, <1>6, <1>7, <1>8, <1>9, <1>10, <1>11, <1>12, <1>13, StepCases

-----------------------------------------------------------------------------
(* What is in the files: steps of the others.                              *)

LEMMA SourcesNamed ==
  ASSUME Types, NEW p \in Process, job[p].mode = "assembly", NEW k \in 1 .. Len(job[p].inputs)
  PROVE  Named(p, SourceOf(p, k)) /\ Named(p, MapOf(SourceOf(p, k)))
<1>1. SourceOf(p, k) \in Requested(p)
  BY RequestedSources
<1>2. SourceOf(p, k)[1] \in {"out", SourceKind(p)}
  BY DEF SourceOf
<1>3. Plain(p, SourceOf(p, k))
  BY <1>1, <1>2 DEF SourceKind, Plain
<1> QED BY <1>3 DEF Named, MapOf

LEMMA RequestedNamed ==
  ASSUME Types, NEW p \in Process, NEW n \in Requested(p)
  PROVE  Named(p, n)
<1>0. Len(job[p].inputs) \in Nat /\ job[p].mode \in {"link", "compile", "assembly", "check"}
  BY CommandLineIs
<1>1. CASE job[p].mode = "link"
  <2>1. n = <<"out", job[p].out>>
    BY <1>1, RequestedHas
  <2> QED BY <1>1, <2>1 DEF Named, Plain
<1>2. CASE job[p].mode = "compile"
  <2>1. PICK k \in 1 .. Len(job[p].inputs) : ObjectOf(p, k, n, 0)
    BY <1>2, RequestedHas
  <2> QED BY <2>1, ObjectNames DEF Named
<1>3. CASE job[p].mode = "assembly"
  BY <1>3, RequestedSources, SourcesNamed
<1>4. CASE job[p].mode = "check"
  BY <1>4, RequestedHas
<1> QED BY <1>0, <1>1, <1>2, <1>3, <1>4

LEMMA FilesOthers ==
  ASSUME Types, Makers, NEW p \in Process, Unmoved(p), UNCHANGED job, Shape(p), Objs(p), Files(p),
         \A n : Named(p, n) => (n \in DOMAIN disk' <=> n \in DOMAIN disk) /\ (n \in DOMAIN disk => disk'[n] = disk[n])
  PROVE  Files(p)'
<1>1. \A n, what : Named(p, n) => (Holds(n, what)' <=> Holds(n, what))
  BY DEF Holds
<1>2. \A n : Named(p, n) => (n \in DOMAIN disk' <=> n \in DOMAIN disk) /\ (n \in DOMAIN disk => disk'[n] = disk[n])
  OBVIOUS
<1>3. /\ Input(p)' = Input(p) /\ Done(p)' = Done(p) /\ (Objects(p)' <=> Objects(p))
      /\ \A k : Part(p, k)' = Part(p, k) /\ SourceOf(p, k)' = SourceOf(p, k)
      /\ StartupSource(p)' = StartupSource(p) /\ StartupObject(p)' = StartupObject(p)
      /\ StartupPart(p)' = StartupPart(p) /\ Units(p)' = Units(p) /\ Requested(p)' = Requested(p)
  BY RequestedStays DEF Unmoved, Input, Done, Objects, Part, SourceOf, Single, SourceKind, StartupSource, StartupObject,
     StartupPart, Units
<1>4. 1 .. Done(p) \subseteq 1 .. Len(job[p].inputs) /\ Len(job[p].inputs) \in Nat
  BY CommandLineIs DEF Done, Shape
<1>5. ObjectsHold(p)'
  <2>1. pc[p] # "end" /\ Objects(p) => \A k \in 1 .. Done(p) : Named(p, objs[p][k])
    BY <1>4, ObjectNames DEF Objs, UnitObjects, Shape, Named
  <2> QED BY <1>1, <1>3, <2>1 DEF Files, ObjectsHold, Unmoved
<1>6. SourcesHold(p)'
  <2>1. job[p].mode = "assembly" => \A k \in 1 .. Done(p) : Named(p, SourceOf(p, k)) /\ Named(p, MapOf(SourceOf(p, k)))
    BY <1>4, SourcesNamed
  <2> QED BY <1>1, <1>3, <2>1 DEF Files, SourcesHold, Unmoved, MapOf
<1>7. PresentHolds(p)'
  <2>1. pc[p] = "assemble" /\ ~Input(p).direct => Named(p, src[p])
    BY NamesOf DEF Named, Assembling
  <2>2. pc[p] = "assembled" /\ Holds(obj[p], Part(p, unit[p])) => Named(p, obj[p])
    BY NamesOf DEF Named, AfterMiss, Holds
  <2> QED BY <1>1, <1>3, <2>1, <2>2 DEF Files, PresentHolds, Unmoved
<1>8. StartupHolds(p)'
  <2>1. job[p].mode = "link" =>
          Named(p, StartupSource(p)) /\ Named(p, StartupObject(p)) /\ Named(p, <<"out", job[p].out>>)
    BY NamesOf DEF Named
  <2>2. pc[p] \in {"startup source", "startup object", "linked"} => job[p].mode = "link"
    BY DEF Shape, StartupPhases
  <2> QED BY <1>1, <1>3, <2>1, <2>2 DEF Files, StartupHolds, Unmoved
<1>9. ASSUME exit'[p] = Success PROVE DeliveredBy(p)'
  <2>1. DeliveredBy(p)
    BY <1>9 DEF Files, Unmoved
  <2>2. \A n \in Requested(p) : n \in DOMAIN disk' /\ disk'[n] = disk[n]
    BY <1>2, <2>1, RequestedNamed DEF DeliveredBy, Names
  <2>3. Requested(p) \subseteq DOMAIN disk'
    BY <2>2
  <2>4. job[p].mode = "link" => disk'[<<"out", job[p].out>>] = disk[<<"out", job[p].out>>]
    BY <2>2, RequestedHas
  <2>5. {disk'[n].of : n \in Requested(p)} = {disk[n].of : n \in Requested(p)}
    BY <2>2
  <2> QED BY <1>3, <2>1, <2>3, <2>4, <2>5 DEF DeliveredBy, Names
<1>10. OneEach(p)'
  BY DEF Files, OneEach
<1> QED BY <1>5, <1>6, <1>7, <1>8, <1>9, <1>10 DEF Files

-----------------------------------------------------------------------------
(* What is in the files: a step of the compiler itself.                    *)

HoldsNext(n, what) == n \in DOMAIN disk' /\ disk'[n].of = what

LEMMA ChangedHolds ==
  ASSUME NEW W, NEW D, NEW c, Changed(W, D, c)
  PROVE  /\ \A n, what : Holds(n, what) /\ n \notin W \cup D => HoldsNext(n, what)
         /\ \A n \in W \ D : HoldsNext(n, c.of)
BY DEF Changed, Holds, HoldsNext

\* In one compiler that was asked for each object once, units with the same
\* object are the same.
LEMMA SameObject ==
  ASSUME Types, NEW p \in Process, job[p].mode = "compile", OneEach(p),
         NEW j \in 1 .. Len(job[p].inputs), NEW k \in 1 .. Len(job[p].inputs), NEW n, NEW c, NEW d,
         ObjectOf(p, j, n, c), ObjectOf(p, k, n, d)
  PROVE  Part(p, j) = Part(p, k)
<1>0. Len(job[p].inputs) \in Nat /\ DOMAIN job[p].inputs = 1 .. Len(job[p].inputs)
  BY CommandLineIs
<1>1. CASE Single(p)
  BY <1>0, <1>1 DEF Single
<1>2. CASE ~Single(p)
  <2>1. job[p].inputs[j].base = job[p].inputs[k].base
    BY <1>2 DEF ObjectOf
  <2>2. j = k
    BY <1>0, <2>1 DEF OneEach
  <2> QED BY <2>2
<1> QED BY <1>1, <1>2

\* The names of the finished objects.
LEMMA FinishedNames ==
  ASSUME Types, NEW p \in Process, Shape(p), Objs(p), pc[p] # "end", Objects(p), NEW k \in 1 .. Done(p)
  PROVE  /\ k \in 1 .. Len(job[p].inputs) /\ ObjectOf(p, k, objs[p][k], count[p])
         /\ objs[p][k][1] \in {"out", "o", "unit", "obj"}
         /\ job[p].mode = "link" => objs[p][k][1] \in {"unit", "obj"}
<1>1. 1 .. Done(p) \subseteq 1 .. Len(job[p].inputs) /\ Len(job[p].inputs) \in Nat
  BY CommandLineIs DEF Done, Shape
<1>2. k \in 1 .. Len(job[p].inputs) /\ ObjectOf(p, k, objs[p][k], count[p]) /\ count[p] \in Nat
  BY <1>1 DEF Objs, UnitObjects, Shape
<1> QED BY <1>2, ObjectNames

\* A finished object with the name of the present unit's has the same content.
LEMMA SameAsPresent ==
  ASSUME Types, NEW p \in Process, Shape(p), Objs(p), pc[p] # "end", Objects(p), OneEach(p), NEW k \in 1 .. Done(p),
         NEW n, NEW d, objs[p][k] = n, ObjectOf(p, unit[p], n, d),
         job[p].mode = "link" => \A j \in 1 .. Done(p) : objs[p][j] # n
  PROVE  Part(p, k) = Part(p, unit[p])
<1>1. k \in 1 .. Len(job[p].inputs) /\ ObjectOf(p, k, n, count[p]) /\ unit[p] \in 1 .. Len(job[p].inputs)
  BY FinishedNames DEF Shape
<1>2. job[p].mode = "compile"
  BY DEF Objects
<1> QED BY <1>1, <1>2, SameObject

LEMMA ObjectsHoldStep ==
  ASSUME NEW p \in Process, Types, Makers, Shape(p), Objs(p), Files(p), Step(p)
  PROVE  ObjectsHold(p)'
<1>0. /\ UNCHANGED job /\ unit[p] \in 1 .. Len(job[p].inputs) /\ Len(job[p].inputs) \in Nat /\ count[p] \in Nat
      /\ objs[p] \in Seq(ObjectName) /\ (pc[p] \in UnitPhases => Done(p) = unit[p] - 1)
      /\ (Objects(p)' <=> Objects(p)) /\ (\A k : Part(p, k)' = Part(p, k))
      /\ Input(p) = job[p].inputs[unit[p]] /\ UnitPart(p) = Part(p, unit[p])
  BY OthersUnmoved, CommandLineIs DEF Shape, Done, Objects, Part, Input, UnitPart
<1> DEFINE Kept(k) == HoldsNext(objs[p][k], Part(p, k))
           Remains(k) == HoldsNext(objs'[p][k], Part(p, k)) \/ (pc'[p] = "assemble" /\ objs'[p][k] = obj'[p])
<1>g. (pc'[p] # "end" /\ Objects(p) => \A k \in 1 .. Done(p)' : Remains(k)) => ObjectsHold(p)'
  BY <1>0 DEF ObjectsHold, HoldsNext, Holds
<1>h. pc[p] \notin {"assemble", "end"} /\ Objects(p) => \A k \in 1 .. Done(p) : Holds(objs[p][k], Part(p, k))
  BY DEF Files, ObjectsHold
<1>k. pc[p] # "end" /\ Objects(p) =>
        \A k \in 1 .. Done(p) : /\ objs[p][k][1] \in {"out", "o", "unit", "obj"}
                                /\ job[p].mode = "link" => objs[p][k][1] \in {"unit", "obj"}
  BY FinishedNames
<1> HIDE DEF Remains
\* A step that leaves the list of objects as it is, and the files in it.
<1>a. ASSUME pc[p] \notin {"assemble", "end"}, Done(p)' = Done(p), objs'[p] = objs[p],
             NEW W, NEW D, NEW c, Changed(W, D, c),
             Objects(p) => \A k \in 1 .. Done(p) : objs[p][k] \notin W \cup D
      PROVE  ObjectsHold(p)'
  <2>1. Objects(p) => \A k \in 1 .. Done(p) : HoldsNext(objs[p][k], Part(p, k))
    BY <1>a, <1>h, ChangedHolds
  <2>2. Objects(p) => \A k \in 1 .. Done(p)' : Remains(k)
    BY <1>a, <2>1 DEF Remains
  <2> QED BY <1>g, <2>2
\* A step that adds the object n of the unit, which holds what it should.
<1>b. ASSUME pc[p] \in {"unit", "assembled"}, Objects(p), NEW n, objs'[p] = Append(objs[p], n), n \in ObjectName,
             Advances(p), HoldsNext(n, Part(p, unit[p])), \A k \in 1 .. Done(p) : Kept(k)
      PROVE  ObjectsHold(p)'
  <2>1. Done(p)' = unit[p] /\ Len(objs[p]) = unit[p] - 1 /\ Done(p) = unit[p] - 1
    BY <1>0, <1>b, AdvancesIs DEF Objs, Counted, Count, LinkPhases, UnitPhases
  <2>2. /\ objs'[p][unit[p]] = n /\ \A k \in 1 .. Done(p) : objs'[p][k] = objs[p][k]
    <3>1. /\ Append(objs[p], n)[Len(objs[p]) + 1] = n
          /\ \A k \in 1 .. Len(objs[p]) : Append(objs[p], n)[k] = objs[p][k]
      BY <1>0, <1>b, AppendKeeps
    <3>2. Len(objs[p]) + 1 = unit[p]
      BY <1>0, <2>1
    <3> QED BY <1>b, <2>1, <3>1, <3>2
  <2>3. \A k \in 1 .. Done(p)' : k = unit[p] \/ k \in 1 .. Done(p)
    BY <1>0, <2>1
  <2>4. \A k \in 1 .. Done(p)' : Remains(k)
    BY <1>b, <2>2, <2>3 DEF Remains
  <2> QED BY <1>g, <2>4
<1>1. CASE pc'[p] = "end" \/ ~Objects(p)
  BY <1>1, <1>g
<1>2. CASE Begin(p) \/ Checked(p) \/ Lower(p) \/ WriteManifest(p)
  <2>1. CASE pc'[p] = "end" \/ ~Objects(p)
    BY <1>1, <2>1
  <2>2. CASE pc'[p] # "end" /\ Objects(p)
    <3>0. ~Checked(p)
      BY <2>2 DEF Checked, Objects
    <3>1. /\ objs'[p] = objs[p] /\ unit'[p] = unit[p] /\ disk' = disk
          /\ pc[p] \in {"begin", "front", "manifest"} /\ ((pc[p] \in UnitPhases) <=> (pc'[p] \in UnitPhases))
      BY <1>2, <2>2, <3>0, BeginIs, LowerIs, WriteManifestIs, BeginDisk DEF Fails, UnitPhases
    <3>2. Done(p)' = Done(p)
      BY <1>0, <3>1 DEF Done
    <3>3. Changed({}, {}, NoObject)
      BY <3>1, SameIs
    <3> QED BY <1>a, <3>1, <3>2, <3>3
  <2> QED BY <2>1, <2>2
<1>3. CASE Reuse(p)
  <2> DEFINE n == ObjectPath(p)
             d == IF UsesCounter(p) THEN count[p] + 1 ELSE count[p]
  <2>1. /\ pc[p] = "unit" /\ Objects(p) /\ objs'[p] = Append(objs[p], n) /\ Advances(p)
        /\ Changed({n}, {}, Made(p, UnitPart(p)))
    BY <1>3, ReuseIs, ReuseDisk DEF Reuse
  <2>2. ObjectOf(p, unit[p], n, d)
    BY <2>1, ObjectPathIs
  <2>3. d \in Nat
    BY <1>0
  <2>4. job[p].mode = "link" => \A j \in 1 .. Done(p) : objs[p][j] # n
    BY <1>0, <2>1, ObjectPathIs DEF Objs, UnitObjects, UnitPhases
  <2> HIDE DEF n, d
  <2>5. HoldsNext(n, Part(p, unit[p]))
    BY <1>0, <2>1, ChangedHolds DEF Made
  <2>6. ASSUME NEW k \in 1 .. Done(p) PROVE Kept(k)
    <3>1. CASE objs[p][k] = n
      BY <2>1, <2>2, <2>4, <2>5, <3>1, SameAsPresent DEF Files
    <3>2. CASE objs[p][k] # n
      BY <1>h, <2>1, <3>2, ChangedHolds
    <3> QED BY <3>1, <3>2
  <2>7. n \in ObjectName
    BY <1>0, <2>2, <2>3, ObjectNames
  <2> QED BY <1>b, <2>1, <2>5, <2>6, <2>7
<1>4. CASE Miss(p)
  <2> DEFINE D == IF Input(p).direct THEN {ObjectPath(p)} ELSE {}
             e == Made(p, UnitPart(p))
  <2>1. /\ pc[p] = "unit" /\ pc'[p] = (IF Input(p).direct THEN "assemble" ELSE "front") /\ obj'[p] = ObjectPath(p)
        /\ objs'[p] = objs[p] /\ unit'[p] = unit[p] /\ Changed({}, D, e)
    BY <1>4, MissIs, MissDisk
  <2>2. Done(p)' = Done(p)
    BY <1>0, <2>1 DEF Done, UnitPhases
  <2>3. D # {} => pc'[p] = "assemble"
    BY <2>1
  <2>4. D \subseteq {ObjectPath(p)}
    OBVIOUS
  <2> HIDE DEF D, e
  <2>5. ASSUME Objects(p), NEW k \in 1 .. Done(p)' PROVE Remains(k)
    <3>1. CASE objs[p][k] \in D
      BY <2>1, <2>3, <2>4, <3>1 DEF Remains
    <3>2. CASE objs[p][k] \notin D
      <4>1. HoldsNext(objs[p][k], Part(p, k))
        BY <1>h, <2>1, <2>2, <2>5, <3>2, ChangedHolds
      <4> QED BY <2>1, <4>1 DEF Remains
    <3> QED BY <3>1, <3>2
  <2> QED BY <1>g, <2>5
<1>5. CASE Emit(p)
  <2> DEFINE D == IF job[p].assembler = "nazm" THEN {obj[p]} ELSE {}
             e == Made(p, UnitPart(p))
  <2>1. CASE job[p].mode = "assembly"
    BY <1>1, <2>1 DEF Objects
  <2>2. CASE job[p].mode # "assembly"
    <3>1. /\ pc[p] = "codegen" /\ pc'[p] = "assemble" /\ obj'[p] = obj[p] /\ objs'[p] = objs[p] /\ unit'[p] = unit[p]
          /\ Changed(Sources(p), D, e)
      BY <1>5, <2>2, EmitIs, EmitDisk
    <3>2. Done(p)' = Done(p)
      BY <1>0, <3>1 DEF Done, UnitPhases
    <3>3. \A n \in Sources(p) : n[1] \in {"gas", "nazm", "map"}
      BY <2>2, <3>1, SourcePathIs DEF Sources, MapOf
    <3>4. D \subseteq {obj[p]}
      OBVIOUS
    <3> HIDE DEF D, e
    <3>5. ASSUME Objects(p), NEW k \in 1 .. Done(p)' PROVE Remains(k)
      <4>1. CASE objs[p][k] \in D
        BY <3>1, <3>4, <4>1 DEF Remains
      <4>2. CASE objs[p][k] \notin D
        <5>1. objs[p][k] \notin Sources(p)
          BY <1>k, <3>1, <3>2, <3>3, <3>5
        <5>2. HoldsNext(objs[p][k], Part(p, k))
          BY <1>h, <3>1, <3>2, <3>5, <4>2, <5>1, ChangedHolds
        <5> QED BY <3>1, <5>2 DEF Remains
      <4> QED BY <4>1, <4>2
    <3> QED BY <1>g, <3>5
  <2> QED BY <2>1, <2>2
<1>6. CASE Assemble(p)
  <2> DEFINE e == Made(p, IF Input(p).direct THEN UnitPart(p) ELSE disk[src[p]].of)
  <2>1. /\ pc[p] = "assemble" /\ pc'[p] = "assembled" /\ objs'[p] = objs[p] /\ unit'[p] = unit[p] /\ Objects(p)
        /\ Changed({obj[p]}, {}, e)
    BY <1>6, AssembleIs, AssembleDisk DEF Shape, Assembling
  <2>2. Done(p)' = Done(p)
    BY <1>0, <2>1 DEF Done, UnitPhases
  <2>3. e.of = Part(p, unit[p])
    BY <1>0, <2>1 DEF Files, PresentHolds, Holds, Made
  <2>4. HoldsNext(obj[p], Part(p, unit[p]))
    BY <2>1, <2>3, ChangedHolds
  <2>5. ObjectOf(p, unit[p], obj[p], count[p]) /\ (job[p].mode = "link" => \A j \in 1 .. Done(p) : objs[p][j] # obj[p])
    BY <2>1 DEF Objs, Present, AfterMiss
  <2> HIDE DEF e
  <2>6. ASSUME NEW k \in 1 .. Done(p) PROVE Kept(k)
    <3>1. CASE objs[p][k] = obj[p]
      BY <2>1, <2>4, <2>5, <3>1, SameAsPresent DEF Files
    <3>2. CASE objs[p][k] # obj[p]
      <4>1. Holds(objs[p][k], Part(p, k))
        BY <2>1, <3>2 DEF Files, ObjectsHold
      <4> QED BY <2>1, <3>2, <4>1, ChangedHolds
    <3> QED BY <3>1, <3>2
  <2>7. \A k \in 1 .. Done(p)' : Remains(k)
    BY <2>1, <2>2, <2>6 DEF Remains
  <2> QED BY <1>g, <2>7
<1>7. CASE Record(p)
  <2> DEFINE e == Made(p, UnitPart(p))
  <2>1. /\ pc[p] = "assembled" /\ Objects(p) /\ objs'[p] = Append(objs[p], obj[p]) /\ Advances(p)
        /\ Changed({}, Spent(p), e)
    BY <1>7, RecordIs, RecordDisk DEF Shape, Assembling
  <2>2. ObjectOf(p, unit[p], obj[p], count[p])
    BY <2>1 DEF Objs, Present, AfterMiss
  <2>3. obj[p] \in ObjectName /\ obj[p][1] \in {"out", "o", "unit", "obj"}
    BY <1>0, <2>2, ObjectNames
  <2>4. \A n \in Spent(p) : n[1] \in {"gas", "nazm", "map"}
    BY <2>1, CommandLineIs DEF Spent, Objs, Present, Assembling, MapOf, Shape, Input
  <2> HIDE DEF e
  <2>5. HoldsNext(obj[p], Part(p, unit[p]))
    <3>1. Holds(obj[p], Part(p, unit[p]))
      BY <2>1 DEF Files, PresentHolds
    <3>2. obj[p] \notin Spent(p)
      BY <2>3, <2>4
    <3> QED BY <2>1, <3>1, <3>2, ChangedHolds
  <2>6. ASSUME NEW k \in 1 .. Done(p) PROVE Kept(k)
    <3>1. objs[p][k] \notin Spent(p)
      BY <1>k, <2>1, <2>4
    <3> QED BY <1>h, <2>1, <3>1, ChangedHolds
  <2> QED BY <1>b, <2>1, <2>3, <2>5, <2>6
<1>8. CASE WriteStartup(p) \/ AssembleStartup(p) \/ Link(p)
  <2>1. /\ pc[p] \in {"startup", "startup source", "link"} /\ pc'[p] \notin UnitPhases /\ objs'[p] = objs[p]
        /\ job[p].mode = "link"
    BY <1>8, WriteStartupIs, AssembleStartupIs, LinkIs DEF Shape, StartupPhases, UnitPhases
  <2>2. Done(p)' = Done(p)
    BY <1>0, <2>1 DEF Done, UnitPhases
  <2>3. /\ StartupSource(p)[1] = "startup source" /\ StartupObject(p)[1] = "startup object"
        /\ <<"out", job[p].out>>[1] = "out"
    BY DEF StartupSource, StartupObject
  <2>4. Objects(p) => \A k \in 1 .. Done(p) : objs[p][k] \notin {StartupSource(p), StartupObject(p), <<"out", job[p].out>>}
    BY <1>k, <2>1, <2>3
  <2>5. CASE WriteStartup(p)
    <3> DEFINE e == Made(p, StartupPart(p))
    <3>1. Changed({StartupSource(p)}, {StartupObject(p)}, e)
      BY <2>5, WriteStartupDisk
    <3> HIDE DEF e
    <3> QED BY <1>a, <2>1, <2>2, <2>4, <3>1
  <2>6. CASE AssembleStartup(p)
    <3> DEFINE e == Made(p, disk[StartupSource(p)].of)
    <3>1. Changed({StartupObject(p)}, {}, e)
      BY <2>6, AssembleStartupDisk
    <3> HIDE DEF e
    <3> QED BY <1>a, <2>1, <2>2, <2>4, <3>1
  <2>7. CASE Link(p)
    <3> DEFINE e == Made(p, Linked(p))
               n == <<"out", job[p].out>>
    <3>1. Changed({n}, {}, e)
      BY <2>7, LinkDisk
    <3>2. Objects(p) => \A k \in 1 .. Done(p) : objs[p][k] # n
      BY <2>4
    <3> HIDE DEF e, n
    <3> QED BY <1>a, <2>1, <2>2, <3>1, <3>2
  <2> QED BY <1>8, <2>5, <2>6, <2>7
<1>9. CASE EndStartup(p)
  <2> DEFINE e == Made(p, StartupPart(p))
  <2>1. /\ pc[p] = "startup object" /\ pc'[p] = "manifest" /\ objs'[p] = Append(objs[p], StartupObject(p))
        /\ job[p].mode = "link" /\ Objects(p) /\ Changed({}, SpentStartup(p), e)
    BY <1>9, EndStartupIs, EndStartupDisk DEF Shape, StartupPhases, Objects
  <2>2. Done(p)' = Done(p) /\ Len(objs[p]) = Done(p)
    BY <1>0, <2>1 DEF Done, UnitPhases, Objs, Counted, Count, LinkPhases
  <2>3. StartupObject(p) \in ObjectName
    BY CommandLineIs, ObjectNameHas DEF StartupObject
  <2>4. \A k \in 1 .. Done(p) : objs'[p][k] = objs[p][k]
    <3>1. \A k \in 1 .. Len(objs[p]) : Append(objs[p], StartupObject(p))[k] = objs[p][k]
      BY <1>0, <2>3, AppendKeeps
    <3> QED BY <2>1, <2>2, <3>1
  <2>5. \A n \in SpentStartup(p) : n[1] = "startup source"
    <3>1. StartupSource(p)[1] = "startup source"
      BY DEF StartupSource
    <3> QED BY <3>1 DEF SpentStartup
  <2> HIDE DEF e
  <2>6. ASSUME NEW k \in 1 .. Done(p) PROVE Kept(k)
    <3>1. objs[p][k] \notin SpentStartup(p)
      BY <1>k, <2>1, <2>5
    <3>2. Holds(objs[p][k], Part(p, k))
      BY <1>h, <2>1
    <3>3. Changed({}, SpentStartup(p), e)
      BY <2>1
    <3>4. HoldsNext(objs[p][k], Part(p, k))
      BY <3>1, <3>2, <3>3, ChangedHolds
    <3> QED BY <3>4
  <2>7. \A k \in 1 .. Done(p)' : Remains(k)
    BY <2>2, <2>4, <2>6 DEF Remains
  <2> QED BY <1>g, <2>7
<1>10. CASE Fails(p) \/ CleanUp(p)
  BY <1>1, <1>10, CleanUpIs DEF Fails
<1> QED BY <1>2, <1>3, <1>4, <1>5, <1>6, <1>7, <1>8, <1>9, <1>10, StepCases

LEMMA SourcesHoldStep ==
  ASSUME NEW p \in Process, Types, Makers, Shape(p), Objs(p), Files(p), Step(p)
  PROVE  SourcesHold(p)'
<1> DEFINE S(k) == SourceOf(p, k)
           Has(k) == /\ HoldsNext(S(k), Part(p, k))
                     /\ job[p].assembler = "nazm" => HoldsNext(MapOf(S(k)), Part(p, k))
<1>0. /\ UNCHANGED job /\ unit[p] \in 1 .. Len(job[p].inputs) /\ Len(job[p].inputs) \in Nat
      /\ (pc[p] \in UnitPhases => Done(p) = unit[p] - 1)
      /\ (\A k : Part(p, k)' = Part(p, k) /\ SourceOf(p, k)' = SourceOf(p, k)) /\ UnitPart(p) = Part(p, unit[p])
      /\ DOMAIN job[p].inputs = 1 .. Len(job[p].inputs) /\ job[p].assembler \in {"gas", "nazm"}
  BY OthersUnmoved, CommandLineIs DEF Shape, Done, Part, SourceOf, Single, SourceKind, UnitPart, Input
<1>g. (pc'[p] # "end" /\ job[p].mode = "assembly" => \A k \in 1 .. Done(p)' : Has(k)) => SourcesHold(p)'
  BY <1>0 DEF SourcesHold, HoldsNext, Holds, MapOf
<1>1. CASE pc'[p] = "end" \/ job[p].mode # "assembly"
  BY <1>1, <1>g
<1>2. CASE disk' = disk /\ Done(p)' = Done(p) /\ pc[p] # "end"
  <2>1. job[p].mode = "assembly" => \A k \in 1 .. Done(p)' : Has(k)
    BY <1>2 DEF Files, SourcesHold, Holds, HoldsNext
  <2> QED BY <1>g, <2>1
<1>3. CASE Emit(p) /\ job[p].mode = "assembly"
  <2> DEFINE D == IF job[p].assembler = "nazm" THEN {obj[p]} ELSE {}
             e == Made(p, UnitPart(p))
  <2>1. pc[p] = "codegen" /\ Advances(p) /\ Changed(Sources(p), D, e) /\ e.of = Part(p, unit[p])
    BY <1>0, <1>3, EmitIs, EmitDisk DEF Made
  <2>2. /\ Sources(p) = {S(unit[p])} \cup (IF job[p].assembler = "gas" THEN {} ELSE {MapOf(S(unit[p]))})
    BY <1>3, <2>1, SourcePathIs DEF Sources
  <2>3. D \subseteq {NoObject}
    BY <1>3, <2>1 DEF Objs, Present, AfterMiss, Objects, NoObject
  <2>4. \A k \in 1 .. Len(job[p].inputs) : S(k) # NoObject /\ MapOf(S(k)) # NoObject
    <3>1. \A k \in 1 .. Len(job[p].inputs) : Named(p, S(k)) /\ Named(p, MapOf(S(k)))
      BY <1>3, SourcesNamed
    <3>2. NoObject[1] = "no object"
      BY DEF NoObject
    <3>3. ~Named(p, NoObject)
      BY <3>2 DEF Named, Plain
    <3> QED BY <3>1, <3>3
  <2> HIDE DEF D, e
  <2>5. Has(unit[p])
    <3>1. /\ S(unit[p]) \in Sources(p) \ D
          /\ job[p].assembler = "nazm" => MapOf(S(unit[p])) \in Sources(p) \ D
      BY <1>0, <2>2, <2>3, <2>4
    <3> HIDE DEF S
    <3>2. \A n \in Sources(p) \ D : HoldsNext(n, Part(p, unit[p]))
      BY <2>1 DEF Changed, HoldsNext
    <3> QED BY <3>1, <3>2
  <2>6. ASSUME NEW k \in 1 .. Done(p) PROVE Has(k)
    <3>1. /\ Holds(S(k), Part(p, k)) /\ (job[p].assembler = "nazm" => Holds(MapOf(S(k)), Part(p, k)))
          /\ k \in 1 .. Len(job[p].inputs)
      BY <1>0, <1>3, <2>1 DEF Files, SourcesHold, UnitPhases
    <3>2. CASE S(k) = S(unit[p])
      <4>1. Part(p, k) = Part(p, unit[p])
        <5>1. Done(p) = unit[p] - 1
          BY <1>0, <2>1 DEF UnitPhases
        <5>3. unit[p] \in 1 .. Len(job[p].inputs) /\ Len(job[p].inputs) \in Nat /\ 1 <= k /\ k <= unit[p] - 1
          BY <1>0, <5>1
        <5>2. ASSUME Single(p) PROVE FALSE
          <6>1. unit[p] = 1
            BY <5>2, <5>3 DEF Single
          <6> QED BY <5>3, <6>1
        <5>4. job[p].inputs[k].base = job[p].inputs[unit[p]].base
          BY <3>2, <5>2 DEF SourceOf
        <5>5. k = unit[p]
          BY <1>0, <1>3, <3>1, <5>3, <5>4 DEF Files, OneEach
        <5> QED BY <5>5
      <4> QED BY <2>5, <3>2, <4>1
    <3>3. CASE S(k) # S(unit[p])
      <4>1. S(k) \notin Sources(p) \cup D
        <5>1. ~Single(p)
          BY <3>3 DEF SourceOf
        <5>2. S(k)[1] = SourceKind(p) /\ MapOf(S(unit[p]))[1] = "map"
          BY <5>1 DEF SourceOf, MapOf
        <5>3. S(k) # MapOf(S(unit[p]))
          BY <5>2 DEF SourceKind
        <5> QED BY <2>2, <2>3, <2>4, <3>1, <3>3, <5>3
      <4>2. job[p].assembler = "nazm" => MapOf(S(k)) \notin Sources(p) \cup D
        <5>1. ~Single(p)
          BY <3>3 DEF SourceOf
        <5>2. S(unit[p])[1] = SourceKind(p) /\ MapOf(S(k))[1] = "map" /\ MapOf(S(k))[2] = S(k)
              /\ MapOf(S(unit[p]))[2] = S(unit[p])
          BY <5>1 DEF SourceOf, MapOf
        <5>3. MapOf(S(k)) # S(unit[p]) /\ MapOf(S(k)) # MapOf(S(unit[p]))
          BY <3>3, <5>2 DEF SourceKind
        <5> QED BY <2>2, <2>3, <2>4, <3>1, <5>3
      <4> QED BY <2>1, <3>1, <4>1, <4>2, ChangedHolds
    <3> QED BY <3>2, <3>3
  <2>7. \A k \in 1 .. Done(p)' : k = unit[p] \/ k \in 1 .. Done(p)
    BY <1>0, <2>1, AdvancesIs DEF UnitPhases
  <2> QED BY <1>g, <2>5, <2>6, <2>7
<1> HIDE DEF S, Has
<1>4. CASE Begin(p) \/ Lower(p)
  <2>1. CASE pc'[p] = "end"
    BY <1>1, <2>1
  <2>2. CASE pc'[p] # "end"
    <3>1. pc[p] \in {"begin", "front"} /\ pc'[p] \in {"unit", "codegen"} /\ unit'[p] = unit[p] /\ disk' = disk
      BY <1>4, <2>2, BeginIs, LowerIs, BeginDisk DEF Fails
    <3>2. Done(p)' = Done(p)
      BY <3>1 DEF Done, UnitPhases
    <3> QED BY <1>2, <3>1, <3>2
  <2> QED BY <2>1, <2>2
<1>5. CASE Miss(p) /\ job[p].mode = "assembly"
  <2>1. /\ pc[p] = "unit" /\ pc'[p] = (IF Input(p).direct THEN "assemble" ELSE "front") /\ unit'[p] = unit[p]
    BY <1>5, MissIs
  <2>2. ~Input(p).direct
    BY <1>0, <1>5, <2>1 DEF Shape, HasDirect, Objects, Input
  <2>3. disk' = disk
    BY <1>5, <2>2 DEF Miss
  <2>4. Done(p)' = Done(p)
    BY <2>1, <2>2 DEF Done, UnitPhases
  <2> QED BY <1>2, <2>1, <2>3, <2>4
<1>6. CASE job[p].mode = "assembly"
  <2>1. ~Reuse(p) /\ ~Checked(p) /\ ~Assemble(p) /\ ~Record(p) /\ ~WriteStartup(p) /\ ~AssembleStartup(p)
        /\ ~EndStartup(p) /\ ~Link(p) /\ ~CleanUp(p)
    BY <1>6 DEF Reuse, Checked, Assemble, Record, WriteStartup, AssembleStartup, EndStartup, Link, CleanUp, At, Shape,
       Objects, Assembling, StartupPhases
  <2>2. WriteManifest(p) \/ Fails(p) => pc'[p] = "end"
    BY <1>6, WriteManifestIs DEF Fails
  <2> QED BY <1>1, <1>3, <1>4, <1>5, <1>6, <2>1, <2>2, StepCases
<1> QED BY <1>1, <1>6

LEMMA PresentHoldsStep ==
  ASSUME NEW p \in Process, Types, Makers, Shape(p), Objs(p), Files(p), Step(p)
  PROVE  PresentHolds(p)'
<1>0. /\ UNCHANGED job /\ UnitPart(p) = Part(p, unit[p])
      /\ (\A k : Part(p, k)' = Part(p, k))
  BY OthersUnmoved DEF Part, UnitPart, Input
<1>1. CASE Miss(p)
  <2>1. pc'[p] = (IF Input(p).direct THEN "assemble" ELSE "front") /\ unit'[p] = unit[p]
    BY <1>1, MissIs
  <2> QED BY <1>0, <2>1 DEF PresentHolds, Input
<1>2. CASE Emit(p)
  <2> DEFINE D == IF job[p].assembler = "nazm" THEN {obj[p]} ELSE {}
             e == Made(p, UnitPart(p))
  <2>1. CASE job[p].mode = "assembly"
    <3>1. pc'[p] \in {"unit", "manifest"}
      BY <1>2, <2>1, EmitIs DEF Advances
    <3> QED BY <3>1 DEF PresentHolds
  <2>2. CASE job[p].mode # "assembly"
    <3>1. /\ pc[p] = "codegen" /\ pc'[p] = "assemble" /\ unit'[p] = unit[p] /\ src'[p] = SourcePath(p)
          /\ Changed(Sources(p), D, e) /\ e.of = Part(p, unit[p])
      BY <1>0, <1>2, <2>2, EmitIs, EmitDisk DEF Made
    <3>2. SourcePath(p)[1] \in {"gas", "nazm"}
      BY <2>2, <3>1, SourcePathIs
    <3>3. obj[p][1] \in {"out", "o", "unit", "obj", "no object"}
      <4>1. CASE Objects(p)
        BY <3>1, <4>1, ObjectNames DEF Objs, Present, AfterMiss, Shape
      <4>2. CASE ~Objects(p)
        <5>1. obj[p] = NoObject
          BY <3>1, <4>2 DEF Objs, Present, AfterMiss, NoObject
        <5>2. NoObject[1] = "no object"
          BY DEF NoObject
        <5> QED BY <5>1, <5>2
      <4> QED BY <4>1, <4>2
    <3>4. SourcePath(p) \in Sources(p) \ D
      BY <3>2, <3>3 DEF Sources
    <3> HIDE DEF D, e
    <3>5. HoldsNext(SourcePath(p), Part(p, unit[p]))
      BY <3>1, <3>4, ChangedHolds
    <3> QED BY <1>0, <3>1, <3>5 DEF PresentHolds, Holds, HoldsNext
  <2> QED BY <2>1, <2>2
<1>3. CASE Assemble(p)
  <2> DEFINE e == Made(p, IF Input(p).direct THEN UnitPart(p) ELSE disk[src[p]].of)
  <2>1. /\ pc[p] = "assemble" /\ pc'[p] = "assembled" /\ unit'[p] = unit[p] /\ obj'[p] = obj[p]
        /\ Changed({obj[p]}, {}, e)
    BY <1>3, AssembleIs, AssembleDisk
  <2>2. e.of = Part(p, unit[p])
    BY <1>0, <2>1 DEF Files, PresentHolds, Holds, Made
  <2> HIDE DEF e
  <2>3. HoldsNext(obj[p], Part(p, unit[p]))
    BY <2>1, <2>2 DEF Changed, Holds, HoldsNext
  <2> QED BY <1>0, <2>1, <2>3 DEF PresentHolds, Holds, HoldsNext
<1>4. CASE ~(Miss(p) \/ Emit(p) \/ Assemble(p))
  <2>1. pc'[p] \notin Assembling
    <3>1. Fails(p) \/ Begin(p) \/ Reuse(p) \/ Checked(p) \/ Lower(p) => pc'[p] \notin Assembling
      BY BeginIs, ReuseIs, CheckedIs, LowerIs DEF Fails, Advances, Assembling
    <3>2. Record(p) \/ WriteStartup(p) \/ AssembleStartup(p) \/ EndStartup(p) => pc'[p] \notin Assembling
      BY RecordIs, WriteStartupIs, AssembleStartupIs, EndStartupIs DEF Advances, Assembling
    <3>3. WriteManifest(p) \/ Link(p) \/ CleanUp(p) => pc'[p] \notin Assembling
      BY WriteManifestIs, LinkIs, CleanUpIs DEF Assembling
    <3> QED BY <1>4, <3>1, <3>2, <3>3, StepCases
  <2> QED BY <2>1 DEF PresentHolds, Assembling
<1> QED BY <1>1, <1>2, <1>3, <1>4

\* What is linked: every unit, and the startup code after them.
LEMMA LinkedIs ==
  ASSUME NEW p \in Process, Types, Shape(p), Objs(p), Files(p), pc[p] = "link"
  PROVE  Linked(p) = Append(Units(p), StartupPart(p))
<1> DEFINE N == Len(job[p].inputs)
           L == Append(Units(p), StartupPart(p))
           Parts == {StartupPart(p)} \cup {Part(p, k) : k \in 1 .. N}
<1>0. N \in Nat /\ DOMAIN job[p].inputs = 1 .. N /\ job[p].mode = "link" /\ Objects(p)
  BY CommandLineIs DEF Shape, Objects
<1>1. Len(objs[p]) = N + 1 /\ DOMAIN objs[p] = 1 .. (N + 1)
  BY <1>0 DEF Objs, Counted, Count, Done, UnitPhases, LinkPhases, Shape
<1>2. \A k \in 1 .. N : disk[objs[p][k]].of = Part(p, k)
  BY <1>0 DEF Files, ObjectsHold, Holds, Done, UnitPhases
<1>3. disk[objs[p][N + 1]].of = StartupPart(p)
  BY <1>0 DEF Objs, StartupLast, LinkPhases, Files, StartupHolds, Holds
<1>4. Units(p) = [k \in 1 .. N |-> Part(p, k)]
  BY <1>0 DEF Units, Part
<1>5. Units(p) \in Seq(Parts) /\ Len(Units(p)) = N
  BY <1>0, <1>4
<1>6. /\ L \in Seq(Parts) /\ Len(L) = N + 1 /\ L[N + 1] = StartupPart(p)
      /\ \A k \in 1 .. N : L[k] = Units(p)[k]
  <2>1. StartupPart(p) \in Parts
    OBVIOUS
  <2> HIDE DEF Parts
  <2>2. /\ L \in Seq(Parts) /\ Len(L) = Len(Units(p)) + 1 /\ L[Len(Units(p)) + 1] = StartupPart(p)
        /\ \A k \in 1 .. Len(Units(p)) : L[k] = Units(p)[k]
    BY <1>5, <2>1, AppendKeeps
  <2> QED BY <1>5, <2>2
<1>7. DOMAIN L = 1 .. (N + 1) /\ L = [k \in DOMAIN L |-> L[k]]
  <2> HIDE DEF L, Parts
  <2> QED BY <1>6
<1>8. \A k \in 1 .. (N + 1) : disk[objs[p][k]].of = L[k]
  <2> HIDE DEF L
  <2>1. \A k \in 1 .. (N + 1) : k = N + 1 \/ k \in 1 .. N
    BY <1>0
  <2>2. \A k \in 1 .. N : L[k] = Part(p, k)
    BY <1>4, <1>6
  <2> QED BY <1>2, <1>3, <1>6, <2>1, <2>2
<1>9. Linked(p) = [k \in 1 .. (N + 1) |-> disk[objs[p][k]].of]
  BY <1>1 DEF Linked
<1> HIDE DEF L
<1>10. Linked(p) = L
  BY <1>7, <1>8, <1>9
<1> QED BY <1>10 DEF L

LEMMA StartupHoldsStep ==
  ASSUME NEW p \in Process, Types, Makers, Shape(p), Objs(p), Files(p), Step(p)
  PROVE  StartupHolds(p)'
<1>0. /\ UNCHANGED job /\ StartupSource(p)' = StartupSource(p) /\ StartupObject(p)' = StartupObject(p)
      /\ StartupPart(p)' = StartupPart(p) /\ Units(p)' = Units(p)
  BY OthersUnmoved DEF StartupSource, StartupObject, StartupPart, Units
<1>n. StartupSource(p) # StartupObject(p)
  BY DEF StartupSource, StartupObject
<1>1. CASE WriteStartup(p)
  <2> DEFINE e == Made(p, StartupPart(p))
  <2>1. pc'[p] = "startup source" /\ Changed({StartupSource(p)}, {StartupObject(p)}, e) /\ e.of = StartupPart(p)
    BY <1>1, WriteStartupIs, WriteStartupDisk DEF Made
  <2> HIDE DEF e
  <2>2. HoldsNext(StartupSource(p), StartupPart(p))
    BY <1>n, <2>1 DEF Changed, Holds, HoldsNext
  <2> QED BY <1>0, <2>1, <2>2 DEF StartupHolds, Holds, HoldsNext
<1>2. CASE AssembleStartup(p)
  <2> DEFINE e == Made(p, disk[StartupSource(p)].of)
  <2>1. /\ pc[p] = "startup source" /\ pc'[p] = "startup object" /\ Changed({StartupObject(p)}, {}, e)
        /\ e.of = disk[StartupSource(p)].of
    BY <1>2, AssembleStartupIs, AssembleStartupDisk DEF Made
  <2>2. e.of = StartupPart(p)
    BY <2>1 DEF Files, StartupHolds, Holds
  <2> HIDE DEF e
  <2>3. HoldsNext(StartupObject(p), StartupPart(p))
    BY <2>1, <2>2 DEF Changed, Holds, HoldsNext
  <2> QED BY <1>0, <2>1, <2>3 DEF StartupHolds, Holds, HoldsNext
<1>3. CASE EndStartup(p)
  <2> DEFINE e == Made(p, StartupPart(p))
  <2>1. pc[p] = "startup object" /\ pc'[p] = "manifest" /\ Changed({}, SpentStartup(p), e)
    BY <1>3, EndStartupIs, EndStartupDisk
  <2>2. Holds(StartupObject(p), StartupPart(p)) /\ StartupObject(p) \notin SpentStartup(p)
    BY <1>n, <2>1 DEF Files, StartupHolds, SpentStartup
  <2> HIDE DEF e
  <2>3. HoldsNext(StartupObject(p), StartupPart(p))
    BY <2>1, <2>2 DEF Changed, Holds, HoldsNext
  <2> QED BY <1>0, <2>1, <2>3 DEF StartupHolds, Holds, HoldsNext
<1>4. CASE WriteManifest(p)
  <2>1. /\ pc[p] = "manifest" /\ disk' = disk /\ pc'[p] \in {"link", "end"}
    BY <1>4, WriteManifestIs, BeginDisk
  <2> QED BY <1>0, <2>1 DEF Files, StartupHolds, Holds
<1>5. CASE Link(p)
  <2> DEFINE e == Made(p, Linked(p))
             n == <<"out", job[p].out>>
  <2>1. pc[p] = "link" /\ pc'[p] = "linked" /\ Changed({n}, {}, e)
    BY <1>5, LinkIs, LinkDisk
  <2>2. e.of = Append(Units(p), StartupPart(p))
    BY <2>1, LinkedIs DEF Made
  <2>3. HoldsNext(n, Append(Units(p), StartupPart(p)))
    <3> HIDE DEF e, n
    <3> QED BY <2>1, <2>2 DEF Changed, HoldsNext
  <2> QED BY <1>0, <2>1, <2>3 DEF StartupHolds, Holds, HoldsNext
<1>6. CASE ~(WriteStartup(p) \/ AssembleStartup(p) \/ EndStartup(p) \/ WriteManifest(p) \/ Link(p))
  <2>1. /\ pc'[p] \notin {"startup source", "startup object", "link", "linked"}
        /\ pc'[p] = "manifest" => job[p].mode # "link"
    <3> DEFINE G == /\ pc'[p] \notin {"startup source", "startup object", "link", "linked"}
                    /\ pc'[p] = "manifest" => job[p].mode # "link"
    <3>1. Fails(p) \/ Begin(p) \/ CleanUp(p) => G
      BY BeginIs, CleanUpIs DEF Fails
    <3>2. Reuse(p) \/ Checked(p) \/ Record(p) => G
      BY ReuseIs, CheckedIs, RecordIs DEF Advances
    <3>3. Miss(p) \/ Lower(p) \/ Assemble(p) => G
      BY MissIs, LowerIs, AssembleIs
    <3>4. Emit(p) => G
      BY EmitIs DEF Advances
    <3> HIDE DEF G
    <3>5. G
      BY <1>6, <3>1, <3>2, <3>3, <3>4, StepCases
    <3> QED BY <3>5 DEF G
  <2> QED BY <1>0, <2>1 DEF StartupHolds
<1> QED BY <1>1, <1>2, <1>3, <1>4, <1>5, <1>6

LEMMA DeliveredStep ==
  ASSUME NEW p \in Process, Types, Makers, Shape(p), Objs(p), Files(p), Step(p), exit'[p] = Success
  PROVE  DeliveredBy(p)'
<1> DEFINE N == Len(job[p].inputs)
           Out == <<"out", job[p].out>>
<1>0. /\ UNCHANGED job /\ (exit[p] = Running <=> pc[p] # "end") /\ N \in Nat /\ DOMAIN job[p].inputs = 1 .. N
      /\ job[p].mode \in {"link", "compile", "assembly", "check"}
      /\ Requested(p)' = Requested(p) /\ Units(p)' = Units(p) /\ StartupPart(p)' = StartupPart(p)
  BY OthersUnmoved, CommandLineIs, RequestedStays DEF Shape, Units, StartupPart
<1>u. DOMAIN Units(p) = 1 .. N /\ \A k \in 1 .. N : Units(p)[k] = Part(p, k)
  BY <1>0 DEF Units, Part
<1>1. \/ WriteManifest(p) /\ job[p].mode # "link" /\ pc[p] = "manifest"
      \/ CleanUp(p) /\ pc[p] = "linked"
  <2> DEFINE G == exit'[p] # Success
  <2>1. Running # Success
    BY DEF Running, Success
  <2>2. pc[p] # "end" => exit[p] # Success
    BY <1>0, <2>1
  <2>3. Fails(p) \/ Begin(p) \/ Reuse(p) \/ Miss(p) \/ Checked(p) \/ Lower(p) => G
    BY <2>2, BeginIs, ReuseIs, MissIs, CheckedIs, LowerIs DEF Fails
  <2>4. Emit(p) \/ Assemble(p) \/ Record(p) \/ WriteStartup(p) \/ AssembleStartup(p) \/ EndStartup(p) \/ Link(p) => G
    BY <2>2, EmitIs, AssembleIs, RecordIs, WriteStartupIs, AssembleStartupIs, EndStartupIs, LinkIs
  <2>5. WriteManifest(p) /\ job[p].mode = "link" => G
    BY <2>2, WriteManifestIs
  <2>6. (WriteManifest(p) => pc[p] = "manifest") /\ (CleanUp(p) => pc[p] = "linked")
    BY WriteManifestIs, CleanUpIs
  <2> QED BY <2>3, <2>4, <2>5, <2>6, StepCases
<1>2. CASE WriteManifest(p) /\ job[p].mode # "link" /\ pc[p] = "manifest"
  <2>1. disk' = disk /\ Done(p) = N
    BY <1>2, BeginDisk DEF Done, UnitPhases
  <2> DEFINE Parts == {disk[n].of : n \in Requested(p)}
  <2>2. CASE job[p].mode = "compile"
    <3>1. \A k \in 1 .. N : Holds(objs[p][k], Part(p, k)) /\ ObjectOf(p, k, objs[p][k], count[p])
      BY <1>2, <2>1, <2>2 DEF Files, ObjectsHold, Objs, UnitObjects, Objects
    <3>2. ASSUME NEW n \in Requested(p)
          PROVE  \E k \in 1 .. N : n = objs[p][k]
      <4>1. PICK k \in 1 .. N : \A c : ObjectOf(p, k, n, c)
        BY <2>2, RequestedHas
      <4>2. ObjectOf(p, k, n, count[p]) /\ ObjectOf(p, k, objs[p][k], count[p])
        BY <3>1, <4>1
      <4>3. n = objs[p][k]
        BY <2>2, <4>2 DEF ObjectOf
      <4> QED BY <4>3
    <3>3. \A k \in 1 .. N : objs[p][k] \in Requested(p)
      BY <2>2, <3>1, RequestedHas
    <3>4. Requested(p) \subseteq DOMAIN disk
      BY <3>1, <3>2 DEF Holds
    <3>5. Parts = ToSet(Units(p))
      <4>1. ASSUME NEW n \in Requested(p) PROVE \E k \in 1 .. N : disk[n].of = Units(p)[k]
        BY <1>u, <3>1, <3>2 DEF Holds
      <4>2. ASSUME NEW k \in 1 .. N PROVE \E n \in Requested(p) : Units(p)[k] = disk[n].of
        BY <1>u, <3>1, <3>3 DEF Holds
      <4>3. \A x : x \in Parts <=> \E n \in Requested(p) : x = disk[n].of
        OBVIOUS
      <4>4. \A x : x \in ToSet(Units(p)) <=> \E k \in 1 .. N : x = Units(p)[k]
        BY <1>u DEF ToSet
      <4> HIDE DEF Parts
      <4>5. \A x : x \in Parts <=> x \in ToSet(Units(p))
        BY <4>1, <4>2, <4>3, <4>4
      <4> QED BY <4>5
    <3> QED BY <1>0, <2>1, <2>2, <3>4, <3>5 DEF DeliveredBy, Names
  <2>3. CASE job[p].mode = "assembly"
    <3>1. \A k \in 1 .. N : /\ Holds(SourceOf(p, k), Part(p, k))
                            /\ job[p].assembler = "nazm" => Holds(MapOf(SourceOf(p, k)), Part(p, k))
      BY <1>2, <2>1, <2>3 DEF Files, SourcesHold
    <3>2. /\ \A k \in 1 .. N : SourceOf(p, k) \in Requested(p)
          /\ \A n \in Requested(p) : \E k \in 1 .. N :
               n = SourceOf(p, k) \/ (job[p].assembler = "nazm" /\ n = MapOf(SourceOf(p, k)))
      BY <2>3, RequestedSources
    <3>3. \A n \in Requested(p) : \E k \in 1 .. N : Holds(n, Part(p, k))
      BY <3>1, <3>2
    <3>4. Requested(p) \subseteq DOMAIN disk
      BY <3>3 DEF Holds
    <3>5. Parts = ToSet(Units(p))
      <4>1. ASSUME NEW n \in Requested(p) PROVE \E k \in 1 .. N : disk[n].of = Units(p)[k]
        BY <1>u, <3>3 DEF Holds
      <4>2. ASSUME NEW k \in 1 .. N PROVE \E n \in Requested(p) : Units(p)[k] = disk[n].of
        BY <1>u, <3>1, <3>2 DEF Holds
      <4>3. \A x : x \in Parts <=> \E n \in Requested(p) : x = disk[n].of
        OBVIOUS
      <4>4. \A x : x \in ToSet(Units(p)) <=> \E k \in 1 .. N : x = Units(p)[k]
        BY <1>u DEF ToSet
      <4> HIDE DEF Parts
      <4>5. \A x : x \in Parts <=> x \in ToSet(Units(p))
        BY <4>1, <4>2, <4>3, <4>4
      <4> QED BY <4>5
    <3> QED BY <1>0, <2>1, <2>3, <3>4, <3>5 DEF DeliveredBy, Names
  <2>4. CASE job[p].mode = "check"
    <3>1. Requested(p) = {}
      BY <2>4, RequestedHas
    <3> QED BY <1>0, <2>4, <3>1 DEF DeliveredBy
  <2> QED BY <1>0, <1>2, <2>2, <2>3, <2>4
<1>3. CASE CleanUp(p) /\ pc[p] = "linked"
  <2>1. job[p].mode = "link" /\ Objects(p)
    BY <1>3 DEF Shape, Objects
  <2>2. Requested(p) = {Out} /\ Holds(Out, Append(Units(p), StartupPart(p)))
    BY <1>3, <2>1, RequestedHas DEF Files, StartupHolds
  <2>3. ASSUME NEW n \in ToSet(objs[p]) PROVE n # Out
    <3>1. PICK k \in 1 .. Len(objs[p]) : n = objs[p][k]
      BY DEF ToSet, Shape
    <3>2. Done(p) = N /\ Len(objs[p]) = N + 1
      BY <1>3, <2>1 DEF Objs, Counted, Count, Done, UnitPhases, LinkPhases
    <3>3. Out[1] = "out"
      OBVIOUS
    <3>4. CASE k \in 1 .. N
      BY <1>3, <2>1, <3>1, <3>2, <3>3, <3>4, FinishedNames
    <3>5. CASE k = N + 1
      <4>1. n = StartupObject(p) /\ StartupObject(p)[1] = "startup object"
        BY <1>3, <2>1, <3>1, <3>5 DEF Objs, StartupLast, LinkPhases, StartupObject
      <4> QED BY <3>3, <4>1
    <3> QED BY <1>0, <3>1, <3>2, <3>4, <3>5
  <2>4. disk' = IF job[p].verbose THEN disk ELSE Without(disk, ToSet(objs[p]))
    BY <1>3 DEF CleanUp
  <2>5. HoldsNext(Out, Append(Units(p), StartupPart(p)))
    <3> HIDE DEF Out
    <3> QED BY <2>2, <2>3, <2>4 DEF Without, Restrict, Holds, HoldsNext
  <2> QED BY <1>0, <2>1, <2>2, <2>5 DEF DeliveredBy, Names, HoldsNext
<1> QED BY <1>1, <1>2, <1>3

LEMMA FilesStep ==
  ASSUME NEW p \in Process, Types, Makers, Shape(p), Objs(p), Files(p), Step(p)
  PROVE  Files(p)'
<1>1. OneEach(p)'
  BY OthersUnmoved DEF Files, OneEach
<1> QED BY <1>1, ObjectsHoldStep, SourcesHoldStep, PresentHoldsStep, StartupHoldsStep, DeliveredStep DEF Files

-----------------------------------------------------------------------------
(* The invariant.                                                          *)

LEMMA DriverInit == Init => DriverInv
<1> SUFFICES ASSUME Init PROVE DriverInv
  OBVIOUS
<1>1. Types
  <2>1. job \in [Process -> UNION {Jobs[p] : p \in Process}] /\ \A p \in Process : job[p] \in Jobs[p]
    BY DEF Init
  <2>2. \A p \in Process : job[p] \in CommandLine
    BY <2>1, JobsAssumption
  <2>3. job \in [Process -> CommandLine]
    BY <2>1, <2>2
  <2> QED BY <2>3 DEF Init, Types
<1>2. Makers
  BY DEF Init, Makers
<1>3. ASSUME NEW p \in Process PROVE Shape(p) /\ Objs(p) /\ (OwnOutput(p) => Files(p)) /\ Left(p) /\ Registry(p)
  <2>0. /\ pc[p] = "begin" /\ unit[p] = 1 /\ count[p] = 0 /\ objs[p] = <<>> /\ compiled[p] = {} /\ exit[p] = Running
        /\ DOMAIN disk = {} /\ Len(job[p].inputs) \in Nat \ {0}
    BY <1>1, CommandLineIs DEF Init
  <2>1. Done(p) = 0 /\ Running # Success
    BY <2>0 DEF Done, UnitPhases, Running, Success
  <2>2. Shape(p)
    <3>1. 1 \in 1 .. Len(job[p].inputs) /\ <<>> \in Seq(ObjectName)
      BY <2>0
    <3> QED BY <2>0, <3>1 DEF Shape, Phases, Assembling, StartupPhases
  <2>3. Objs(p)
    BY <2>0, <2>1 DEF Objs, Counted, Count, UnitObjects, Distinct, StartupLast, Present, LinkPhases, AfterMiss, Assembling
  <2>4. OwnOutput(p) => Files(p)
    BY <2>0, <2>1 DEF OwnOutput, Files, ObjectsHold, SourcesHold, PresentHolds, StartupHolds
  <2>5. Left(p) /\ Registry(p)
    BY <2>0, <2>1 DEF Left, Registry
  <2> QED BY <2>2, <2>3, <2>4, <2>5
<1> QED BY <1>1, <1>2, <1>3 DEF DriverInv

LEMMA DriverStep == DriverInv /\ [Next]_vars => DriverInv'
<1> SUFFICES ASSUME DriverInv, [Next]_vars PROVE DriverInv'
  OBVIOUS
<1>1. CASE UNCHANGED vars
  <2>1. Types' /\ UNCHANGED job /\ disk' = disk
    BY <1>1 DEF DriverInv, vars, Types
  <2>2. \A p, n : Named(p, n)' <=> Named(p, n)
    BY <2>1 DEF Named, Plain, Requested, Single, SourceKind, MapOf
  <2>3. Makers'
    BY <2>1, <2>2 DEF DriverInv, Makers
  <2>4. ASSUME NEW p \in Process PROVE Shape(p)' /\ Objs(p)' /\ (OwnOutput(p)' => Files(p)') /\ Left(p)' /\ Registry(p)'
    <3>1. Shape(p) /\ Objs(p) /\ Left(p) /\ Registry(p) /\ (OwnOutput(p) => Files(p)) /\ Types /\ Makers
      BY DEF DriverInv
    <3>2. Unmoved(p)
      BY <1>1 DEF Unmoved, vars
    <3>3. Shape(p)' /\ Objs(p)' /\ Registry(p)'
      BY <2>1, <3>1, <3>2, UnmovedKeeps
    <3>4. Needed(p)' = Needed(p) /\ Requested(p)' = Requested(p)
      BY <2>1, <3>2, NeededStays, RequestedStays
    <3>5. Left(p)'
      BY <2>1, <3>1, <3>2, <3>4 DEF Left, Unmoved
    <3>6. ASSUME OwnOutput(p)' PROVE Files(p)'
      <4>1. Files(p)
        BY <2>1, <3>1, <3>6, OwnOutputStays
      <4> QED BY <2>1, <3>1, <3>2, <4>1, FilesOthers
    <3> QED BY <3>3, <3>5, <3>6
  <2> QED BY <2>1, <2>3, <2>4 DEF DriverInv
<1>2. ASSUME NEW q \in Process, Step(q) PROVE DriverInv'
  <2>1. Types /\ Makers /\ Shape(q) /\ Objs(q) /\ Left(q) /\ Registry(q)
    BY DEF DriverInv
  <2>2. UNCHANGED job /\ Types' /\ (\A p \in Process : p # q => Unmoved(p)) /\ Touched(q)
    BY <1>2, <2>1, OthersUnmoved, StepTouches
  <2>3. Makers'
    BY <2>1, <2>2, MakersStep
  <2>4. ASSUME NEW p \in Process PROVE OwnOutput(p)' => OwnOutput(p)
    BY <2>2, OwnOutputStays
  <2>5. Shape(q)' /\ Objs(q)' /\ Left(q)' /\ Registry(q)' /\ (OwnOutput(q)' => Files(q)')
    BY <1>2, <2>1, <2>4, ShapeStep, ObjsStep, LeftStep, RegistryStep, FilesStep DEF DriverInv
  <2>6. ASSUME NEW p \in Process, p # q
        PROVE  Shape(p)' /\ Objs(p)' /\ Left(p)' /\ Registry(p)' /\ (OwnOutput(p)' => Files(p)')
    <3>1. Shape(p) /\ Objs(p) /\ Left(p) /\ Registry(p) /\ (OwnOutput(p) => Files(p)) /\ Unmoved(p)
      BY <2>2, <2>6 DEF DriverInv
    <3>2. Shape(p)' /\ Objs(p)' /\ Registry(p)'
      BY <2>2, <3>1, UnmovedKeeps
    <3>3. Left(p)'
      BY <2>2, <2>6, <3>1, LeftOthers
    <3>4. ASSUME OwnOutput(p)' PROVE Files(p)'
      <4>1. Apart(p, q) /\ Files(p)
        BY <2>4, <2>6, <3>1, <3>4 DEF OwnOutput
      <4>2. \A n : Named(p, n) => (n \in DOMAIN disk' <=> n \in DOMAIN disk) /\ (n \in DOMAIN disk => disk'[n] = disk[n])
        BY <2>2, <2>6, <4>1, OthersFiles
      <4> QED BY <2>1, <2>2, <3>1, <4>1, <4>2, FilesOthers
    <3> QED BY <3>2, <3>3, <3>4
  <2> QED BY <2>2, <2>3, <2>5, <2>6 DEF DriverInv
<1> QED BY <1>1, <1>2 DEF Next, Terminated, Step

LEMMA DriverInvariant == Spec => []DriverInv
<1> QED BY DriverInit, DriverStep, PTL DEF Spec

-----------------------------------------------------------------------------

\* Of the Baa units one command compiles for a link, no two that define the
\* same function or variable get past driver_odr_record_symbol: the registry
\* holds every name of the units compiled so far, and each unit only once.
THEOREM DuplicatesNeverLink == Spec => []DuplicatesStopped
<1>1. DriverInv => DuplicatesStopped
  <2> SUFFICES ASSUME DriverInv, NEW p \in Process, pc[p] \in {"link", "linked"},
                      NEW j \in compiled[p], NEW k \in compiled[p], j # k
               PROVE  ~SameName(p, j, k)
    BY DEF DuplicatesStopped
  <2>1. job[p].mode = "link" /\ unit[p] \in 1 .. Len(job[p].inputs) /\ Len(job[p].inputs) \in Nat
        /\ compiled[p] \subseteq 1 .. unit[p]
    BY CommandLineIs DEF DriverInv, Shape, Registry
  <2>2. KeepsRegistry(p)
    <3>1. j \in 1 .. Len(job[p].inputs) /\ k \in 1 .. Len(job[p].inputs)
      BY <2>1
    <3>2. ASSUME Len(job[p].inputs) = 1 PROVE FALSE
      <4>1. j = 1 /\ k = 1
        BY <3>1, <3>2
      <4> QED BY <4>1
    <3> QED BY <2>1, <3>2 DEF KeepsRegistry, Single
  <2> QED BY <2>2 DEF DriverInv, Registry
<1> QED BY <1>1, DriverInvariant, PTL

\* Exit status 0 of baa_main tells the truth, however many compilers run in
\* the directory, as long as every file it was told to write is asked for once:
\* driver_compile_files and the link left every file
\* asked for, the executable holds each unit of the command line in its order
\* and the startup object last, and all of it is this compiler's work.
THEOREM SuccessDelivers == Spec => []Delivered
<1>1. DriverInv => Delivered
  BY DEF DriverInv, Files, DeliveredBy, Delivered
<1> QED BY <1>1, DriverInvariant, PTL

\* A build that succeeds, and is not verbose, deletes each temporary source,
\* map and object it made, those of driver_build_startup_object as well.
THEOREM SuccessCleans == Spec => []NothingLeft
<1>1. DriverInv => NothingLeft
  BY DEF DriverInv, Left, NothingLeft, Names
<1> QED BY <1>1, DriverInvariant, PTL

\* No compiler ever overwrites or deletes a file of another that was told to
\* write other files, and never the temporary objects and sources of
\* any other: driver_make_temp_artifact_path puts the process in their names.
THEOREM ArtifactsPrivate == Spec => PrivateArtifacts
<1> DEFINE A == \A p, q \in Process : p # q /\ <<pc[p], unit[p]>>' # <<pc[p], unit[p]>> =>
                  \A n \in PrivateOf(q, p) : n \in DOMAIN disk' /\ disk'[n] = disk[n]
<1>1. DriverInv /\ [Next]_vars => [A]_vars
  <2> SUFFICES ASSUME DriverInv, Next, NEW p \in Process, NEW q \in Process, p # q,
                      <<pc[p], unit[p]>>' # <<pc[p], unit[p]>>, NEW n \in PrivateOf(q, p)
               PROVE  n \in DOMAIN disk' /\ disk'[n] = disk[n]
    OBVIOUS
  <2>1. Step(p)
    <3>1. PICK r \in Process : Step(r)
      BY DEF Next, Terminated, vars, Step
    <3>2. r # p => Unmoved(p)
      BY <3>1, OthersUnmoved DEF DriverInv
    <3> QED BY <3>1, <3>2 DEF Unmoved
  <2>2. Touched(p) /\ Makers
    BY <2>1, StepTouches DEF DriverInv
  <2>3. n \in DOMAIN disk /\ Named(q, n) /\ (~Apart(p, q) => n[1] \in {"obj", "gas", "nazm"})
    BY <2>2 DEF PrivateOf, Names, Makers
  <2>4. ~Named(p, n)
    BY <2>3, NamesApart
  <2> QED BY <2>2, <2>3, <2>4 DEF Touched
<1> QED BY <1>1, DriverInvariant, PTL DEF Spec, PrivateArtifacts
=============================================================================

-------------------------- MODULE BuildCacheProofs --------------------------
(***************************************************************************)
(* For any number of builds, options, files, edits and disturbances: an    *)
(* object compiled with one set of options never reaches a build with      *)
(* another; and as long as builds follow one another, what a slot's        *)
(* metadata says is what its object was compiled from, a reused object is  *)
(* what compiling would give unless a header is now found elsewhere, and   *)
(* nothing is compiled twice.                                              *)
(***************************************************************************)
EXTENDS BuildCache, TLAPS

\* What is known of the contents of some files, and the files of a slot.
Contents == UNION {[D -> Content] : D \in SUBSET File}
Wheres == UNION {[N -> Header] : N \in SUBSET Name}
Objects == {Object(k, c, a) : k \in Key, c \in Contents, a \in Wheres}
Metas == {Meta(h, d) : h \in Content, d \in Contents}

Points == {"idle", "lookup", "validate", "read", "parse", "record", "copy", "meta", "flush", "close", "end"}

Types ==
    /\ disk \in [File -> Content] /\ disk[Src] # Absent
    /\ edits \in Nat /\ calm \in BOOLEAN
    /\ cacheObj \in [Key -> {NoFile, Truncated} \cup Objects]
    /\ cacheMeta \in [Key -> {NoFile, Truncated} \cup Metas]
    /\ pc \in [Build -> Points] /\ cfg \in [Build -> Config]
    /\ hash \in [Build -> Content] /\ todo \in [Build -> SUBSET File]
    /\ deps \in [Build -> Contents] /\ used \in [Build -> Contents]
    /\ at \in [Build -> Wheres]
    /\ out \in [Build -> {NoFile, Truncated} \cup Objects]
    /\ result \in [Build -> {"none", "hit", "miss", "error"}]
    /\ since \in [Build -> Nat]

-----------------------------------------------------------------------------
(* However builds, edits and crashes interleave.                           *)

\* A slot holds objects of its own options only, and is never emptied while a
\* build relies on its object.
OwnSlot ==
    /\ \A k \in Key : cacheObj[k] \in Objects => cacheObj[k].key = k
    /\ \A b \in Build : pc[b] = "validate" => cacheObj[Slot(cfg[b])] # NoFile
    /\ \A b \in Build :
         pc[b] \in {"record", "copy"} => out[b] \in Objects /\ out[b].key = cfg[b].key

\* A build has a result only at its end.
ResultAtEnd == \A b \in Build : result[b] # "none" => pc[b] = "end"

OptionInv == Types /\ OwnSlot /\ ResultAtEnd /\ OptionsRespected

-----------------------------------------------------------------------------
(* As long as builds follow one another.                                   *)

AsOnDisk(f) == \A h \in DOMAIN f : f[h] = disk[h]
Compiling == {"parse", "record", "copy", "meta", "flush", "close"}
Writing == {"copy", "meta", "flush", "close"}

\* The files a compilation reads that finds its names in these places.
ReadFor(where) == {Src} \cup {where[n] : n \in DOMAIN where}

\* What a running build knows at each of its points.
Knows(b) ==
    /\ Src \in DOMAIN used[b] /\ AsOnDisk(used[b])
    /\ pc[b] \in {"lookup", "validate", "flush", "close"} => hash[b] = disk[Src]
    /\ pc[b] = "validate" =>
          /\ MetaParses(Slot(cfg[b]))
          /\ cacheMeta[Slot(cfg[b])].source = hash[b]
          /\ deps[b] = cacheMeta[Slot(cfg[b])].deps /\ todo[b] \subseteq DOMAIN deps[b]
          /\ \A h \in DOMAIN deps[b] \ todo[b] : h \in DOMAIN used[b] /\ deps[b][h] = disk[h]
    /\ pc[b] \in Compiling =>
          /\ \A h \in DOMAIN used[b] : disk[h] # Absent
          /\ DOMAIN used[b] = ReadFor(at[b]) /\ DOMAIN at[b] \subseteq Includes[disk[Src]]
    /\ pc[b] \in Compiling \ {"parse"} =>
          /\ AsOnDisk(deps[b]) /\ DOMAIN at[b] = Includes[disk[Src]]
          /\ out[b] = Object(cfg[b].key, used[b], at[b])
    /\ pc[b] = "record" => todo[b] \subseteq DepFiles(b) /\ DOMAIN deps[b] = DepFiles(b) \ todo[b]
    /\ pc[b] \in Writing => DOMAIN deps[b] = DepFiles(b)
    /\ pc[b] \in {"meta", "flush", "close"} => cacheObj[Slot(cfg[b])] = out[b]

Consistent(k) ==
    MetaParses(k) =>
        /\ cacheObj[k].state = "written" /\ cacheObj[k].key = k
        /\ cacheObj[k].from = With(cacheMeta[k].deps, Src, cacheMeta[k].source)
        /\ DOMAIN cacheObj[k].at = Includes[cacheMeta[k].source]
        /\ DOMAIN cacheMeta[k].deps \cup {Src} = ReadFor(cacheObj[k].at)

\* The slot would be reused if a build looked it up now.
Current(k) ==
    /\ MetaParses(k) /\ cacheObj[k] # NoFile /\ cacheMeta[k].source = disk[Src]
    /\ \A h \in DOMAIN cacheMeta[k].deps : disk[h] # Absent /\ cacheMeta[k].deps[h] = disk[h]

\* Builds that compiled the files as they are now.
MissedNow == {b \in Build : result[b] = "miss" /\ since[b] = edits}

CalmInv ==
    /\ \A b, c \in Running : b = c
    /\ \A b \in Running : Knows(b) /\ since[b] = edits
    /\ \A k \in Key : Consistent(k) \/ \E b \in Running : pc[b] \in Writing /\ Slot(cfg[b]) = k
    /\ \A b \in MissedNow : Current(Slot(cfg[b]))
    /\ \A b \in MissedNow, c \in Running :
         pc[c] \in Compiling \cup {"read"} => Slot(cfg[b]) # Slot(cfg[c])

NotAhead == \A b \in Build : since[b] <= edits

CacheInv == OptionInv /\ NotAhead /\ (calm => CalmInv) /\ NoSpuriousMiss

-----------------------------------------------------------------------------
(* Contents of files, objects and metadata.                                *)

LEMMA ContentsAre ==
  ASSUME NEW f \in Contents
  PROVE  /\ DOMAIN f \subseteq File /\ f = [h \in DOMAIN f |-> f[h]]
         /\ \A h \in DOMAIN f : f[h] \in Content
<1>1. PICK D \in SUBSET File : f \in [D -> Content]
  BY DEF Contents
<1> QED BY <1>1

LEMMA ContentsOf ==
  ASSUME NEW D \in SUBSET File, NEW f \in [D -> Content]
  PROVE  f \in Contents
BY DEF Contents

LEMMA WithOne ==
  ASSUME NEW f \in Contents, NEW h \in File, NEW v \in Content
  PROVE  /\ With(f, h, v) \in Contents
         /\ DOMAIN With(f, h, v) = DOMAIN f \cup {h}
         /\ \A x \in DOMAIN f \cup {h} : With(f, h, v)[x] = IF x = h THEN v ELSE f[x]
<1>1. DOMAIN f \cup {h} \in SUBSET File /\ \A x \in DOMAIN f : f[x] \in Content
  BY ContentsAre
<1>2. With(f, h, v) \in [DOMAIN f \cup {h} -> Content]
  BY <1>1 DEF With
<1> QED BY <1>1, <1>2, ContentsOf DEF With

LEMMA SourceAlone ==
  ASSUME Types
  PROVE  /\ [f \in {Src} |-> disk[Src]] \in Contents
         /\ Src \in File /\ disk[Src] \in Content
<1>1. Src \in File
  BY DEF File
<1> QED BY <1>1, ContentsOf DEF Types

LEMMA NoContents == Empty \in Contents
<1>1. {} \in SUBSET File /\ Empty \in [{} -> Content]
  BY DEF Empty
<1> QED BY <1>1, ContentsOf

LEMMA NowhereYet == Empty \in Wheres
<1>1. {} \in SUBSET Name /\ Empty \in [{} -> Header]
  BY DEF Empty
<1> QED BY <1>1 DEF Wheres

LEMMA FoundOne ==
  ASSUME NEW a \in Wheres, NEW n \in Name, NEW h \in Header
  PROVE  /\ With(a, n, h) \in Wheres
         /\ DOMAIN With(a, n, h) = DOMAIN a \cup {n}
         /\ \A x \in DOMAIN a \cup {n} : With(a, n, h)[x] = IF x = n THEN h ELSE a[x]
<1>1. PICK N \in SUBSET Name : a \in [N -> Header]
  BY DEF Wheres
<1>2. With(a, n, h) \in [N \cup {n} -> Header] /\ N \cup {n} \in SUBSET Name
  BY <1>1 DEF With
<1> QED BY <1>1, <1>2 DEF With, Wheres

LEMMA ObjectsAre ==
  /\ NoFile \notin Objects /\ Truncated \notin Objects /\ NoFile # Truncated
  /\ \A o \in Objects : o.state = "written" /\ o.key \in Key /\ o.from \in Contents
  /\ \A k \in Key, c \in Contents, a \in Wheres : Object(k, c, a) \in Objects
<1>1. \A o \in Objects : o.state = "written" /\ o.key \in Key /\ o.from \in Contents
  BY DEF Objects, Object
<1>2. NoFile.state = "none" /\ Truncated.state = "truncated"
  BY DEF NoFile, Truncated
<1>3. \A k \in Key, c \in Contents, a \in Wheres : Object(k, c, a) \in Objects
  BY DEF Objects
<1>4. NoFile \notin Objects /\ Truncated \notin Objects /\ NoFile # Truncated
  BY <1>1, <1>2
<1> QED BY <1>1, <1>3, <1>4

LEMMA MetasAre ==
  /\ \A m \in {NoFile, Truncated} \cup Metas : m.state = "written" <=> m \in Metas
  /\ \A m \in Metas : m.source \in Content /\ m.deps \in Contents
  /\ \A h \in Content, d \in Contents : Meta(h, d) \in Metas
  /\ \A h \in Content, d \in Contents : Meta(h, d).source = h /\ Meta(h, d).deps = d
BY DEF Metas, Meta, NoFile, Truncated

LEMMA ConfigsAre == \A c \in Config : c.key \in Key /\ Slot(c) = c.key
BY CacheAssumption DEF Slot

-----------------------------------------------------------------------------
(* The state keeps its type.                                               *)

LEMMA TypesInit == Init => Types
<1> SUFFICES ASSUME Init PROVE Types
  OBVIOUS
<1>1. (CHOOSE c \in Config : TRUE) \in Config
  BY CacheAssumption
<1>2. disk \in [File -> Content] /\ disk[Src] # Absent
  BY DEF Init, Content
<1> QED BY <1>1, <1>2, NoContents, NowhereYet DEF Init, Types, Points, Content

LEMMA TypesReuse ==
  ASSUME Types, NEW b \in Build, Reuse(b)
  PROVE  Types'
<1> USE DEF Points, Goto, Set, fsvars
<1>0. /\ Slot(cfg[b]) \in Key /\ todo[b] \in SUBSET File /\ used[b] \in Contents
      /\ calm \in BOOLEAN /\ Visited(b, Src) \subseteq File
  BY ConfigsAre DEF Types, Visited
<1>1. CASE HashSource(b)
  BY <1>1, SourceAlone DEF Types, HashSource, Disturb
<1>2. CASE Lookup(b)
  <2>1. cacheMeta[Slot(cfg[b])].deps \in Contents
    BY <1>0, <1>2, MetasAre DEF Types, Lookup, MetaUsable, MetaParses
  <2>2. DOMAIN cacheMeta[Slot(cfg[b])].deps \in SUBSET File
    BY <2>1, ContentsAre
  <2> QED BY <1>2, <2>1, <2>2 DEF Types, Lookup
<1>3. CASE LookupFails(b)
  BY <1>3 DEF Types, LookupFails
<1>4. CASE Validate(b)
  <2>1. PICK h \in todo[b] : /\ used' = [used EXCEPT ![b] = With(used[b], h, disk[h])]
                              /\ todo' = [todo EXCEPT ![b] = Visited(b, h)]
    BY <1>4 DEF Validate
  <2>2. With(used[b], h, disk[h]) \in Contents /\ Visited(b, h) \in SUBSET File
    BY <1>0, WithOne DEF Types, Visited
  <2> QED BY <1>4, <2>1, <2>2 DEF Types, Validate
<1>5. CASE ValidateFails(b)
  BY <1>5 DEF Types, ValidateFails
<1>6. CASE CopyHit(b)
  BY <1>0, <1>6 DEF Types, CopyHit, Finish
<1> QED BY <1>1, <1>2, <1>3, <1>4, <1>5, <1>6 DEF Reuse

LEMMA TypesCompile ==
  ASSUME Types, NEW b \in Build, Compile(b)
  PROVE  Types'
<1> USE DEF Points, Goto, Set, fsvars
<1>0. cfg[b].key \in Key /\ todo[b] \in SUBSET File /\ used[b] \in Contents
  BY ConfigsAre DEF Types
<1>1. CASE ReadSource(b)
  BY <1>1, SourceAlone, NowhereYet DEF Types, ReadSource
<1>2. CASE ReadHeader(b)
  <2>1. PICK n \in Name, h \in Header :
          /\ used' = [used EXCEPT ![b] = With(used[b], h, disk[h])]
          /\ at' = [at EXCEPT ![b] = With(at[b], n, h)]
    BY <1>2 DEF ReadHeader, Unresolved
  <2>2. h \in File /\ disk[h] \in Content /\ at[b] \in Wheres
    BY DEF File, Types
  <2>3. With(used[b], h, disk[h]) \in Contents /\ With(at[b], n, h) \in Wheres
    BY <1>0, <2>2, WithOne, FoundOne
  <2> QED BY <1>2, <2>1, <2>3 DEF Types, ReadHeader
<1>3. CASE SourceError(b)
  BY <1>3 DEF Types, SourceError, Finish
<1>4. CASE Generate(b)
  <2>1. Object(cfg[b].key, used[b], at[b]) \in Objects /\ DepFiles(b) \in SUBSET File
    BY <1>0, ObjectsAre, ContentsAre DEF DepFiles, Types
  <2> QED BY <1>4, <2>1, NoContents DEF Types, Generate
<1> QED BY <1>1, <1>2, <1>3, <1>4 DEF Compile

LEMMA TypesUpdate ==
  ASSUME Types, NEW b \in Build, Update(b)
  PROVE  Types'
<1> USE DEF Points, Goto, Set, fsvars
<1>0. /\ Slot(cfg[b]) \in Key /\ todo[b] \in SUBSET File /\ deps[b] \in Contents
      /\ hash[b] \in Content
  BY ConfigsAre DEF Types
<1>1. CASE RecordDep(b)
  <2>1. PICK h \in todo[b] : /\ deps' = [deps EXCEPT ![b] = WithDep(b, h)]
                              /\ todo' = [todo EXCEPT ![b] = Visited(b, h)]
    BY <1>1 DEF RecordDep
  <2>2. WithDep(b, h) \in Contents /\ Visited(b, h) \in SUBSET File
    BY <1>0, WithOne DEF Types, Visited, WithDep
  <2> QED BY <1>1, <2>1, <2>2 DEF Types, RecordDep
<1>2. CASE OpenCacheObj(b)
  BY <1>0, <1>2 DEF Types, OpenCacheObj
<1>3. CASE FillCacheObj(b)
  BY <1>0, <1>3 DEF Types, FillCacheObj
<1>4. CASE OpenMeta(b)
  BY <1>0, <1>4, SourceAlone DEF Types, OpenMeta
<1>5. CASE FlushMeta(b)
  <2>1. PICK D \in SUBSET DOMAIN deps[b] :
          cacheMeta' = [cacheMeta EXCEPT ![Slot(cfg[b])] = Meta(hash[b], Restrict(deps[b], D))]
    BY <1>5 DEF FlushMeta
  <2>2. Restrict(deps[b], D) \in [D -> Content] /\ D \in SUBSET File
    BY <1>0, ContentsAre DEF Restrict
  <2>3. Meta(hash[b], Restrict(deps[b], D)) \in Metas
    BY <1>0, <2>2, ContentsOf, MetasAre
  <2> QED BY <1>0, <1>5, <2>1, <2>3 DEF Types, FlushMeta
<1>6. CASE CloseMeta(b)
  <2>1. Meta(hash[b], deps[b]) \in Metas
    BY <1>0, MetasAre
  <2> QED BY <1>0, <1>6, <2>1 DEF Types, CloseMeta, Finish
<1> QED BY <1>1, <1>2, <1>3, <1>4, <1>5, <1>6 DEF Update

LEMMA TypesStep == Types /\ [Next]_vars => Types'
<1> SUFFICES ASSUME Types, [Next]_vars PROVE Types'
  OBVIOUS
<1>1. CASE Edit
  <2>1. PICK f \in File, v \in Version \cup {Absent} :
           disk' = [disk EXCEPT ![f] = v] /\ (f = Src => v # Absent)
    BY <1>1 DEF Edit
  <2>2. disk' \in [File -> Content] /\ disk'[Src] # Absent
    BY <2>1 DEF Types, Content
  <2> QED BY <1>1, <2>2 DEF Types, Edit, Disturb
<1>2. ASSUME NEW b \in Build, Crash(b) PROVE Types'
  BY <1>2 DEF Types, Crash, Disturb, Points
<1>3. ASSUME NEW b \in Build, BuildStep(b) PROVE Types'
  BY <1>3, TypesReuse, TypesCompile, TypesUpdate DEF BuildStep
<1>4. CASE UNCHANGED vars
  BY <1>4 DEF Types, vars, fsvars
<1> QED BY <1>1, <1>2, <1>3, <1>4 DEF Next

-----------------------------------------------------------------------------
(* Objects of other options.                                               *)

LEMMA OptionInit == Init => OptionInv
<1> SUFFICES ASSUME Init PROVE OptionInv
  OBVIOUS
<1>1. Types
  BY TypesInit
<1>2. OwnSlot /\ ResultAtEnd /\ OptionsRespected
  BY ObjectsAre DEF Init, OwnSlot, ResultAtEnd, OptionsRespected
<1> QED BY <1>1, <1>2 DEF OptionInv

\* A step of a build that has not ended and is given no result.
LEMMA NoResultYet ==
  ASSUME OptionInv, NEW b \in Build, NEW to \in Points, pc[b] # "end",
         pc' = [pc EXCEPT ![b] = to], UNCHANGED <<result, cfg>>,
         \A c \in Build : c # b => out'[c] = out[c]
  PROVE  ResultAtEnd' /\ OptionsRespected'
<1>1. result[b] = "none" /\ \A c \in Build : c # b => pc'[c] = pc[c]
  BY DEF OptionInv, ResultAtEnd, Types
<1> QED BY <1>1 DEF OptionInv, ResultAtEnd, OptionsRespected

LEMMA OptionReuse ==
  ASSUME OptionInv, NEW b \in Build, Reuse(b)
  PROVE  OptionInv'
<1> USE DEF Goto, Set, fsvars
<1>0. Types /\ Types' /\ Slot(cfg[b]) \in Key /\ Slot(cfg[b]) = cfg[b].key
  BY TypesReuse, ConfigsAre DEF OptionInv, Types
<1>1. CASE HashSource(b)
  <2>1. /\ pc[b] = "idle" /\ pc' = [pc EXCEPT ![b] = "lookup"]
        /\ UNCHANGED <<cacheObj, out, result>>
        /\ \A c \in Build : c # b => cfg'[c] = cfg[c]
    BY <1>0, <1>1 DEF HashSource, Types
  <2>2. result[b] = "none" /\ pc'[b] = "lookup" /\ \A c \in Build : c # b => pc'[c] = pc[c]
    BY <1>0, <2>1 DEF OptionInv, ResultAtEnd, Types
  <2>3. OwnSlot'
    BY <2>1, <2>2 DEF OptionInv, OwnSlot, Slot
  <2>4. ResultAtEnd' /\ OptionsRespected'
    BY <2>1, <2>2 DEF OptionInv, ResultAtEnd, OptionsRespected
  <2> QED BY <1>0, <2>3, <2>4 DEF OptionInv
<1>2. CASE Lookup(b) \/ LookupFails(b) \/ Validate(b) \/ ValidateFails(b)
  <2>1. PICK to \in {"validate", "read"} :
           /\ pc' = [pc EXCEPT ![b] = to] /\ pc[b] # "end"
           /\ to = "validate" => cacheObj[Slot(cfg[b])] # NoFile
           /\ UNCHANGED <<cacheObj, cfg, out, result>>
    BY <1>2 DEF Lookup, LookupFails, Validate, ValidateFails, MetaUsable, OptionInv, OwnSlot
  <2>2. OwnSlot'
    BY <1>0, <2>1 DEF OptionInv, OwnSlot, Types
  <2>3. ResultAtEnd' /\ OptionsRespected'
    BY <2>1, NoResultYet DEF Points
  <2> QED BY <1>0, <2>2, <2>3 DEF OptionInv
<1>3. CASE CopyHit(b)
  <2>1. /\ pc[b] = "validate" /\ pc' = [pc EXCEPT ![b] = "end"]
        /\ out' = [out EXCEPT ![b] = cacheObj[Slot(cfg[b])]]
        /\ result' = [result EXCEPT ![b] = "hit"]
        /\ UNCHANGED <<cacheObj, cfg>>
    BY <1>3 DEF CopyHit, Finish
  <2>2. /\ pc'[b] = "end" /\ out'[b] = cacheObj[Slot(cfg[b])] /\ out'[b] # NoFile
        /\ \A c \in Build : c # b => pc'[c] = pc[c] /\ out'[c] = out[c] /\ result'[c] = result[c]
    BY <1>0, <2>1 DEF OptionInv, OwnSlot, Types
  <2>3. out'[b] # Truncated => out'[b].key = cfg[b].key
    BY <1>0, <2>2 DEF OptionInv, OwnSlot, Types
  <2>4. OwnSlot'
    BY <2>1, <2>2 DEF OptionInv, OwnSlot
  <2>5. ResultAtEnd' /\ OptionsRespected'
    BY <2>1, <2>2, <2>3 DEF OptionInv, ResultAtEnd, OptionsRespected
  <2> QED BY <1>0, <2>4, <2>5 DEF OptionInv
<1> QED BY <1>1, <1>2, <1>3 DEF Reuse

LEMMA OptionCompile ==
  ASSUME OptionInv, NEW b \in Build, Compile(b)
  PROVE  OptionInv'
<1> USE DEF Goto, Set, fsvars
<1>0. Types /\ Types' /\ cfg[b].key \in Key
  BY TypesCompile, ConfigsAre DEF OptionInv, Types
<1>1. CASE ReadSource(b) \/ ReadHeader(b)
  <2>1. /\ pc' = [pc EXCEPT ![b] = "parse"] /\ pc[b] # "end"
        /\ UNCHANGED <<cacheObj, cfg, out, result>>
    BY <1>1 DEF ReadSource, ReadHeader
  <2>2. OwnSlot'
    BY <1>0, <2>1 DEF OptionInv, OwnSlot, Types
  <2>3. ResultAtEnd' /\ OptionsRespected'
    BY <2>1, NoResultYet DEF Points
  <2> QED BY <1>0, <2>2, <2>3 DEF OptionInv
<1>2. CASE SourceError(b)
  <2>1. /\ pc' = [pc EXCEPT ![b] = "end"] /\ result' = [result EXCEPT ![b] = "error"]
        /\ UNCHANGED <<cacheObj, cfg, out>>
    BY <1>2 DEF SourceError, Finish
  <2> QED BY <1>0, <2>1 DEF OptionInv, OwnSlot, ResultAtEnd, OptionsRespected, Types
<1>3. CASE Generate(b)
  <2>1. /\ pc' = [pc EXCEPT ![b] = "record"] /\ pc[b] = "parse"
        /\ out' = [out EXCEPT ![b] = Object(cfg[b].key, used[b], at[b])]
        /\ UNCHANGED <<cacheObj, cfg, result>>
    BY <1>3 DEF Generate
  <2>2. Object(cfg[b].key, used[b], at[b]) \in Objects /\ Object(cfg[b].key, used[b], at[b]).key = cfg[b].key
    BY <1>0, ObjectsAre DEF Types, Object
  <2>3. /\ pc'[b] = "record" /\ out'[b] = Object(cfg[b].key, used[b], at[b])
        /\ \A c \in Build : c # b => pc'[c] = pc[c] /\ out'[c] = out[c]
    BY <1>0, <2>1 DEF Types
  <2>4. OwnSlot'
    BY <2>1, <2>2, <2>3 DEF OptionInv, OwnSlot
  <2>5. ResultAtEnd' /\ OptionsRespected'
    BY <2>1, <2>3, NoResultYet DEF Points
  <2> QED BY <1>0, <2>4, <2>5 DEF OptionInv
<1> QED BY <1>1, <1>2, <1>3 DEF Compile

LEMMA OptionUpdate ==
  ASSUME OptionInv, NEW b \in Build, Update(b)
  PROVE  OptionInv'
<1> USE DEF Goto, Set, fsvars
<1>0. Types /\ Types' /\ Slot(cfg[b]) \in Key /\ Slot(cfg[b]) = cfg[b].key
  BY TypesUpdate, ConfigsAre DEF OptionInv, Types
<1>1. CASE RecordDep(b) \/ OpenMeta(b) \/ FlushMeta(b)
  <2>1. PICK to \in {"record", "flush", "close"} :
           /\ pc' = [pc EXCEPT ![b] = to] /\ pc[b] # "end"
           /\ to = "record" => pc[b] = "record"
           /\ UNCHANGED <<cacheObj, cfg, out, result>>
    BY <1>1 DEF RecordDep, OpenMeta, FlushMeta
  <2>2. OwnSlot'
    BY <1>0, <2>1 DEF OptionInv, OwnSlot, Types
  <2>3. ResultAtEnd' /\ OptionsRespected'
    BY <2>1, NoResultYet DEF Points
  <2> QED BY <1>0, <2>2, <2>3 DEF OptionInv
<1>2. CASE OpenCacheObj(b)
  <2>1. /\ pc' = [pc EXCEPT ![b] = "copy"] /\ pc[b] = "record"
        /\ cacheObj' = [cacheObj EXCEPT ![Slot(cfg[b])] = Truncated]
        /\ UNCHANGED <<cfg, out, result>>
    BY <1>2 DEF OpenCacheObj
  <2>2. \A k \in Key : cacheObj'[k] = IF k = Slot(cfg[b]) THEN Truncated ELSE cacheObj[k]
    BY <1>0, <2>1 DEF Types
  <2>3. \A c \in Build : Slot(cfg[c]) \in Key /\ pc'[c] = IF c = b THEN "copy" ELSE pc[c]
    BY <1>0, <2>1, ConfigsAre DEF Types
  <2>4. OwnSlot'
    BY <2>1, <2>2, <2>3, ObjectsAre DEF OptionInv, OwnSlot
  <2>5. ResultAtEnd' /\ OptionsRespected'
    BY <2>1, NoResultYet DEF Points
  <2> QED BY <1>0, <2>4, <2>5 DEF OptionInv
<1>3. CASE FillCacheObj(b)
  <2>1. /\ pc' = [pc EXCEPT ![b] = "meta"] /\ pc[b] = "copy"
        /\ cacheObj' = [cacheObj EXCEPT ![Slot(cfg[b])] = out[b]]
        /\ UNCHANGED <<cfg, out, result>>
    BY <1>3 DEF FillCacheObj
  <2>2. out[b] \in Objects /\ out[b].key = Slot(cfg[b])
    BY <1>0, <2>1 DEF OptionInv, OwnSlot
  <2>3. \A k \in Key : cacheObj'[k] = IF k = Slot(cfg[b]) THEN out[b] ELSE cacheObj[k]
    BY <1>0, <2>1 DEF Types
  <2>4. \A c \in Build : Slot(cfg[c]) \in Key /\ pc'[c] = IF c = b THEN "meta" ELSE pc[c]
    BY <1>0, <2>1, ConfigsAre DEF Types
  <2>5. OwnSlot'
    BY <2>1, <2>2, <2>3, <2>4, ObjectsAre DEF OptionInv, OwnSlot
  <2>6. ResultAtEnd' /\ OptionsRespected'
    BY <2>1, NoResultYet DEF Points
  <2> QED BY <1>0, <2>5, <2>6 DEF OptionInv
<1>4. CASE CloseMeta(b)
  <2>1. /\ pc' = [pc EXCEPT ![b] = "end"] /\ result' = [result EXCEPT ![b] = "miss"]
        /\ UNCHANGED <<cacheObj, cfg, out>>
    BY <1>4 DEF CloseMeta, Finish
  <2> QED BY <1>0, <2>1 DEF OptionInv, OwnSlot, ResultAtEnd, OptionsRespected, Types
<1> QED BY <1>1, <1>2, <1>3, <1>4 DEF Update

LEMMA OptionStep == OptionInv /\ [Next]_vars => OptionInv'
<1> SUFFICES ASSUME OptionInv, [Next]_vars PROVE OptionInv'
  OBVIOUS
<1>0. Types'
  BY TypesStep DEF OptionInv
<1>1. CASE Edit \/ UNCHANGED vars
  <2>1. UNCHANGED <<cacheObj, pc, cfg, out, result>>
    BY <1>1 DEF Edit, vars, fsvars
  <2> QED BY <1>0, <2>1 DEF OptionInv, OwnSlot, ResultAtEnd, OptionsRespected
<1>2. ASSUME NEW b \in Build, Crash(b) PROVE OptionInv'
  <2>1. /\ pc' = [pc EXCEPT ![b] = "end"] /\ pc[b] # "end"
        /\ UNCHANGED <<cacheObj, cfg, out, result>>
    BY <1>2 DEF Crash, Running
  <2>2. OwnSlot'
    BY <2>1 DEF OptionInv, OwnSlot, Types
  <2>3. ResultAtEnd' /\ OptionsRespected'
    BY <2>1, NoResultYet DEF Points
  <2> QED BY <1>0, <2>2, <2>3 DEF OptionInv
<1>3. ASSUME NEW b \in Build, BuildStep(b) PROVE OptionInv'
  BY <1>3, OptionReuse, OptionCompile, OptionUpdate DEF BuildStep
<1> QED BY <1>1, <1>2, <1>3 DEF Next

\* Whatever builds, edits and crashes do to each other, a reused object was
\* compiled with the options of the build that reuses it.
THEOREM CacheRespectsOptions == Spec => []OptionsRespected
<1>1. OptionInv => OptionsRespected
  BY DEF OptionInv
<1> QED BY OptionInit, OptionStep, <1>1, PTL DEF Spec

-----------------------------------------------------------------------------
(* Builds that follow one another.                                         *)

\* What a step of a running build has to establish.  It may change its own
\* slot only; if it does while it compiles, no build has missed there.
LEMMA CalmStep ==
  ASSUME OptionInv, Types', calm, CalmInv, NoSpuriousMiss,
         NEW b \in Running, NEW to \in Points \ {"idle"}, pc' = [pc EXCEPT ![b] = to],
         UNCHANGED <<disk, edits, since, cfg>>,
         \A c \in Build : c # b => result'[c] = result[c],
         to # "end" => Knows(b)' /\ result'[b] = result[b],
         \A k \in Key \ {Slot(cfg[b])} : cacheObj'[k] = cacheObj[k] /\ cacheMeta'[k] = cacheMeta[k],
         UNCHANGED <<cacheObj, cacheMeta>> \/ pc[b] \in Compiling,
         to \in Writing \/ Consistent(Slot(cfg[b]))',
         result'[b] = "miss" => pc[b] \in Compiling /\ Current(Slot(cfg[b]))',
         to \in Compiling \cup {"read"} => pc[b] \in Compiling \cup {"read"} \/ ~Current(Slot(cfg[b]))
  PROVE  CalmInv' /\ NoSpuriousMiss'
<1>1. /\ b \in Build /\ pc'[b] = to /\ result[b] = "none" /\ Slot(cfg[b]) \in Key
      /\ \A c \in Build : c # b => pc'[c] = pc[c] /\ c \notin Running
      /\ \A c \in Build : Slot(cfg[c]) \in Key
  <2>1. b \in Build /\ pc[b] # "end" /\ pc \in [Build -> Points]
    BY DEF Running, OptionInv, Types
  <2>2. \A c \in Build : cfg[c] \in Config
    BY DEF OptionInv, Types
  <2>3. \A c \in Build : Slot(cfg[c]) \in Key
    BY <2>2, ConfigsAre
  <2>4. result[b] = "none"
    BY <2>1 DEF OptionInv, ResultAtEnd
  <2>5. \A c \in Build : c # b => pc'[c] = pc[c]
    BY <2>1
  <2>6. \A c \in Build : c # b => c \notin Running
    BY DEF CalmInv
  <2> QED BY <2>1, <2>3, <2>4, <2>5, <2>6
<1>2. Running' = IF to = "end" THEN {} ELSE {b}
  BY <1>1 DEF Running
<1>3. \A c \in Running' : c = b
  BY <1>2
<1>4. \A c \in Running' : Knows(c)' /\ since'[c] = edits'
  BY <1>2, <1>3 DEF CalmInv
<1>5. \A k \in Key : Consistent(k)' \/ \E c \in Running' : pc'[c] \in Writing /\ Slot(cfg'[c]) = k
  <2> SUFFICES ASSUME NEW k \in Key
               PROVE  Consistent(k)' \/ \E c \in Running' : pc'[c] \in Writing /\ Slot(cfg'[c]) = k
    OBVIOUS
  <2>1. CASE k = Slot(cfg[b])
    BY <1>1, <1>2, <2>1 DEF Writing
  <2>2. CASE k # Slot(cfg[b])
    <3>1. Consistent(k)
      BY <1>1, <2>2 DEF CalmInv, Running
    <3>2. cacheObj'[k] = cacheObj[k] /\ cacheMeta'[k] = cacheMeta[k]
      BY <2>2
    <3> QED BY <3>1, <3>2 DEF Consistent, MetaParses
  <2> QED BY <2>1, <2>2
<1>6. \A c \in MissedNow' : c \in MissedNow \/ (c = b /\ result'[b] = "miss")
  BY DEF MissedNow
<1>7. \A c \in MissedNow : pc[b] \in Compiling \cup {"read"} => Slot(cfg[c]) # Slot(cfg[b])
  BY DEF CalmInv
<1>8. (\A c \in MissedNow : Current(Slot(cfg[c])))'
  <2> SUFFICES ASSUME NEW c \in MissedNow, c # b PROVE Current(Slot(cfg[c]))'
    BY <1>1, <1>6 DEF MissedNow
  <2>1. Current(Slot(cfg[c])) /\ Slot(cfg[c]) \in Key
    BY <1>1 DEF CalmInv, MissedNow
  <2>2. cacheObj'[Slot(cfg[c])] = cacheObj[Slot(cfg[c])] /\ cacheMeta'[Slot(cfg[c])] = cacheMeta[Slot(cfg[c])]
    BY <1>7, <2>1
  <2> QED BY <2>1, <2>2 DEF Current, MetaParses
<1>9. \A c \in MissedNow', d \in Running' :
        pc'[d] \in Compiling \cup {"read"} => Slot(cfg'[c]) # Slot(cfg'[d])
  <2> SUFFICES ASSUME NEW c \in MissedNow', to # "end", to \in Compiling \cup {"read"}
               PROVE  Slot(cfg[c]) # Slot(cfg[b])
    BY <1>1, <1>2
  <2>1. c \in MissedNow
    BY <1>1, <1>6
  <2>2. CASE pc[b] \in Compiling \cup {"read"}
    BY <1>7, <2>1, <2>2
  <2>3. CASE ~Current(Slot(cfg[b]))
    BY <2>1, <2>3 DEF CalmInv
  <2> QED BY <2>2, <2>3
<1>10. CalmInv'
  BY <1>3, <1>4, <1>5, <1>8, <1>9 DEF CalmInv
<1>11. NoSpuriousMiss'
  <2> SUFFICES ASSUME NEW c \in Build, NEW d \in Build, c # d, result'[c] = "miss", result'[d] = "miss",
                      Slot(cfg[c]) = Slot(cfg[d])
               PROVE  since[c] # since[d]
    BY DEF NoSpuriousMiss
  <2>1. ASSUME NEW e \in Build, e # b, result[e] = "miss", result'[b] = "miss", Slot(cfg[e]) = Slot(cfg[b])
        PROVE  since[e] # since[b]
    <3>1. e \notin MissedNow /\ since[b] = edits
      BY <1>7, <2>1 DEF CalmInv
    <3> QED BY <2>1, <3>1 DEF MissedNow
  <2>2. CASE c = b \/ d = b
    BY <2>1, <2>2
  <2>3. CASE c # b /\ d # b
    BY <2>3 DEF NoSpuriousMiss
  <2> QED BY <2>2, <2>3
<1> QED BY <1>10, <1>11

\* A build that begins when none runs finds every slot consistent.
LEMMA CalmHashSource ==
  ASSUME CacheInv, NEW b \in Build, HashSource(b), calm', Types'
  PROVE  CalmInv' /\ NoSpuriousMiss'
<1>1. /\ pc[b] = "idle" /\ pc' = [pc EXCEPT ![b] = "lookup"] /\ calm /\ Running = {}
      /\ hash' = [hash EXCEPT ![b] = disk[Src]] /\ since' = [since EXCEPT ![b] = edits]
      /\ used' = [used EXCEPT ![b] = [f \in {Src} |-> disk[Src]]]
      /\ UNCHANGED <<disk, edits, cacheObj, cacheMeta, result>>
      /\ \A c \in Build : c # b => cfg'[c] = cfg[c]
  BY DEF HashSource, Goto, Disturb, Set, CacheInv, OptionInv, Types
<1>2. /\ pc'[b] = "lookup" /\ hash'[b] = disk[Src] /\ since'[b] = edits
      /\ used'[b] = [f \in {Src} |-> disk[Src]] /\ result[b] = "none"
      /\ \A c \in Build : c # b => pc'[c] = pc[c] /\ since'[c] = since[c]
  BY <1>1 DEF CacheInv, OptionInv, Types, ResultAtEnd
<1>3. Running' = {b}
  BY <1>1, <1>2 DEF Running
<1>4. Knows(b)'
  BY <1>1, <1>2 DEF Knows, AsOnDisk, Compiling, Writing
<1>5. MissedNow' = MissedNow /\ b \notin MissedNow
  BY <1>1, <1>2 DEF MissedNow
<1>6. \A k \in Key : Consistent(k)'
  BY <1>1 DEF CacheInv, CalmInv, Consistent, MetaParses
<1>7. (\A c \in MissedNow : Current(Slot(cfg[c])))'
  <2> SUFFICES ASSUME NEW c \in MissedNow PROVE Current(Slot(cfg[c]))'
    BY <1>1, <1>5 DEF MissedNow
  <2>1. Current(Slot(cfg[c])) /\ cfg'[c] = cfg[c]
    BY <1>1, <1>5 DEF CacheInv, CalmInv, MissedNow
  <2> QED BY <1>1, <2>1 DEF Current, MetaParses
<1>8. CalmInv'
  BY <1>1, <1>2, <1>3, <1>4, <1>6, <1>7 DEF CalmInv, Compiling
<1>9. NoSpuriousMiss'
  BY <1>1, <1>2 DEF CacheInv, NoSpuriousMiss
<1> QED BY <1>8, <1>9

\* An edit between builds leaves none that compiled the files as they are.
LEMMA CalmEdit ==
  ASSUME CacheInv, Edit, calm'
  PROVE  CalmInv' /\ NoSpuriousMiss'
<1>1. /\ calm /\ Running = {} /\ edits' = edits + 1
      /\ UNCHANGED <<cacheObj, cacheMeta, pc, cfg, result, since>>
  BY DEF Edit, Disturb
<1>2. Running' = {}
  BY <1>1 DEF Running
<1>3. MissedNow' = {}
  <2>1. \A c \in Build : since[c] \in Nat /\ since[c] <= edits /\ edits \in Nat
    BY DEF CacheInv, OptionInv, NotAhead, Types
  <2>2. \A c \in Build : since[c] # edits + 1
    BY <2>1
  <2> QED BY <1>1, <2>2 DEF MissedNow
<1>4. \A k \in Key : Consistent(k)'
  BY <1>1 DEF CacheInv, CalmInv, Consistent, MetaParses
<1>5. CalmInv'
  BY <1>2, <1>3, <1>4 DEF CalmInv
<1>6. NoSpuriousMiss'
  BY <1>1 DEF CacheInv, NoSpuriousMiss
<1> QED BY <1>5, <1>6

\* What a running build can rely on.
LEMMA CalmHere ==
  ASSUME OptionInv, CalmInv, NEW b \in Running
  PROVE  /\ b \in Build /\ Knows(b) /\ result[b] = "none"
         /\ Slot(cfg[b]) \in Key /\ Slot(cfg[b]) = cfg[b].key
         /\ used[b] \in Contents /\ deps[b] \in Contents /\ todo[b] \subseteq File
         /\ pc[b] \notin Writing => Consistent(Slot(cfg[b]))
<1>1. b \in Build /\ pc[b] # "end"
  BY DEF Running
<1>2. Slot(cfg[b]) \in Key /\ Slot(cfg[b]) = cfg[b].key
  BY <1>1, ConfigsAre DEF OptionInv, Types
<1>3. pc[b] \notin Writing => Consistent(Slot(cfg[b]))
  BY <1>2 DEF CalmInv
<1> QED BY <1>1, <1>2, <1>3 DEF OptionInv, Types, ResultAtEnd, CalmInv

\* A step that leaves the cache alone and does not end in a miss.
LEMMA QuietStep ==
  ASSUME CacheInv, Types', calm,
         NEW b \in Running, pc[b] \notin Writing,
         NEW to \in Points \ {"idle"}, pc' = [pc EXCEPT ![b] = to],
         UNCHANGED <<disk, edits, since, cfg, cacheObj, cacheMeta>>,
         \A c \in Build : c # b => result'[c] = result[c],
         to # "end" => Knows(b)' /\ result'[b] = result[b],
         result'[b] # "miss",
         to \in Compiling \cup {"read"} => pc[b] \in Compiling \cup {"read"} \/ ~Current(Slot(cfg[b]))
  PROVE  CalmInv' /\ NoSpuriousMiss'
<1>1. OptionInv /\ CalmInv /\ NoSpuriousMiss
  BY DEF CacheInv
<1>2. Consistent(Slot(cfg[b]))
  BY <1>1, CalmHere
<1>3. Consistent(Slot(cfg[b]))'
  BY <1>2 DEF Consistent, MetaParses
<1> QED BY <1>1, <1>3, CalmStep

LEMMA CalmReuse ==
  ASSUME CacheInv, Types', calm, NEW b \in Build, Reuse(b), ~HashSource(b)
  PROVE  CalmInv' /\ NoSpuriousMiss'
<1> USE DEF Goto, Set, fsvars
<1>0. Types /\ b \in Running /\ pc[b] \notin Writing
  BY DEF CacheInv, OptionInv, Reuse, Lookup, LookupFails, Validate, ValidateFails, CopyHit, Running, Writing
<1>h. /\ Knows(b) /\ result[b] = "none" /\ Slot(cfg[b]) \in Key
      /\ used[b] \in Contents /\ deps[b] \in Contents /\ todo[b] \subseteq File
  BY <1>0, CalmHere DEF CacheInv
<1>1. CASE Lookup(b)
  <2>1. /\ pc[b] = "lookup" /\ pc' = [pc EXCEPT ![b] = "validate"] /\ MetaUsable(b)
        /\ UNCHANGED <<disk, edits, since, cfg, cacheObj, cacheMeta, result, hash, used>>
        /\ deps'[b] = cacheMeta[Slot(cfg[b])].deps /\ todo'[b] = DOMAIN deps'[b] /\ pc'[b] = "validate"
    BY <1>0, <1>1 DEF Lookup, Types
  <2>2. Knows(b)'
    BY <1>h, <2>1 DEF Knows, MetaUsable, MetaParses, AsOnDisk, Compiling, Writing
  <2> QED BY <1>0, <1>h, <2>1, <2>2, QuietStep DEF Points, Compiling
<1>2. CASE LookupFails(b)
  <2>1. /\ pc[b] = "lookup" /\ pc' = [pc EXCEPT ![b] = "read"] /\ ~MetaUsable(b)
        /\ UNCHANGED <<disk, edits, since, cfg, cacheObj, cacheMeta, result, hash, used>>
        /\ pc'[b] = "read"
    BY <1>0, <1>2 DEF LookupFails, Types
  <2>2. Knows(b)'
    BY <1>h, <2>1 DEF Knows, AsOnDisk, Compiling, Writing
  <2>3. ~Current(Slot(cfg[b]))
    BY <1>h, <2>1 DEF Knows, MetaUsable, Current
  <2> QED BY <1>0, <1>h, <2>1, <2>2, <2>3, QuietStep DEF Points
<1>3. CASE Validate(b)
  <2>1. PICK h \in todo[b] : /\ DepMatches(b, h)
                              /\ used' = [used EXCEPT ![b] = With(used[b], h, disk[h])]
                              /\ todo' = [todo EXCEPT ![b] = Visited(b, h)]
    BY <1>3 DEF Validate
  <2>2. /\ pc[b] = "validate" /\ pc' = [pc EXCEPT ![b] = "validate"] /\ pc'[b] = "validate"
        /\ UNCHANGED <<disk, edits, since, cfg, cacheObj, cacheMeta, result, hash, deps>>
        /\ used'[b] = With(used[b], h, disk[h]) /\ todo'[b] = todo[b] \ {h}
    BY <1>0, <1>3, <2>1 DEF Validate, Types, Visited
  <2>3. /\ DOMAIN used'[b] = DOMAIN used[b] \cup {h}
        /\ \A x \in DOMAIN used'[b] : used'[b][x] = IF x = h THEN disk[h] ELSE used[b][x]
    <3> DEFINE w == With(used[b], h, disk[h])
    <3>1. h \in File /\ disk[h] \in Content
      BY <1>0, <1>h DEF Types
    <3>2. /\ DOMAIN w = DOMAIN used[b] \cup {h}
          /\ \A x \in DOMAIN used[b] \cup {h} : w[x] = IF x = h THEN disk[h] ELSE used[b][x]
      BY DEF With
    <3>3. used'[b] = w
      BY <2>2
    <3> HIDE DEF w
    <3> QED BY <3>2, <3>3
  <2>4. Knows(b)'
    BY <1>h, <2>1, <2>2, <2>3 DEF Knows, AsOnDisk, Compiling, Writing, DepMatches, MetaParses
  <2> QED BY <1>0, <1>h, <2>2, <2>4, QuietStep DEF Points, Compiling
<1>4. CASE ValidateFails(b)
  <2>1. /\ pc[b] = "validate" /\ pc' = [pc EXCEPT ![b] = "read"] /\ pc'[b] = "read"
        /\ UNCHANGED <<disk, edits, since, cfg, cacheObj, cacheMeta, result, hash, used>>
        /\ \E h \in todo[b] : ~DepMatches(b, h)
    BY <1>0, <1>4 DEF ValidateFails, Types
  <2>2. Knows(b)'
    BY <1>h, <2>1 DEF Knows, AsOnDisk, Compiling, Writing
  <2>3. ~Current(Slot(cfg[b]))
    BY <1>h, <2>1 DEF Knows, DepMatches, Current
  <2> QED BY <1>0, <1>h, <2>1, <2>2, <2>3, QuietStep DEF Points
<1>5. CASE CopyHit(b)
  <2>1. /\ pc' = [pc EXCEPT ![b] = "end"] /\ result' = [result EXCEPT ![b] = "hit"]
        /\ UNCHANGED <<disk, edits, since, cfg, cacheObj, cacheMeta>>
    BY <1>5 DEF CopyHit, Finish
  <2>2. result'[b] = "hit" /\ \A c \in Build : c # b => result'[c] = result[c]
    BY <1>0, <2>1 DEF Types
  <2> QED BY <1>0, <2>1, <2>2, QuietStep DEF Points, Compiling
<1> QED BY <1>1, <1>2, <1>3, <1>4, <1>5 DEF Reuse

LEMMA CalmCompile ==
  ASSUME CacheInv, Types', calm, NEW b \in Build, Compile(b)
  PROVE  CalmInv' /\ NoSpuriousMiss'
<1> USE DEF Goto, Set, fsvars
<1>0. Types /\ b \in Running /\ pc[b] \notin Writing /\ pc[b] \in Compiling \cup {"read"}
  BY DEF CacheInv, OptionInv, Compile, ReadSource, ReadHeader, SourceError, Generate, Running, Writing, Compiling
<1>h. /\ Knows(b) /\ result[b] = "none" /\ used[b] \in Contents /\ todo[b] \subseteq File
  BY <1>0, CalmHere DEF CacheInv
<1>1. CASE ReadSource(b)
  <2>1. /\ pc' = [pc EXCEPT ![b] = "parse"] /\ pc'[b] = "parse"
        /\ UNCHANGED <<disk, edits, since, cfg, cacheObj, cacheMeta, result>>
        /\ used'[b] = [f \in {Src} |-> disk[Src]] /\ at'[b] = Empty
    BY <1>0, <1>1 DEF ReadSource, Types
  <2>2. disk[Src] # Absent
    BY <1>0 DEF Types
  <2>3. DOMAIN at'[b] = {} /\ DOMAIN used'[b] = ReadFor(at'[b])
    BY <2>1 DEF Empty, ReadFor
  <2>4. Knows(b)'
    BY <2>1, <2>2, <2>3 DEF Knows, AsOnDisk, Compiling, Writing
  <2> QED BY <1>0, <1>h, <2>1, <2>4, QuietStep DEF Points
<1>2. CASE ReadHeader(b)
  <2>1. PICK n \in Unresolved(b), h \in Header :
          /\ Found(b, n, h)
          /\ used' = [used EXCEPT ![b] = With(used[b], h, disk[h])]
          /\ at' = [at EXCEPT ![b] = With(at[b], n, h)]
    BY <1>2 DEF ReadHeader
  <2>2. /\ pc[b] = "parse" /\ pc' = [pc EXCEPT ![b] = "parse"] /\ pc'[b] = "parse"
        /\ UNCHANGED <<disk, edits, since, cfg, cacheObj, cacheMeta, result>>
        /\ used'[b] = With(used[b], h, disk[h]) /\ at'[b] = With(at[b], n, h)
        /\ n \in Name /\ n \in Includes[used[b][Src]] \ DOMAIN at[b] /\ disk[h] # Absent
    BY <1>0, <1>2, <2>1 DEF ReadHeader, Types, Unresolved, Found
  <2>3. /\ DOMAIN used'[b] = DOMAIN used[b] \cup {h}
        /\ \A x \in DOMAIN used'[b] : used'[b][x] = IF x = h THEN disk[h] ELSE used[b][x]
    <3> DEFINE w == With(used[b], h, disk[h])
    <3>2. /\ DOMAIN w = DOMAIN used[b] \cup {h}
          /\ \A x \in DOMAIN used[b] \cup {h} : w[x] = IF x = h THEN disk[h] ELSE used[b][x]
      BY DEF With
    <3>3. used'[b] = w
      BY <2>2
    <3> HIDE DEF w
    <3> QED BY <3>2, <3>3
  <2>4. /\ DOMAIN at'[b] = DOMAIN at[b] \cup {n}
        /\ \A x \in DOMAIN at'[b] : at'[b][x] = IF x = n THEN h ELSE at[b][x]
    <3>1. at[b] \in Wheres
      BY <1>0 DEF Types
    <3> DEFINE w == With(at[b], n, h)
    <3>2. DOMAIN w = DOMAIN at[b] \cup {n} /\ \A x \in DOMAIN at[b] \cup {n} : w[x] = IF x = n THEN h ELSE at[b][x]
      BY <2>2, <3>1, FoundOne
    <3>3. at'[b] = w
      BY <2>2
    <3> HIDE DEF w
    <3> QED BY <3>2, <3>3
  <2>5. /\ DOMAIN used[b] = ReadFor(at[b]) /\ DOMAIN at[b] \subseteq Includes[disk[Src]]
        /\ Src \in DOMAIN used[b] /\ AsOnDisk(used[b]) /\ \A x \in DOMAIN used[b] : disk[x] # Absent
    BY <1>h, <2>2 DEF Knows, Compiling
  <2>6. DOMAIN used'[b] = ReadFor(at'[b])
    BY <2>2, <2>3, <2>4, <2>5 DEF ReadFor
  <2>7. DOMAIN at'[b] \subseteq Includes[disk[Src]]
    BY <2>2, <2>4, <2>5 DEF AsOnDisk
  <2>8. Src \in DOMAIN used'[b] /\ AsOnDisk(used[b])' /\ \A x \in DOMAIN used'[b] : disk[x] # Absent
    BY <2>2, <2>3, <2>5 DEF AsOnDisk
  <2>9. Knows(b)'
    BY <2>2, <2>6, <2>7, <2>8 DEF Knows, Compiling, Writing
  <2> QED BY <1>0, <1>h, <2>2, <2>9, QuietStep DEF Points
<1>3. CASE SourceError(b)
  <2>1. /\ pc' = [pc EXCEPT ![b] = "end"] /\ result' = [result EXCEPT ![b] = "error"]
        /\ UNCHANGED <<disk, edits, since, cfg, cacheObj, cacheMeta>>
    BY <1>3 DEF SourceError, Finish
  <2>2. result'[b] = "error" /\ \A c \in Build : c # b => result'[c] = result[c]
    BY <1>0, <2>1 DEF Types
  <2> QED BY <1>0, <2>1, <2>2, QuietStep DEF Points, Compiling
<1>4. CASE Generate(b)
  <2>1. /\ pc[b] = "parse" /\ pc' = [pc EXCEPT ![b] = "record"] /\ pc'[b] = "record"
        /\ UNCHANGED <<disk, edits, since, cfg, cacheObj, cacheMeta, result, used, at>>
        /\ out'[b] = Object(cfg[b].key, used[b], at[b]) /\ deps'[b] = Empty /\ todo'[b] = DepFiles(b)
        /\ Unresolved(b) = {}
    BY <1>0, <1>4 DEF Generate, Types
  <2>2. DOMAIN Empty = {}
    BY DEF Empty
  <2>k. DOMAIN at[b] = Includes[disk[Src]]
    <3>1. disk[Src] \in Version
      BY <1>0, SourceAlone DEF Types, Content
    <3>2. Includes[disk[Src]] \subseteq Name /\ used[b][Src] = disk[Src]
      BY <1>h, <3>1, CacheAssumption DEF Knows, AsOnDisk
    <3>3. DOMAIN at[b] \subseteq Includes[disk[Src]]
      BY <1>h, <2>1 DEF Knows, Compiling
    <3> QED BY <2>1, <3>2, <3>3 DEF Unresolved
  <2>3. Knows(b)'
    BY <1>h, <2>1, <2>2, <2>k DEF Knows, AsOnDisk, Compiling, Writing, DepFiles, ReadFor
  <2> QED BY <1>0, <1>h, <2>1, <2>3, QuietStep DEF Points
<1> QED BY <1>1, <1>2, <1>3, <1>4 DEF Compile

LEMMA CalmUpdate ==
  ASSUME CacheInv, Types', calm, NEW b \in Build, Update(b)
  PROVE  CalmInv' /\ NoSpuriousMiss'
<1> USE DEF Goto, Set, fsvars
<1>0. /\ Types /\ OptionInv /\ CalmInv /\ NoSpuriousMiss /\ b \in Running
      /\ pc[b] \in Compiling /\ pc[b] # "parse"
  BY DEF CacheInv, OptionInv, Update, RecordDep, OpenCacheObj, FillCacheObj, OpenMeta, FlushMeta, CloseMeta,
         Running, Compiling
<1>h. /\ Knows(b) /\ result[b] = "none" /\ Slot(cfg[b]) \in Key /\ Slot(cfg[b]) = cfg[b].key
      /\ used[b] \in Contents /\ deps[b] \in Contents /\ todo[b] \subseteq File
  BY <1>0, CalmHere
<1>1. CASE RecordDep(b)
  <2>1. PICK h \in todo[b] : /\ deps' = [deps EXCEPT ![b] = WithDep(b, h)]
                              /\ todo' = [todo EXCEPT ![b] = Visited(b, h)]
    BY <1>1 DEF RecordDep
  <2>2. /\ pc[b] = "record" /\ pc' = [pc EXCEPT ![b] = "record"] /\ pc'[b] = "record"
        /\ UNCHANGED <<disk, edits, since, cfg, cacheObj, cacheMeta, result, used, at, out>>
        /\ deps'[b] = With(deps[b], h, disk[h]) /\ todo'[b] = todo[b] \ {h}
    BY <1>0, <1>1, <2>1 DEF RecordDep, Types, Visited, WithDep
  <2>3. /\ DOMAIN deps'[b] = DOMAIN deps[b] \cup {h}
        /\ \A x \in DOMAIN deps'[b] : deps'[b][x] = IF x = h THEN disk[h] ELSE deps[b][x]
    <3> DEFINE w == With(deps[b], h, disk[h])
    <3>1. h \in File /\ disk[h] \in Content
      BY <1>0, <1>h DEF Types
    <3>2. /\ DOMAIN w = DOMAIN deps[b] \cup {h}
          /\ \A x \in DOMAIN deps[b] \cup {h} : w[x] = IF x = h THEN disk[h] ELSE deps[b][x]
      BY DEF With
    <3>3. deps'[b] = w
      BY <2>2
    <3> HIDE DEF w
    <3> QED BY <3>2, <3>3
  <2>4. Knows(b)'
    BY <1>h, <2>1, <2>2, <2>3 DEF Knows, AsOnDisk, Compiling, Writing, DepFiles
  <2>5. pc[b] \notin Writing
    BY <2>2 DEF Writing
  <2> QED BY <1>0, <1>h, <2>2, <2>4, <2>5, QuietStep DEF Points
<1>2. CASE OpenCacheObj(b)
  <2>1. /\ pc[b] = "record" /\ pc' = [pc EXCEPT ![b] = "copy"] /\ pc'[b] = "copy" /\ todo[b] = {}
        /\ UNCHANGED <<disk, edits, since, cfg, cacheMeta, result, used, at, out, deps>>
        /\ \A k \in Key \ {Slot(cfg[b])} : cacheObj'[k] = cacheObj[k]
    BY <1>0, <1>2 DEF OpenCacheObj, Types
  <2>2. Knows(b)'
    BY <1>h, <2>1 DEF Knows, AsOnDisk, Compiling, Writing, DepFiles
  <2> QED BY <1>0, <1>h, <2>1, <2>2, CalmStep DEF Points, Writing
<1>3. CASE FillCacheObj(b)
  <2>1. /\ pc[b] = "copy" /\ pc' = [pc EXCEPT ![b] = "meta"] /\ pc'[b] = "meta"
        /\ UNCHANGED <<disk, edits, since, cfg, cacheMeta, result, used, at, out, deps>>
        /\ \A k \in Key \ {Slot(cfg[b])} : cacheObj'[k] = cacheObj[k]
        /\ cacheObj'[Slot(cfg[b])] = out[b]
    BY <1>0, <1>h, <1>3 DEF FillCacheObj, Types
  <2>2. Knows(b)'
    BY <1>h, <2>1 DEF Knows, AsOnDisk, Compiling, Writing, DepFiles
  <2> QED BY <1>0, <1>h, <2>1, <2>2, CalmStep DEF Points, Writing
<1>4. CASE OpenMeta(b)
  <2>1. /\ pc[b] = "meta" /\ pc' = [pc EXCEPT ![b] = "flush"] /\ pc'[b] = "flush"
        /\ UNCHANGED <<disk, edits, since, cfg, cacheObj, result, used, at, out, deps>>
        /\ \A k \in Key \ {Slot(cfg[b])} : cacheMeta'[k] = cacheMeta[k]
        /\ hash'[b] = disk[Src]
    BY <1>0, <1>h, <1>4 DEF OpenMeta, Types
  <2>2. Knows(b)'
    BY <1>h, <2>1 DEF Knows, AsOnDisk, Compiling, Writing, DepFiles
  <2> QED BY <1>0, <1>h, <2>1, <2>2, CalmStep DEF Points, Writing
<1>5. CASE FlushMeta(b)
  <2>1. /\ pc[b] = "flush" /\ pc' = [pc EXCEPT ![b] = "close"] /\ pc'[b] = "close"
        /\ UNCHANGED <<disk, edits, since, cfg, cacheObj, result, used, at, out, deps, hash>>
        /\ \A k \in Key \ {Slot(cfg[b])} : cacheMeta'[k] = cacheMeta[k]
    BY <1>0, <1>h, <1>5 DEF FlushMeta, Types
  <2>2. Knows(b)'
    BY <1>h, <2>1 DEF Knows, AsOnDisk, Compiling, Writing, DepFiles
  <2> QED BY <1>0, <1>h, <2>1, <2>2, CalmStep DEF Points, Writing
<1>6. CASE CloseMeta(b)
  <2> DEFINE k == Slot(cfg[b])
  <2>1. /\ pc[b] \in {"flush", "close"} /\ pc' = [pc EXCEPT ![b] = "end"]
        /\ UNCHANGED <<disk, edits, since, cfg, cacheObj, used, at>>
        /\ \A j \in Key \ {k} : cacheMeta'[j] = cacheMeta[j]
        /\ cacheMeta'[k] = Meta(hash[b], deps[b])
        /\ result'[b] = "miss" /\ \A c \in Build : c # b => result'[c] = result[c]
    BY <1>0, <1>h, <1>6 DEF CloseMeta, Finish, Types
  <2>2. /\ Src \in DOMAIN used[b] /\ AsOnDisk(used[b]) /\ hash[b] = disk[Src]
        /\ \A h \in DOMAIN used[b] : disk[h] # Absent
        /\ DOMAIN deps[b] = DOMAIN used[b] \ {Src} /\ AsOnDisk(deps[b])
        /\ cacheObj[k] = Object(k, used[b], at[b])
        /\ DOMAIN at[b] = Includes[disk[Src]] /\ DOMAIN used[b] = ReadFor(at[b])
    BY <1>h, <2>1 DEF Knows, Compiling, Writing, DepFiles
  <2>3. /\ cacheMeta'[k].state = "written" /\ cacheMeta'[k].source = disk[Src]
        /\ cacheMeta'[k].deps = deps[b]
    BY <2>1, <2>2 DEF Meta
  <2>4. With(deps[b], Src, disk[Src]) = used[b]
    <3>1. used[b] = [h \in DOMAIN used[b] |-> used[b][h]]
      BY <1>h, ContentsAre
    <3>2. DOMAIN deps[b] \cup {Src} = DOMAIN used[b]
      BY <2>2
    <3>3. \A h \in DOMAIN used[b] : used[b][h] = IF h = Src THEN disk[Src] ELSE deps[b][h]
      BY <2>2 DEF AsOnDisk
    <3> QED BY <3>1, <3>2, <3>3 DEF With
  <2>5. Consistent(k)'
    <3>1. /\ cacheObj[k].state = "written" /\ cacheObj[k].key = k
          /\ cacheObj[k].from = used[b] /\ cacheObj[k].at = at[b]
      BY <2>2 DEF Object
    <3>2. DOMAIN deps[b] \cup {Src} = DOMAIN used[b]
      BY <2>2
    <3> QED BY <2>1, <2>2, <2>3, <2>4, <3>1, <3>2 DEF Consistent
  <2>6. Current(k)'
    <3>1. cacheObj[k] # NoFile
      BY <2>2 DEF Object, NoFile
    <3> QED BY <2>1, <2>2, <2>3, <3>1 DEF Current, MetaParses, AsOnDisk
  <2>7. /\ Consistent(Slot(cfg[b]))' /\ Current(Slot(cfg[b]))'
        /\ \A j \in Key \ {Slot(cfg[b])} : cacheObj'[j] = cacheObj[j] /\ cacheMeta'[j] = cacheMeta[j]
    BY <2>1, <2>5, <2>6
  <2> HIDE DEF k
  <2> QED BY <1>0, <1>h, <2>1, <2>7, CalmStep DEF Points
<1> QED BY <1>1, <1>2, <1>3, <1>4, <1>5, <1>6 DEF Update

LEMMA CacheInit == Init => CacheInv
<1> SUFFICES ASSUME Init PROVE CacheInv
  OBVIOUS
<1>1. OptionInv
  BY OptionInit
<1>2. Running = {} /\ MissedNow = {}
  BY DEF Init, Running, MissedNow
<1>3. \A k \in Key : Consistent(k)
  BY DEF Init, Consistent, MetaParses, NoFile
<1>4. NotAhead /\ NoSpuriousMiss
  BY DEF Init, NotAhead, NoSpuriousMiss
<1> QED BY <1>1, <1>2, <1>3, <1>4 DEF CacheInv, CalmInv

LEMMA CacheStep == CacheInv /\ [Next]_vars => CacheInv'
<1> SUFFICES ASSUME CacheInv, [Next]_vars PROVE CacheInv'
  OBVIOUS
<1>0. OptionInv' /\ Types /\ Types'
  BY OptionStep DEF CacheInv, OptionInv
<1>1. ~calm' => NoSpuriousMiss'
  BY DEF NoSpuriousMiss
<1>2. CASE Edit
  <2>1. NotAhead'
    BY <1>0, <1>2 DEF Edit, NotAhead, CacheInv, Types
  <2> QED BY <1>0, <1>1, <1>2, <2>1, CalmEdit DEF CacheInv
<1>3. ASSUME NEW b \in Build, Crash(b) PROVE CacheInv'
  <2>1. ~calm' /\ UNCHANGED <<since, edits>>
    BY <1>3 DEF Crash, Disturb
  <2> QED BY <1>0, <1>1, <2>1 DEF CacheInv, NotAhead
<1>4. ASSUME NEW b \in Build, BuildStep(b) PROVE CacheInv'
  <2>1. CASE HashSource(b)
    <3>1. NotAhead'
      BY <1>0, <2>1 DEF HashSource, Set, NotAhead, CacheInv, Types
    <3> QED BY <1>0, <1>1, <2>1, <3>1, CalmHashSource DEF CacheInv
  <2>2. CASE ~HashSource(b)
    <3>1. UNCHANGED <<since, edits, calm>>
      BY <1>4, <2>2 DEF BuildStep, Reuse, Lookup, LookupFails, Validate, ValidateFails, CopyHit,
           Compile, ReadSource, ReadHeader, SourceError, Generate,
           Update, RecordDep, OpenCacheObj, FillCacheObj, OpenMeta, FlushMeta, CloseMeta, fsvars
    <3>2. NotAhead'
      BY <3>1 DEF CacheInv, NotAhead
    <3>3. calm' => CalmInv' /\ NoSpuriousMiss'
      BY <1>0, <1>4, <2>2, <3>1, CalmReuse, CalmCompile, CalmUpdate DEF BuildStep
    <3> QED BY <1>0, <1>1, <3>2, <3>3 DEF CacheInv
  <2> QED BY <2>1, <2>2
<1>5. CASE UNCHANGED vars
  <2>1. /\ UNCHANGED <<disk, edits, cacheObj, cacheMeta, calm, pc, cfg, hash, todo, deps, used, at, out, result, since>>
        /\ Running' = Running /\ MissedNow' = MissedNow
    BY <1>5 DEF vars, fsvars, Running, MissedNow
  <2>2. NotAhead' /\ NoSpuriousMiss'
    BY <2>1 DEF CacheInv, NotAhead, NoSpuriousMiss
  <2>3. calm' => CalmInv'
    <3>1. /\ \A b \in Build : Knows(b)' = Knows(b)
          /\ \A k \in Key : Consistent(k)' = Consistent(k) /\ Current(k)' = Current(k)
      BY <2>1 DEF Knows, Consistent, Current, AsOnDisk, MetaParses, DepFiles
    <3>2. \A b \in Running : b \in Build
      BY DEF Running
    <3>3. \A b \in MissedNow : Slot(cfg[b]) \in Key
      <4>1. \A b \in MissedNow : cfg[b] \in Config
        BY <1>0 DEF MissedNow, Types
      <4> QED BY <4>1, ConfigsAre
    <3> SUFFICES ASSUME calm PROVE CalmInv'
      BY <2>1
    <3>4. CalmInv
      BY DEF CacheInv
    <3> QED BY <2>1, <3>1, <3>2, <3>3, <3>4 DEF CalmInv
  <2> QED BY <1>0, <2>2, <2>3 DEF CacheInv
<1> QED BY <1>2, <1>3, <1>4, <1>5 DEF Next

\* Between builds that followed one another, the metadata of every slot says
\* what its object was compiled from.
THEOREM SlotsStayConsistent == Spec => []SlotsConsistent
<1>1. CacheInv => SlotsConsistent
  BY DEF CacheInv, CalmInv, Consistent, SlotsConsistent
<1> QED BY CacheInit, CacheStep, <1>1, PTL DEF Spec

\* A build that misses compiled files that no build with its options had
\* compiled before.
THEOREM MissesAreNecessary == Spec => []NoSpuriousMiss
<1>1. CacheInv => NoSpuriousMiss
  BY DEF CacheInv
<1> QED BY CacheInit, CacheStep, <1>1, PTL DEF Spec

LEMMA FreshStep ==
  ASSUME CacheInv, [Next]_vars
  PROVE  [\A b \in Build :
             calm /\ Hits(b) /\ SamePlaces(b, out'[b]) => Compiled(b, out'[b])]_vars
<1> SUFFICES ASSUME Next, NEW b \in Build, calm, Hits(b), SamePlaces(b, out'[b])
             PROVE  Compiled(b, out'[b])
  BY DEF vars
<1>0. Types /\ Types'
  BY TypesStep DEF CacheInv, OptionInv
<1>1. CopyHit(b)
  <2>1. result[b] # "hit" /\ result'[b] = "hit"
    BY DEF Hits
  <2>2. ~Edit /\ \A c \in Build : ~Crash(c)
    BY <2>1 DEF Edit, Crash
  <2>3. PICK c \in Build : BuildStep(c)
    BY <2>2 DEF Next
  <2>4. CopyHit(c)
    BY <1>0, <2>1, <2>3 DEF BuildStep, Reuse, HashSource, Lookup, LookupFails, Validate, ValidateFails,
         Compile, ReadSource, ReadHeader, SourceError, Generate,
         Update, RecordDep, OpenCacheObj, FillCacheObj, OpenMeta, FlushMeta, CloseMeta, Finish, Types
  <2>5. c = b
    BY <1>0, <2>1, <2>4 DEF CopyHit, Finish, Types
  <2> QED BY <2>4, <2>5
<1>2. /\ pc[b] = "validate" /\ todo[b] = {} /\ out'[b] = cacheObj[Slot(cfg[b])]
      /\ b \in Running /\ pc[b] \notin Writing
  BY <1>0, <1>1 DEF CopyHit, Goto, Set, Types, Running, Writing
<1> DEFINE k == Slot(cfg[b])
           d == cacheMeta[k].deps
<1>3. /\ Knows(b) /\ Consistent(k) /\ k = cfg[b].key /\ deps[b] \in Contents
  BY <1>2, CalmHere DEF CacheInv
<1>4. /\ Src \in DOMAIN used[b] /\ AsOnDisk(used[b]) /\ cacheMeta[k].source = disk[Src]
      /\ d = deps[b] /\ \A h \in DOMAIN d : d[h] = disk[h]
  BY <1>2, <1>3 DEF Knows
<1> DEFINE o == out'[b]
<1>5. /\ o.state = "written" /\ o.key = cfg[b].key /\ o.from = With(d, Src, disk[Src])
      /\ DOMAIN o.at = Includes[disk[Src]] /\ DOMAIN d \cup {Src} = ReadFor(o.at)
  BY <1>2, <1>3, <1>4 DEF Knows, Consistent
<1> HIDE DEF o, d
<1>6. o.from = [f \in {Src} \cup {o.at[n] : n \in DOMAIN o.at} |-> disk[f]]
  <2>1. With(d, Src, disk[Src]) = [f \in DOMAIN d \cup {Src} |-> disk[f]]
    BY <1>4 DEF With
  <2> QED BY <1>5, <2>1 DEF ReadFor
<1>7. \A n \in DOMAIN o.at : Found(b, n, o.at[n])
  <2>1. o # Truncated
    BY <1>5 DEF Truncated
  <2> QED BY <2>1 DEF SamePlaces, o
<1>8. Compiled(b, o)
  BY <1>5, <1>6, <1>7 DEF Compiled
<1> QED BY <1>8 DEF o

\* While builds follow one another, a build that copies a slot's object
\* (driver_build_try_reuse_object) leaves in its output what compiling the files as
\* they are now would give, whatever was edited in between, provided every name
\* the source includes is found in the file it was found in when the object was made.
THEOREM HitsAreFresh == Spec => HitIsFresh
BY CacheInit, CacheStep, FreshStep, PTL DEF Spec, HitIsFresh
=============================================================================

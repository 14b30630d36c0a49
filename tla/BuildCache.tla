----------------------------- MODULE BuildCache -----------------------------
(***************************************************************************)
(* The incremental object cache: driver_build_try_reuse_object and         *)
(* driver_build_update_cache (src/src/driver/driver_build.c) around the    *)
(* compilation of one source file by compile_one_ir (driver_pipeline.c).   *)
(*                                                                         *)
(* Several compiler processes may share the cache directory; the user may  *)
(* edit the source and its headers; a process may be killed.  Each read or *)
(* write of a file is a step, since nothing locks the cache.  Content      *)
(* hashes are the contents themselves: FNV collisions are not modelled,    *)
(* and neither are failing reads and writes.                               *)
(***************************************************************************)
EXTENDS Integers, FiniteSets, Functions, Sequences

CONSTANTS
    Builds,         \* number of compiler processes, each run once
    Key,            \* values of the options hashed by build_slot_hex
    Env,            \* values of $BAA_HOME and $BAA_STDLIB
    Config,         \* environments and options builds are run with
    Header,         \* header files
    Name,           \* names written after an include
    Places,         \* Places[e][k][n]: where name n is looked for, in order
    Version,        \* contents of a file
    Includes,       \* Includes[v]: names the source includes at version v
    Warns,          \* versions of the source that give a warning
    MaxEdits,       \* bound on the number of edits
    MaxDisturbed    \* bound on the builds begun when they do not run in turn

ASSUME CacheAssumption ==
    /\ Config \subseteq [env : Env, key : Key, werror : BOOLEAN] /\ Config # {}
    /\ "source" \notin Header /\ "absent" \notin Version
    /\ Places \in [Env -> [Key -> [Name -> Seq(Header)]]]
    /\ Includes \in [Version -> SUBSET Name]
    /\ Warns \subseteq Version
    /\ {Builds, MaxEdits, MaxDisturbed} \subseteq Nat

Build == 1 .. Builds     \* numbered in the order in which they begin
Src == "source"
Absent == "absent"      \* no such file; also the hash recorded for one
File == {Src} \cup Header

VARIABLES
    disk,       \* contents of the source files
    edits,      \* edits so far
    cacheObj,   \* cacheObj[k]: the cached object of slot k
    cacheMeta,  \* cacheMeta[k]: the metadata file of slot k
    pc, cfg,    \* where each build is, its options
    hash,       \* source hash the build computed last
    todo,       \* headers the current loop still has to visit
    deps,       \* dependency hashes read from, or to be put into, metadata
    used,       \* contents the build read: to hash them or to compile them
    at,         \* at[b][n]: the file name n was found in, for those resolved
    out,        \* the object file the build produced
    result,     \* "hit", "miss", "error" or "none"
    since,      \* edits when the build began
    calm        \* history: builds ran one by one to their end, edits in between

fsvars == <<disk, edits, cacheObj, cacheMeta, calm>>
vars == <<fsvars, pc, cfg, hash, todo, deps, used, at, out, result, since>>

Empty == [f \in {} |-> Absent]

\* A file of the cache, or the object a build produced: not there, opened for
\* writing and truncated, or written.
NoFile == [state |-> "none"]
Truncated == [state |-> "truncated"]
Object(k, contents, where) ==
    [state |-> "written", key |-> k, from |-> contents, at |-> where]
Meta(h, d) == [state |-> "written", source |-> h, deps |-> d]

\* build_slot_hex: version, source path, target, assembler, code generation
\* options and include directories.  Warning options and the environment are
\* not part of it.
SlotShared(c) == CHOOSE k \in Key : TRUE
Slot(c) == c.key

Running == {b \in Build : pc[b] \notin {"idle", "end"}}
Begun == {b \in Build : pc[b] # "idle"}

\* Is the next step calm too, or one of those that MaxDisturbed admits?
Disturb(still) ==
    /\ calm' = (calm /\ still)
    /\ calm' \/ Cardinality(Begun') <= MaxDisturbed

Init ==
    /\ disk \in [File -> Version \cup {Absent}] /\ disk[Src] # Absent
    /\ edits = 0
    /\ cacheObj = [k \in Key |-> NoFile]
    /\ cacheMeta = [k \in Key |-> NoFile]
    /\ pc = [b \in Build |-> "idle"]
    /\ cfg = [b \in Build |-> CHOOSE c \in Config : TRUE]
    /\ hash = [b \in Build |-> Absent]
    /\ todo = [b \in Build |-> {}]
    /\ deps = [b \in Build |-> Empty]
    /\ used = [b \in Build |-> Empty]
    /\ at = [b \in Build |-> Empty]
    /\ out = [b \in Build |-> NoFile]
    /\ result = [b \in Build |-> "none"]
    /\ since = [b \in Build |-> 0]
    /\ calm = TRUE

\* Step from one point of a build to another, leaving the rest of it alone.
Goto(b, from, to) == pc[b] = from /\ pc' = [pc EXCEPT ![b] = to]
Finish(b, r) == result' = [result EXCEPT ![b] = r]
Set(f, b, v) == [f EXCEPT ![b] = v]
\* What a loop over files still has to visit after h.
Visited(b, h) == todo[b] \ {h}
With(f, h, v) == [x \in DOMAIN f \cup {h} |-> IF x = h THEN v ELSE f[x]]

-----------------------------------------------------------------------------
(* driver_build_try_reuse_object                                           *)

HashSource(b) ==
    /\ \A c \in Build : c < b => pc[c] # "idle"
    /\ Goto(b, "idle", "lookup")
    /\ Disturb(Running = {})
    /\ hash' = Set(hash, b, disk[Src])
    /\ \E c \in Config : cfg' = Set(cfg, b, c)
    /\ used' = Set(used, b, [f \in {Src} |-> disk[Src]])
    /\ since' = Set(since, b, edits)
    /\ UNCHANGED <<disk, edits, cacheObj, cacheMeta, todo, deps, at, out, result>>

\* parse_cache_meta, the comparison of the source hash and the test that the
\* object can be opened.  A truncated file does not parse.
MetaParses(k) == cacheMeta[k].state = "written"
MetaUsableAnySource(b) == MetaParses(Slot(cfg[b])) /\ cacheObj[Slot(cfg[b])] # NoFile
MetaUsable(b) ==
    /\ MetaParses(Slot(cfg[b]))
    /\ cacheMeta[Slot(cfg[b])].source = hash[b]
    /\ cacheObj[Slot(cfg[b])] # NoFile

Lookup(b) ==
    /\ Goto(b, "lookup", "validate")
    /\ MetaUsable(b)
    /\ deps' = Set(deps, b, cacheMeta[Slot(cfg[b])].deps)
    /\ todo' = Set(todo, b, DOMAIN cacheMeta[Slot(cfg[b])].deps)
    /\ UNCHANGED <<fsvars, cfg, hash, used, at, out, result, since>>

LookupFails(b) ==
    /\ Goto(b, "lookup", "read")
    /\ ~MetaUsable(b)
    /\ UNCHANGED <<fsvars, cfg, hash, todo, deps, used, at, out, result, since>>

\* cache_meta_valid: hash every dependency again.
DepAlwaysMatches(b, h) == TRUE
DepNeverMatches(b, h) == FALSE
DepMatches(b, h) == disk[h] # Absent /\ disk[h] = deps[b][h]

Validate(b) ==
    /\ Goto(b, "validate", "validate")
    /\ \E h \in todo[b] :
         /\ DepMatches(b, h)
         /\ used' = Set(used, b, With(used[b], h, disk[h]))
         /\ todo' = Set(todo, b, Visited(b, h))
    /\ UNCHANGED <<fsvars, cfg, hash, deps, at, out, result, since>>

ValidateFails(b) ==
    /\ Goto(b, "validate", "read")
    /\ \E h \in todo[b] : ~DepMatches(b, h)
    /\ UNCHANGED <<fsvars, cfg, hash, todo, deps, used, at, out, result, since>>

CopyHit(b) ==
    /\ Goto(b, "validate", "end")
    /\ todo[b] = {}
    /\ out' = Set(out, b, cacheObj[Slot(cfg[b])])
    /\ Finish(b, "hit")
    /\ UNCHANGED <<fsvars, cfg, hash, todo, deps, used, at, since>>

-----------------------------------------------------------------------------
(* compile_one_ir after a miss: the source is read, then the headers it    *)
(* includes, as the lexer meets them.  Headers include nothing themselves. *)

\* lex_resolve_and_read_include: the first of several places that has the file.
Found(b, n, h) ==
    LET places == Places[cfg[b].env][cfg[b].key][n]
    IN  \E i \in DOMAIN places :
          /\ h = places[i] /\ disk[h] # Absent
          /\ \A j \in 1 .. i - 1 : disk[places[j]] = Absent

Missing(b, n) ==
    LET places == Places[cfg[b].env][cfg[b].key][n]
    IN  \A i \in DOMAIN places : disk[places[i]] = Absent

\* The names of the source as it was read that are still to be resolved.
Unresolved(b) == {n \in Name \ DOMAIN at[b] : n \in Includes[used[b][Src]]}

ReadSource(b) ==
    /\ Goto(b, "read", "parse")
    /\ used' = Set(used, b, [f \in {Src} |-> disk[Src]])
    /\ at' = Set(at, b, Empty)
    /\ UNCHANGED <<fsvars, cfg, hash, todo, deps, out, result, since>>

ReadHeader(b) ==
    /\ Goto(b, "parse", "parse")
    /\ \E n \in Unresolved(b), h \in Header :
         /\ Found(b, n, h)
         /\ at' = Set(at, b, With(at[b], n, h))
         /\ used' = Set(used, b, With(used[b], h, disk[h]))
    /\ UNCHANGED <<fsvars, cfg, hash, todo, deps, out, result, since>>

\* The source file does not compile: a header is nowhere, or a warning was
\* given under -Werror.
Rejects(b) ==
    \/ \E n \in Unresolved(b) : Missing(b, n)
    \/ Unresolved(b) = {} /\ cfg[b].werror /\ used[b][Src] \in Warns

SourceError(b) ==
    /\ Goto(b, "parse", "end")
    /\ Rejects(b)
    /\ Finish(b, "error")
    /\ UNCHANGED <<fsvars, cfg, hash, todo, deps, used, at, out, since>>

\* fill_deps: the files the lexer opened, without the source itself.
DepFiles(b) == DOMAIN used[b] \ {Src}

\* Lowering, optimisation, code generation and assembly into the object file.
Generate(b) ==
    /\ Goto(b, "parse", "record")
    /\ Unresolved(b) = {}
    /\ ~Rejects(b)
    /\ out' = Set(out, b, Object(cfg[b].key, used[b], at[b]))
    /\ deps' = Set(deps, b, Empty)
    /\ todo' = Set(todo, b, DepFiles(b))
    /\ UNCHANGED <<fsvars, cfg, hash, used, at, result, since>>

-----------------------------------------------------------------------------
(* driver_build_update_cache: the dependencies are hashed now, the object  *)
(* is copied into the slot, then the metadata is written with the hash the *)
(* source has by then.                                                     *)

NoDeps(b, h) == deps[b]
WithDep(b, h) == With(deps[b], h, disk[h])

RecordDep(b) ==
    /\ Goto(b, "record", "record")
    /\ \E h \in todo[b] :
         /\ deps' = Set(deps, b, WithDep(b, h))
         /\ todo' = Set(todo, b, Visited(b, h))
    /\ UNCHANGED <<fsvars, cfg, hash, used, at, out, result, since>>

OpenCacheObj(b) ==
    /\ Goto(b, "record", "copy")
    /\ todo[b] = {}
    /\ cacheObj' = Set(cacheObj, Slot(cfg[b]), Truncated)
    /\ UNCHANGED <<disk, edits, calm, cacheMeta, cfg, hash, todo, deps, used, at, out, result, since>>

FillCacheObj(b) ==
    /\ Goto(b, "copy", "meta")
    /\ cacheObj' = Set(cacheObj, Slot(cfg[b]), out[b])
    /\ UNCHANGED <<disk, edits, calm, cacheMeta, cfg, hash, todo, deps, used, at, out, result, since>>

\* write_cache_meta opens the file first and hashes the source after that.
OpenMeta(b) ==
    /\ Goto(b, "meta", "flush")
    /\ cacheMeta' = Set(cacheMeta, Slot(cfg[b]), Truncated)
    /\ hash' = Set(hash, b, disk[Src])
    /\ UNCHANGED <<disk, edits, calm, cacheObj, cfg, todo, deps, used, at, out, result, since>>

\* The stdio buffer fills before the list of dependencies is complete.  What
\* is on disk then parses as metadata with fewer dependencies.
FlushMeta(b) ==
    /\ Goto(b, "flush", "close")
    /\ \E D \in SUBSET DOMAIN deps[b] :
         /\ D # DOMAIN deps[b]
         /\ cacheMeta' = Set(cacheMeta, Slot(cfg[b]), Meta(hash[b], Restrict(deps[b], D)))
    /\ UNCHANGED <<disk, edits, calm, cacheObj, cfg, hash, todo, deps, used, at, out, result, since>>

CloseMeta(b) ==
    /\ pc[b] \in {"flush", "close"}
    /\ Goto(b, pc[b], "end")
    /\ cacheMeta' = Set(cacheMeta, Slot(cfg[b]), Meta(hash[b], deps[b]))
    /\ Finish(b, "miss")
    /\ UNCHANGED <<disk, edits, calm, cacheObj, cfg, hash, todo, deps, used, at, out, since>>

-----------------------------------------------------------------------------
(* The surroundings.                                                       *)

Edit ==
    /\ edits < MaxEdits
    /\ \E f \in File, v \in Version \cup {Absent} :
         /\ v # disk[f]
         /\ f = Src => v # Absent
         /\ disk' = [disk EXCEPT ![f] = v]
    /\ edits' = edits + 1
    /\ UNCHANGED <<cacheObj, cacheMeta, pc, cfg, hash, todo, deps, used, at, out, result, since>>
    /\ Disturb(Running = {})

Crash(b) ==
    /\ b \in Running
    /\ pc' = [pc EXCEPT ![b] = "end"]
    /\ Disturb(FALSE)
    /\ UNCHANGED <<disk, edits, cacheObj, cacheMeta, cfg, hash, todo, deps, used, at, out, result, since>>

Reuse(b) ==
    \/ HashSource(b) \/ Lookup(b) \/ LookupFails(b)
    \/ Validate(b) \/ ValidateFails(b) \/ CopyHit(b)
Compile(b) == ReadSource(b) \/ ReadHeader(b) \/ SourceError(b) \/ Generate(b)
Update(b) ==
    \/ RecordDep(b) \/ OpenCacheObj(b) \/ FillCacheObj(b)
    \/ OpenMeta(b) \/ FlushMeta(b) \/ CloseMeta(b)

BuildStep(b) == Reuse(b) \/ Compile(b) \/ Update(b)
Next == Edit \/ \E b \in Build : BuildStep(b) \/ Crash(b)

Spec == Init /\ [][Next]_vars

-----------------------------------------------------------------------------

Content == Version \cup {Absent}

Hits(b) == result[b] # "hit" /\ result'[b] = "hit"

\* The object that compiling now with b's options in b's environment generates.
Compiled(b, o) ==
    /\ o.state = "written" /\ o.key = cfg[b].key
    /\ DOMAIN o.at = Includes[disk[Src]]
    /\ \A n \in DOMAIN o.at : Found(b, n, o.at[n])
    /\ o.from = [f \in {Src} \cup {o.at[n] : n \in DOMAIN o.at} |-> disk[f]]

\* Every name the object was compiled from is found now where it was then: no
\* header was created in a place that is looked at earlier, and the environment
\* leads to the same files.  Nothing in a slot says where names were not found.
SamePlaces(b, o) == o # Truncated => \A n \in DOMAIN o.at : Found(b, n, o.at[n])

\* As long as builds follow one another and files are edited between them, a
\* reused object is what compiling now would generate (never an older source or
\* header, never an object cut short), unless a name is now found elsewhere.
HitIsFresh ==
    [][\A b \in Build :
         calm /\ Hits(b) /\ SamePlaces(b, out'[b]) => Compiled(b, out'[b])]_vars

\* Objects of one set of options never reach a build with another one, even
\* when builds, edits and crashes interleave freely.
OptionsRespected ==
    \A b \in Build :
        result[b] = "hit" /\ out[b] # Truncated => out[b].key = cfg[b].key

\* Whatever the cache holds between builds, its metadata describes its object.
SlotsConsistent ==
    calm /\ Running = {} =>
        \A k \in Key : MetaParses(k) =>
            /\ cacheObj[k].state = "written" /\ cacheObj[k].key = k
            /\ cacheObj[k].from = With(cacheMeta[k].deps, Src, cacheMeta[k].source)

\* Nothing is compiled twice: of the builds with the same slot that began
\* with the same files, at most one misses.
NoSpuriousMiss ==
    \A b, c \in Build :
        /\ calm /\ b # c
        /\ result[b] = "miss" /\ result[c] = "miss"
        /\ Slot(cfg[b]) = Slot(cfg[c])
        => since[b] # since[c]
=============================================================================

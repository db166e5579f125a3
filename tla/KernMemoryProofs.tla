-------------------------- MODULE KernMemoryProofs ---------------------------
(* The objects of WASM programs, for any number of spawns and files, the     *)
(* kernel heap they are allocated from, for any sizes, and the regions that  *)
(* processes share, for any tables.  WasmInv gives every object one owner: a *)
(* field of ra, a local, the runtime, or the parse cache; Own(p) reads it off*)
(* where the thread p is, and a step changes the objects of its own thread   *)
(* only, so that there is one lemma per action.  SerialInv is about the parse*)
(* cache when spawns are made one at a time.  HeapInv says that the blocks   *)
(* tile the heap and that what is in use has a holder; RefInv that a region  *)
(* counts the handles on it.                                                 *)
EXTENDS KernWasm, KernHeap, KernShmem, SequenceTheorems, FiniteSetTheorems, WellFoundedInduction, TLAPS

Labels ==
  {"unborn", "open", "env", "runtime", "envNull", "lookup", "hit", "hitNull", "parse", "insert", "link",
   "handOver", "clone", "load", "run", "free_runtime", "null_runtime", "free_env", "null_env",
   "free_data", "null_data", "free_path", "null_path", "done", "dead", "gone"}

\* Where a thread is before the entry it may make is in the list.
Unlisted == {"unborn", "open", "env", "runtime", "envNull", "lookup", "hit", "hitNull", "parse", "insert", "link"}

\* Where a thread is after the four tests at Label_Done, field by field.
Past == [runtime |-> {"free_env", "null_env", "free_data", "null_data", "free_path", "null_path", "done"},
         env     |-> {"free_data", "null_data", "free_path", "null_path", "done"},
         data    |-> {"free_path", "null_path", "done"},
         path    |-> {"done"}]

WasmTypes ==
  /\ serial \in BOOLEAN
  /\ pc \in [Spawns -> Labels]
  /\ file \in [Spawns -> Files \cup {Null}]
  /\ heap \in [Objects -> {"none", "live", "freed", "twice"}]
  /\ ra \in [Spawns -> SUBSET Fields]
  /\ loc \in [Spawns -> SUBSET {"runtime", "env", "data"}]
  /\ module \in [Spawns -> {Null, "master", "clone"}]
  /\ from \in [Spawns -> Spawns \cup {Null}]
  /\ cache \in Seq(Spawns) /\ tail \in [Spawns -> Seq(Spawns)]
  /\ loaded \subseteq Spawns /\ cut \subseteq killed
  /\ killed \subseteq {p \in Spawns : pc[p] \in {"dead", "gone"}}

\* The field f is released and still named.
Released(p, f) ==
  \/ pc[p] = NullAt[f]
  \/ f = "env" /\ pc[p] = "envNull"
  \/ f = "data" /\ pc[p] = "hitNull"

\* ra names what there is of the four fields, except that the bytes can belong
\* to the cache.
FieldsOwned(p) ==
  \A f \in Fields :
    /\ f \in ra[p] => heap[<<f, p>>] = IF Released(p, f) THEN "freed" ELSE "live"
    /\ f \notin ra[p] /\ heap[<<f, p>>] = "live" => f = "data" /\ heap[<<"entry", p>>] = "live"

\* What the locals name until Label_Done has dealt with it.
LocalsAgree(p) ==
  pc[p] \notin {"dead", "gone"} =>
    \A f \in Fields :
      IF pc[p] \in Past[f] THEN f \notin ra[p]
      ELSE /\ f \in ra[p] => f \in loc[p] \/ f = "path"
           /\ f \in loc[p] => f \in ra[p] \/ (f = "env" /\ heap[<<"runtime", p>>] = "none")

HasModule(p) == module[p] \in {"master", "clone"}

\* Who owns the module that a thread has made.
ModuleOwned(p) ==
  /\ p \in loaded => /\ HasModule(p)
                     /\ pc[p] \in {"run", "free_runtime", "null_runtime", "dead"} \cup Past["runtime"]
  /\ p \in loaded /\ "runtime" \in ra[p] =>
       \A o \in Loaded(p) : heap[o] = IF pc[p] = "null_runtime" THEN "freed" ELSE "live"
  /\ p \notin loaded /\ HasModule(p) => pc[p] \in {"load", "dead"}
  /\ pc[p] = "load" => p \notin loaded /\ HasModule(p) /\ Live(Loaded(p))
  /\ pc[p] = "run" => p \in loaded
  /\ pc[p] \in {"load", "run"} => IF module[p] = "master" THEN "data" \in ra[p] ELSE from[p] # Null

Keeps(p) == pc[p] = "load" \/ (p \in loaded /\ "runtime" \in ra[p])
NamesOwned(p) ==
  p \notin killed =>
    /\ \A k \in {"clone", "cloneNames"} :
         heap[<<k, p>>] = "live" => module[p] = "clone" /\ Keeps(p)
    /\ \A k \in {"master", "masterNames"} :
         heap[<<k, p>>] = "live" => \/ pc[p] = "insert" \/ heap[<<"entry", p>>] = "live"
                                    \/ module[p] = "master" /\ Keeps(p)

\* What a thread has at each of its steps.
Progress(p) ==
  /\ pc[p] = "unborn" => /\ \A k \in Kinds : heap[<<k, p>>] = "none"
                         /\ ra[p] = {} /\ loc[p] = {} /\ module[p] = Null
  /\ pc[p] \in {"open", "env", "runtime", "envNull"} => heap[<<"runtime", p>>] = "none"
  /\ pc[p] \in {"runtime", "envNull"} => "env" \in ra[p]
  /\ pc[p] \in {"env", "runtime", "lookup", "hit", "hitNull", "parse", "insert", "link", "handOver"} => "data" \in ra[p]
  /\ pc[p] \in {"lookup", "hit", "hitNull", "parse", "insert", "link", "handOver", "clone", "load", "run"} =>
       {"env", "runtime"} \subseteq ra[p]
  /\ pc[p] \in {"insert", "link"} => Live({<<"master", p>>, <<"masterNames", p>>})
  /\ pc[p] \in {"link", "handOver"} => Live({<<"entry", p>>})
  /\ pc[p] \in {"hit", "hitNull", "handOver", "clone"} => from[p] # Null
  /\ heap[<<"args", p>>] = "live" <=> pc[p] \notin {"unborn", "gone"}
  /\ pc[p] = "gone" => ra[p] = {}

NoneTwice(p) ==
  \A k \in Kinds : heap[<<k, p>>] = "twice" => k = "env" /\ heap[<<"runtime", p>>] = "none"

Own(p) ==
  FieldsOwned(p) /\ LocalsAgree(p) /\ ModuleOwned(p) /\ NamesOwned(p) /\ Progress(p) /\ NoneTwice(p)

\* An entry of the list, or one that somebody still has a pointer to.
Listed(e) ==
  \/ e \in Cached
  \/ \E q \in Spawns : from[q] = e \/ \E i \in DOMAIN tail[q] : tail[q][i] = e

Shared(e) ==
  /\ Live({<<"entry", e>>, <<"data", e>>, <<"master", e>>, <<"masterNames", e>>})
  /\ pc[e] \notin Unlisted /\ module[e] # "master"
  /\ pc[e] = "handOver" \/ ("data" \notin ra[e] /\ "data" \notin loc[e])

WasmInv ==
  /\ WasmTypes
  /\ \A p \in Spawns \ cut : Own(p)
  /\ \A e \in Spawns \ cut : Listed(e) => Shared(e)

UnderWay(p) == pc[p] \notin {"unborn", "gone"}

\* With one spawn at a time, an entry is looked for, made and linked by the only
\* thread there is.
InTurn ==
  /\ \A p, q \in Spawns : UnderWay(p) /\ UnderWay(q) => p = q
  /\ \A p \in Spawns : pc[p] \in {"parse", "insert", "link"} => ~Hit(file[p])
  /\ \A p \in Spawns : pc[p] = "link" => tail[p] = cache
  /\ \A i, j \in DOMAIN cache : file[cache[i]] = file[cache[j]] => i = j
  /\ \A p \in Spawns \ killed : heap[<<"entry", p>>] = "live" => p \in Cached \/ pc[p] = "link"

SerialInv ==
  /\ IsFiniteSet({p \in Spawns : UnderWay(p)})
  /\ \A e \in Spawns : Listed(e) => pc[e] \notin Unlisted
  /\ serial => InTurn

------------------------------------------------------------------------------
\* The labels at Label_Done, field by field.
LEMMA Places ==
  /\ FreeAt["runtime"] = "free_runtime" /\ FreeAt["env"] = "free_env"
  /\ FreeAt["data"] = "free_data" /\ FreeAt["path"] = "free_path"
  /\ NullAt["runtime"] = "null_runtime" /\ NullAt["env"] = "null_env"
  /\ NullAt["data"] = "null_data" /\ NullAt["path"] = "null_path"
  /\ After["runtime"] = "free_env" /\ After["env"] = "free_data"
  /\ After["data"] = "free_path" /\ After["path"] = "done"
  /\ Past["runtime"] = {"free_env", "null_env", "free_data", "null_data", "free_path", "null_path", "done"}
  /\ Past["env"] = {"free_data", "null_data", "free_path", "null_path", "done"}
  /\ Past["data"] = {"free_path", "null_path", "done"} /\ Past["path"] = {"done"}
<1> QED
  BY DEF FreeAt, NullAt, After, Past

\* What a step has to leave alone of a spawn for its objects to stay owned.
Same(q) ==
  /\ pc'[q] = pc[q] /\ ra'[q] = ra[q] /\ loc'[q] = loc[q]
  /\ module'[q] = module[q] /\ from'[q] = from[q]
  /\ \A k \in Kinds : heap'[<<k, q>>] = heap[<<k, q>>]
  /\ (q \in loaded' <=> q \in loaded) /\ (q \in killed' <=> q \in killed)

\* A spawn that a step leaves alone keeps what it owns and shares.
LEMMA SameKeeps ==
  ASSUME NEW q \in Spawns, Same(q), WasmTypes
  PROVE  (Own(q) => Own(q)') /\ (Shared(q) => Shared(q)')
<1> USE Places DEF Same, Kinds, Fields
<1>1. FieldsOwned(q) => FieldsOwned(q)'
  BY DEF FieldsOwned, Released
<1>2. LocalsAgree(q) => LocalsAgree(q)'
  BY DEF LocalsAgree
<1>3. ModuleOwned(q) => ModuleOwned(q)'
  BY DEF ModuleOwned, HasModule, Loaded, NamesOf, Live
<1>4. NamesOwned(q) => NamesOwned(q)'
  BY DEF NamesOwned, Keeps
<1>5. Progress(q) => Progress(q)'
  BY DEF Progress, Live
<1>6. NoneTwice(q) => NoneTwice(q)'
  BY DEF NoneTwice
<1>7. Shared(q) => Shared(q)'
  BY DEF Shared, Live
<1> QED
  BY <1>1, <1>2, <1>3, <1>4, <1>5, <1>6, <1>7 DEF Own

\* The steps of one spawn leave the others alone, but for the list they share.
LEMMA OthersSame ==
  ASSUME WasmTypes, NEW p \in Spawns, NEW q \in Spawns, p # q, Step(p)
  PROVE  Same(q)
<1> USE DEF Goto, WasmTypes, Same, Fault
<1>2. CASE \E f \in Files : SpawnBegin(p, f)
  BY <1>2 DEF SpawnBegin, Objects, Kinds, Fields, New
<1>3. CASE LoadFile(p) \/ NewEnvironment(p) \/ NewRuntime(p) \/ NewRuntimeFails(p) \/ EnvNull(p)
  BY <1>3 DEF LoadFile, NewEnvironment, NewRuntime, NewRuntimeFails, EnvNull, Objects, Kinds, Fields, New, Free
<1>4. CASE Lookup(p) \/ HitFree(p) \/ HitNull(p) \/ ParseModule(p) \/ InsertFill(p) \/ InsertLink(p) \/ HandOver(p)
  BY <1>4 DEF Lookup, HitFree, HitNull, ParseModule, InsertFill, InsertLink, HandOver, Objects, Kinds, Fields, New, Free
<1>5. CASE CloneModule(p) \/ LoadModule(p) \/ Start(p)
  BY <1>5 DEF CloneModule, LoadModule, Start, Objects, Kinds, Fields, New, Free, Loaded, NamesOf
<1>6. CASE DoneFree(p) \/ DoneNull(p) \/ Kill(p)
  BY <1>6 DEF DoneFree, DoneNull, Kill, Objects, Kinds, Fields, Free, With, Loaded, NamesOf
<1>7. CASE Cleanup(p)
  <2>1. \A o \in Named(p) : o[2] = p
    <3>1. \A f \in ra[p] : \A o \in With(p, f) : o[2] = p
      BY DEF With, Loaded, NamesOf
    <3>2. ASSUME NEW o \in Named(p), o # <<"args", p>>
          PROVE  \E f \in ra[p] : o \in With(p, f)
      BY <3>2, Zenon DEF Named
    <3> QED
      BY <3>1, <3>2
  <2>2. \A k \in Kinds : heap'[<<k, q>>] = heap[<<k, q>>]
    BY <1>7, <2>1 DEF Cleanup, Free, Objects
  <2> QED
    BY <1>7, <2>2 DEF Cleanup
<1> QED
  BY <1>2, <1>3, <1>4, <1>5, <1>6, <1>7 DEF Step

\* A set of numbers has a least one.
LEMMA SmallestOfNats ==
  ASSUME NEW S, S \subseteq Nat, S # {}
  PROVE  \E n \in S : \A m \in S : n <= m
<1> DEFINE Less == {ss \in Nat \X Nat : ss[1] < ss[2]}
<1>1. IsWellFoundedOn(Less, Nat)
  BY Zenon, NatLessThanWellFounded DEF OpToRel
<1>2. \A m, n \in Nat : <<m, n>> \in Less <=> m < n
  OBVIOUS
<1> HIDE DEF Less
<1>3. PICK n \in S : \A m \in S : <<m, n>> \notin Less
  BY <1>1, WFMin
<1>4. ASSUME NEW m \in S
      PROVE  n <= m
  <2>1. m \in Nat /\ n \in Nat /\ ~(m < n)
    BY <1>2, <1>3
  <2> QED
    BY <2>1
<1> QED
  BY <1>4

\* What wasm_parse_cache_lookup returns.
LEMMA FirstSpawns ==
  ASSUME WasmTypes, NEW f, Hit(f)
  PROVE  First(f) \in Cached /\ file[First(f)] = f /\ First(f) \in Spawns
<1>1. PICK i \in DOMAIN cache : file[cache[i]] = f /\ \A j \in 1 .. (i - 1) : file[cache[j]] # f
  <2> DEFINE S == {i \in DOMAIN cache : file[cache[i]] = f}
  <2>1. S \subseteq Nat /\ S # {}
    BY DEF Hit, Cached, WasmTypes
  <2>2. PICK i \in S : \A j \in S : i <= j
    BY <2>1, SmallestOfNats
  <2>3. DOMAIN cache = 1 .. Len(cache) /\ Len(cache) \in Nat
    BY DEF WasmTypes
  <2>4. ASSUME NEW j \in 1 .. (i - 1)
        PROVE  file[cache[j]] # f
    <3>1. j \in DOMAIN cache /\ ~(i <= j)
      BY <2>3
    <3> QED
      BY <2>2, <3>1
  <2> QED
    BY <2>4
<1>2. \E e \in Cached : \E k \in DOMAIN cache : /\ cache[k] = e /\ file[e] = f
                                                 /\ \A j \in 1 .. (k - 1) : file[cache[j]] # f
  BY <1>1 DEF Cached
<1>3. First(f) \in Cached /\ file[First(f)] = f
  BY <1>2 DEF First
<1> QED
  BY <1>3 DEF Cached, WasmTypes


------------------------------------------------------------------------------
\* What a step makes of the thread p, of its objects, and of its module.
Moves(p, l, r, c) == pc'[p] = l /\ ra'[p] = r /\ loc'[p] = c
Turns(p, K, s) == \A k \in Kinds : heap'[<<k, p>>] = IF k \in K THEN s ELSE heap[<<k, p>>]
Keep(p) == /\ module'[p] = module[p] /\ from'[p] = from[p]
           /\ (p \in loaded' <=> p \in loaded) /\ (p \in killed' <=> p \in killed)

\* An allocation of two objects, and a step that allocates and frees nothing.
LEMMA NewTurns ==
  ASSUME NEW p \in Spawns, NEW a \in Kinds, NEW b \in Kinds, heap' = New({<<a, p>>, <<b, p>>})
  PROVE  Turns(p, {a, b}, "live")
<1> QED
  BY DEF New, Turns, Objects

\* A step that allocates and frees nothing.
LEMMA StillTurns ==
  ASSUME heap' = heap, NEW p
  PROVE  Turns(p, {}, "live")
<1> QED
  BY DEF Turns

\* The file is read, or cannot be.
LEMMA LoadFileOwns ==
  ASSUME WasmTypes, NEW p \in Spawns, Own(p), LoadFile(p)
  PROVE  Own(p)'
<1>1. \/ /\ Moves(p, "env", ra[p] \cup {"data"}, loc[p] \cup {"data"})
         /\ Turns(p, {"data"}, "live")
         /\ Keep(p)
      \/ /\ Moves(p, "free_runtime", ra[p], loc[p])
         /\ Turns(p, {}, "live")
         /\ Keep(p)
  BY DEF LoadFile, Moves, Turns, Keep, Goto, New, Free, Fault, Objects, Kinds, Fields, WasmTypes
<1>2. pc[p] = "open" /\ FieldsOwned(p) /\ LocalsAgree(p) /\ ModuleOwned(p) /\ NamesOwned(p) /\ Progress(p) /\ NoneTwice(p)
  BY DEF LoadFile, Own
<1>3. ra[p] \subseteq Fields /\ loc[p] \subseteq Fields
  BY DEF WasmTypes, Fields
<1> USE <1>1, <1>2, <1>3, Places DEF Moves, Turns, Keep, Fields, Kinds, Progress
<1>4. FieldsOwned(p)'
  BY DEF FieldsOwned, Released, LocalsAgree, Live
<1>5. LocalsAgree(p)'
  BY DEF LocalsAgree
<1>6. ModuleOwned(p)'
  BY DEF ModuleOwned, HasModule, Loaded, NamesOf, Live
<1>7. NamesOwned(p)'
  BY NullAssumption DEF NamesOwned, Keeps, HasModule, ModuleOwned
<1>8. Progress(p)'
  BY DEF FieldsOwned, Live
<1>9. NoneTwice(p)'
  BY DEF NoneTwice, FieldsOwned, Released
<1> QED
  BY <1>4, <1>5, <1>6, <1>7, <1>8, <1>9 DEF Own

\* The environment is made, or cannot be.
LEMMA NewEnvironmentOwns ==
  ASSUME WasmTypes, NEW p \in Spawns, Own(p), NewEnvironment(p)
  PROVE  Own(p)'
<1>1. \/ /\ Moves(p, "runtime", ra[p] \cup {"env"}, loc[p] \cup {"env"})
         /\ Turns(p, {"env"}, "live")
         /\ Keep(p)
      \/ /\ Moves(p, "free_runtime", ra[p], loc[p])
         /\ Turns(p, {}, "live")
         /\ Keep(p)
  BY DEF NewEnvironment, Moves, Turns, Keep, Goto, New, Free, Fault, Objects, Kinds, Fields, WasmTypes
<1>2. pc[p] = "env" /\ FieldsOwned(p) /\ LocalsAgree(p) /\ ModuleOwned(p) /\ NamesOwned(p) /\ Progress(p) /\ NoneTwice(p)
  BY DEF NewEnvironment, Own
<1>3. ra[p] \subseteq Fields /\ loc[p] \subseteq Fields
  BY DEF WasmTypes, Fields
<1> USE <1>1, <1>2, <1>3, Places DEF Moves, Turns, Keep, Fields, Kinds, Progress
<1>4. FieldsOwned(p)'
  BY DEF FieldsOwned, Released, LocalsAgree, Live
<1>5. LocalsAgree(p)'
  BY DEF LocalsAgree
<1>6. ModuleOwned(p)'
  BY DEF ModuleOwned, HasModule, Loaded, NamesOf, Live
<1>7. NamesOwned(p)'
  BY NullAssumption DEF NamesOwned, Keeps, HasModule, ModuleOwned
<1>8. Progress(p)'
  BY DEF FieldsOwned, Live
<1>9. NoneTwice(p)'
  BY DEF NoneTwice, FieldsOwned, Released
<1> QED
  BY <1>4, <1>5, <1>6, <1>7, <1>8, <1>9 DEF Own

\* The runtime is made.
LEMMA NewRuntimeOwns ==
  ASSUME WasmTypes, NEW p \in Spawns, Own(p), NewRuntime(p)
  PROVE  Own(p)'
<1>1. /\ Moves(p, "lookup", ra[p] \cup {"runtime"}, loc[p] \cup {"runtime"})
      /\ Turns(p, {"runtime"}, "live")
      /\ Keep(p)
  BY DEF NewRuntime, Moves, Turns, Keep, Goto, New, Free, Fault, Objects, Kinds, Fields, WasmTypes
<1>2. pc[p] = "runtime" /\ FieldsOwned(p) /\ LocalsAgree(p) /\ ModuleOwned(p) /\ NamesOwned(p) /\ Progress(p) /\ NoneTwice(p)
  BY DEF NewRuntime, Own
<1>3. ra[p] \subseteq Fields /\ loc[p] \subseteq Fields
  BY DEF WasmTypes, Fields
<1> USE <1>1, <1>2, <1>3, Places DEF Moves, Turns, Keep, Fields, Kinds, Progress
<1>4. FieldsOwned(p)'
  BY DEF FieldsOwned, Released, LocalsAgree, Live
<1>5. LocalsAgree(p)'
  BY DEF LocalsAgree
<1>6. ModuleOwned(p)'
  BY DEF ModuleOwned, HasModule, Loaded, NamesOf, Live
<1>7. NamesOwned(p)'
  BY NullAssumption DEF NamesOwned, Keeps, HasModule, ModuleOwned
<1>8. Progress(p)'
  BY DEF FieldsOwned, Live
<1>9. NoneTwice(p)'
  BY DEF NoneTwice, FieldsOwned, Released
<1> QED
  BY <1>4, <1>5, <1>6, <1>7, <1>8, <1>9 DEF Own

\* m3_NewRuntime fails: the environment is freed, but still named.
LEMMA NewRuntimeFailsOwns ==
  ASSUME WasmTypes, NEW p \in Spawns, Own(p), NewRuntimeFails(p)
  PROVE  Own(p)'
<1>1. /\ Moves(p, "envNull", ra[p], loc[p])
      /\ Turns(p, {"env"}, "freed")
      /\ Keep(p)
  BY Places DEF NewRuntimeFails, Moves, Turns, Keep, Goto, New, Free, Fault, Objects, Kinds, Fields, WasmTypes, Own, FieldsOwned, Released, Progress
<1>2. pc[p] = "runtime" /\ FieldsOwned(p) /\ LocalsAgree(p) /\ ModuleOwned(p) /\ NamesOwned(p) /\ Progress(p) /\ NoneTwice(p)
  BY DEF NewRuntimeFails, Own
<1>3. ra[p] \subseteq Fields /\ loc[p] \subseteq Fields
  BY DEF WasmTypes, Fields
<1> USE <1>1, <1>2, <1>3, Places DEF Moves, Turns, Keep, Fields, Kinds, Progress
<1>4. FieldsOwned(p)'
  BY DEF FieldsOwned, Released, LocalsAgree, Live
<1>5. LocalsAgree(p)'
  BY DEF LocalsAgree
<1>6. ModuleOwned(p)'
  BY DEF ModuleOwned, HasModule, Loaded, NamesOf, Live
<1>7. NamesOwned(p)'
  BY NullAssumption DEF NamesOwned, Keeps, HasModule, ModuleOwned
<1>8. Progress(p)'
  BY DEF FieldsOwned, Live
<1>9. NoneTwice(p)'
  BY DEF NoneTwice, FieldsOwned, Released
<1> QED
  BY <1>4, <1>5, <1>6, <1>7, <1>8, <1>9 DEF Own

\* After that ra gives up its name.
LEMMA EnvNullOwns ==
  ASSUME WasmTypes, NEW p \in Spawns, Own(p), EnvNull(p)
  PROVE  Own(p)'
<1>1. /\ Moves(p, "free_runtime", ra[p] \ {"env"}, loc[p])
      /\ Turns(p, {}, "live")
      /\ Keep(p)
  BY DEF EnvNull, Moves, Turns, Keep, Goto, New, Free, Fault, Objects, Kinds, Fields, WasmTypes
<1>2. pc[p] = "envNull" /\ FieldsOwned(p) /\ LocalsAgree(p) /\ ModuleOwned(p) /\ NamesOwned(p) /\ Progress(p) /\ NoneTwice(p)
  BY DEF EnvNull, Own
<1>3. ra[p] \subseteq Fields /\ loc[p] \subseteq Fields
  BY DEF WasmTypes, Fields
<1> USE <1>1, <1>2, <1>3, Places DEF Moves, Turns, Keep, Fields, Kinds, Progress
<1>4. FieldsOwned(p)'
  BY DEF FieldsOwned, Released, LocalsAgree, Live
<1>5. LocalsAgree(p)'
  BY DEF LocalsAgree
<1>6. ModuleOwned(p)'
  BY DEF ModuleOwned, HasModule, Loaded, NamesOf, Live
<1>7. NamesOwned(p)'
  BY NullAssumption DEF NamesOwned, Keeps, HasModule, ModuleOwned
<1>8. Progress(p)'
  BY DEF FieldsOwned, Live
<1>9. NoneTwice(p)'
  BY DEF NoneTwice, FieldsOwned, Released
<1> QED
  BY <1>4, <1>5, <1>6, <1>7, <1>8, <1>9 DEF Own

\* The parse cache is looked at.
LEMMA LookupOwns ==
  ASSUME WasmTypes, NEW p \in Spawns, Own(p), Lookup(p)
  PROVE  Own(p)'
<1>1. \/ /\ Moves(p, "hit", ra[p], loc[p])
         /\ Turns(p, {}, "live")
         /\ module'[p] = module[p] /\ from'[p] # Null
         /\ (p \in loaded' <=> p \in loaded) /\ (p \in killed' <=> p \in killed)
      \/ /\ Moves(p, "parse", ra[p], loc[p])
         /\ Turns(p, {}, "live")
         /\ Keep(p)
  BY NullAssumption, FirstSpawns DEF Lookup, Moves, Turns, Keep, Goto, New, Free, Fault, Objects, Kinds, Fields, WasmTypes
<1>2. pc[p] = "lookup" /\ FieldsOwned(p) /\ LocalsAgree(p) /\ ModuleOwned(p) /\ NamesOwned(p) /\ Progress(p) /\ NoneTwice(p)
  BY DEF Lookup, Own
<1>3. ra[p] \subseteq Fields /\ loc[p] \subseteq Fields
  BY DEF WasmTypes, Fields
<1> USE <1>1, <1>2, <1>3, Places DEF Moves, Turns, Keep, Fields, Kinds, Progress
<1>4. FieldsOwned(p)'
  BY DEF FieldsOwned, Released, LocalsAgree, Live
<1>5. LocalsAgree(p)'
  BY DEF LocalsAgree
<1>6. ModuleOwned(p)'
  BY DEF ModuleOwned, HasModule, Loaded, NamesOf, Live
<1>7. NamesOwned(p)'
  BY NullAssumption DEF NamesOwned, Keeps, HasModule, ModuleOwned
<1>8. Progress(p)'
  BY DEF FieldsOwned, Live
<1>9. NoneTwice(p)'
  BY DEF NoneTwice, FieldsOwned, Released
<1> QED
  BY <1>4, <1>5, <1>6, <1>7, <1>8, <1>9 DEF Own

\* On a hit the bytes just read are freed.
LEMMA HitFreeOwns ==
  ASSUME WasmTypes, NEW p \in Spawns, Own(p), HitFree(p)
  PROVE  Own(p)'
<1>1. /\ Moves(p, "hitNull", ra[p], loc[p])
      /\ Turns(p, {"data"}, "freed")
      /\ Keep(p)
  BY Places DEF HitFree, Moves, Turns, Keep, Goto, New, Free, Fault, Objects, Kinds, Fields, WasmTypes, Own, FieldsOwned, Released, Progress
<1>2. pc[p] = "hit" /\ FieldsOwned(p) /\ LocalsAgree(p) /\ ModuleOwned(p) /\ NamesOwned(p) /\ Progress(p) /\ NoneTwice(p)
  BY DEF HitFree, Own
<1>3. ra[p] \subseteq Fields /\ loc[p] \subseteq Fields
  BY DEF WasmTypes, Fields
<1> USE <1>1, <1>2, <1>3, Places DEF Moves, Turns, Keep, Fields, Kinds, Progress
<1>4. FieldsOwned(p)'
  BY DEF FieldsOwned, Released, LocalsAgree, Live
<1>5. LocalsAgree(p)'
  BY DEF LocalsAgree
<1>6. ModuleOwned(p)'
  BY DEF ModuleOwned, HasModule, Loaded, NamesOf, Live
<1>7. NamesOwned(p)'
  BY NullAssumption DEF NamesOwned, Keeps, HasModule, ModuleOwned
<1>8. Progress(p)'
  BY DEF FieldsOwned, Live
<1>9. NoneTwice(p)'
  BY DEF NoneTwice, FieldsOwned, Released
<1> QED
  BY <1>4, <1>5, <1>6, <1>7, <1>8, <1>9 DEF Own

\* Then their name is cleared.
LEMMA HitNullOwns ==
  ASSUME WasmTypes, NEW p \in Spawns, Own(p), HitNull(p)
  PROVE  Own(p)'
<1>1. /\ Moves(p, "clone", ra[p] \ {"data"}, loc[p] \ {"data"})
      /\ Turns(p, {}, "live")
      /\ Keep(p)
  BY DEF HitNull, Moves, Turns, Keep, Goto, New, Free, Fault, Objects, Kinds, Fields, WasmTypes
<1>2. pc[p] = "hitNull" /\ FieldsOwned(p) /\ LocalsAgree(p) /\ ModuleOwned(p) /\ NamesOwned(p) /\ Progress(p) /\ NoneTwice(p)
  BY DEF HitNull, Own
<1>3. ra[p] \subseteq Fields /\ loc[p] \subseteq Fields
  BY DEF WasmTypes, Fields
<1> USE <1>1, <1>2, <1>3, Places DEF Moves, Turns, Keep, Fields, Kinds, Progress
<1>4. FieldsOwned(p)'
  BY DEF FieldsOwned, Released, LocalsAgree, Live
<1>5. LocalsAgree(p)'
  BY DEF LocalsAgree
<1>6. ModuleOwned(p)'
  BY DEF ModuleOwned, HasModule, Loaded, NamesOf, Live
<1>7. NamesOwned(p)'
  BY NullAssumption DEF NamesOwned, Keeps, HasModule, ModuleOwned
<1>8. Progress(p)'
  BY DEF FieldsOwned, Live
<1>9. NoneTwice(p)'
  BY DEF NoneTwice, FieldsOwned, Released
<1> QED
  BY <1>4, <1>5, <1>6, <1>7, <1>8, <1>9 DEF Own

\* The module is parsed, or cannot be.
LEMMA ParseModuleOwns ==
  ASSUME WasmTypes, NEW p \in Spawns, Own(p), ParseModule(p)
  PROVE  Own(p)'
<1>1. \/ /\ Moves(p, "insert", ra[p], loc[p])
         /\ Turns(p, {"master", "masterNames"}, "live")
         /\ Keep(p)
      \/ /\ Moves(p, "free_runtime", ra[p], loc[p])
         /\ Turns(p, {}, "live")
         /\ Keep(p)
  BY NewTurns, StillTurns DEF ParseModule, Moves, Keep, Goto, Fault, Kinds, Fields, WasmTypes
<1>2. pc[p] = "parse" /\ FieldsOwned(p) /\ LocalsAgree(p) /\ ModuleOwned(p) /\ NamesOwned(p) /\ Progress(p) /\ NoneTwice(p)
  BY DEF ParseModule, Own
<1>3. ra[p] \subseteq Fields /\ loc[p] \subseteq Fields
  BY DEF WasmTypes, Fields
<1> USE <1>1, <1>2, <1>3, Places DEF Moves, Turns, Keep, Fields, Kinds, Progress
<1>4. FieldsOwned(p)'
  BY DEF FieldsOwned, Released, LocalsAgree, Live
<1>5. LocalsAgree(p)'
  BY DEF LocalsAgree
<1>6. ModuleOwned(p)'
  BY DEF ModuleOwned, HasModule, Loaded, NamesOf, Live
<1>7. NamesOwned(p)'
  BY NullAssumption DEF NamesOwned, Keeps, HasModule, ModuleOwned
<1>8. Progress(p)'
  BY DEF FieldsOwned, Live
<1>9. NoneTwice(p)'
  BY DEF NoneTwice, FieldsOwned, Released
<1> QED
  BY <1>4, <1>5, <1>6, <1>7, <1>8, <1>9 DEF Own

\* The entry for the cache is filled in.
LEMMA InsertFillOwns ==
  ASSUME WasmTypes, NEW p \in Spawns, Own(p), InsertFill(p)
  PROVE  Own(p)'
<1>1. \/ /\ Moves(p, "link", ra[p], loc[p])
         /\ Turns(p, {"entry"}, "live")
         /\ Keep(p)
      \/ /\ Moves(p, "load", ra[p], loc[p])
         /\ Turns(p, {}, "live")
         /\ module'[p] = "master" /\ from'[p] = from[p]
         /\ (p \in loaded' <=> p \in loaded) /\ (p \in killed' <=> p \in killed)
  BY DEF InsertFill, Moves, Turns, Keep, Goto, New, Free, Fault, Objects, Kinds, Fields, WasmTypes
<1>2. pc[p] = "insert" /\ FieldsOwned(p) /\ LocalsAgree(p) /\ ModuleOwned(p) /\ NamesOwned(p) /\ Progress(p) /\ NoneTwice(p)
  BY DEF InsertFill, Own
<1>3. ra[p] \subseteq Fields /\ loc[p] \subseteq Fields
  BY DEF WasmTypes, Fields
<1> USE <1>1, <1>2, <1>3, Places DEF Moves, Turns, Keep, Fields, Kinds, Progress
<1>4. FieldsOwned(p)'
  BY DEF FieldsOwned, Released, LocalsAgree, Live
<1>5. LocalsAgree(p)'
  BY DEF LocalsAgree
<1>6. ModuleOwned(p)'
  BY DEF ModuleOwned, HasModule, Loaded, NamesOf, Live
<1>7. NamesOwned(p)'
  BY NullAssumption DEF NamesOwned, Keeps, HasModule, ModuleOwned
<1>8. Progress(p)'
  BY DEF FieldsOwned, Live
<1>9. NoneTwice(p)'
  BY DEF NoneTwice, FieldsOwned, Released
<1> QED
  BY <1>4, <1>5, <1>6, <1>7, <1>8, <1>9 DEF Own

\* The entry is linked into the list.
LEMMA InsertLinkOwns ==
  ASSUME WasmTypes, NEW p \in Spawns, Own(p), InsertLink(p)
  PROVE  Own(p)'
<1>1. /\ Moves(p, "handOver", ra[p], loc[p])
      /\ Turns(p, {}, "live")
      /\ module'[p] = module[p] /\ from'[p] # Null
      /\ (p \in loaded' <=> p \in loaded) /\ (p \in killed' <=> p \in killed)
  BY NullAssumption, FirstSpawns DEF InsertLink, Moves, Turns, Keep, Goto, New, Free, Fault, Objects, Kinds, Fields, WasmTypes
<1>2. pc[p] = "link" /\ FieldsOwned(p) /\ LocalsAgree(p) /\ ModuleOwned(p) /\ NamesOwned(p) /\ Progress(p) /\ NoneTwice(p)
  BY DEF InsertLink, Own
<1>3. ra[p] \subseteq Fields /\ loc[p] \subseteq Fields
  BY DEF WasmTypes, Fields
<1> USE <1>1, <1>2, <1>3, Places DEF Moves, Turns, Keep, Fields, Kinds, Progress
<1>4. FieldsOwned(p)'
  BY DEF FieldsOwned, Released, LocalsAgree, Live
<1>5. LocalsAgree(p)'
  BY DEF LocalsAgree
<1>6. ModuleOwned(p)'
  BY DEF ModuleOwned, HasModule, Loaded, NamesOf, Live
<1>7. NamesOwned(p)'
  BY NullAssumption DEF NamesOwned, Keeps, HasModule, ModuleOwned
<1>8. Progress(p)'
  BY DEF FieldsOwned, Live
<1>9. NoneTwice(p)'
  BY DEF NoneTwice, FieldsOwned, Released
<1> QED
  BY <1>4, <1>5, <1>6, <1>7, <1>8, <1>9 DEF Own

\* ra gives up the bytes, which belong to the cache now.
LEMMA HandOverOwns ==
  ASSUME WasmTypes, NEW p \in Spawns, Own(p), HandOver(p)
  PROVE  Own(p)'
<1>1. /\ Moves(p, "clone", ra[p] \ {"data"}, loc[p] \ {"data"})
      /\ Turns(p, {}, "live")
      /\ Keep(p)
  BY DEF HandOver, Moves, Turns, Keep, Goto, New, Free, Fault, Objects, Kinds, Fields, WasmTypes
<1>2. pc[p] = "handOver" /\ FieldsOwned(p) /\ LocalsAgree(p) /\ ModuleOwned(p) /\ NamesOwned(p) /\ Progress(p) /\ NoneTwice(p)
  BY DEF HandOver, Own
<1>3. ra[p] \subseteq Fields /\ loc[p] \subseteq Fields
  BY DEF WasmTypes, Fields
<1> USE <1>1, <1>2, <1>3, Places DEF Moves, Turns, Keep, Fields, Kinds, Progress
<1>4. FieldsOwned(p)'
  BY DEF FieldsOwned, Released, LocalsAgree, Live
<1>5. LocalsAgree(p)'
  BY DEF LocalsAgree
<1>6. ModuleOwned(p)'
  BY DEF ModuleOwned, HasModule, Loaded, NamesOf, Live
<1>7. NamesOwned(p)'
  BY NullAssumption DEF NamesOwned, Keeps, HasModule, ModuleOwned
<1>8. Progress(p)'
  BY DEF FieldsOwned, Live
<1>9. NoneTwice(p)'
  BY DEF NoneTwice, FieldsOwned, Released
<1> QED
  BY <1>4, <1>5, <1>6, <1>7, <1>8, <1>9 DEF Own

\* The module is cloned, or cannot be.
LEMMA CloneModuleOwns ==
  ASSUME WasmTypes, NEW p \in Spawns, Own(p), CloneModule(p)
  PROVE  Own(p)'
<1>1. \/ /\ Moves(p, "load", ra[p], loc[p])
         /\ Turns(p, {"clone", "cloneNames"}, "live")
         /\ module'[p] = "clone" /\ from'[p] = from[p]
         /\ (p \in loaded' <=> p \in loaded) /\ (p \in killed' <=> p \in killed)
      \/ /\ Moves(p, "free_runtime", ra[p], loc[p])
         /\ Turns(p, {}, "live")
         /\ Keep(p)
  BY NewTurns, StillTurns DEF CloneModule, Moves, Keep, Goto, Fault, Kinds, Fields, WasmTypes
<1>2. pc[p] = "clone" /\ FieldsOwned(p) /\ LocalsAgree(p) /\ ModuleOwned(p) /\ NamesOwned(p) /\ Progress(p) /\ NoneTwice(p)
  BY DEF CloneModule, Own
<1>3. ra[p] \subseteq Fields /\ loc[p] \subseteq Fields
  BY DEF WasmTypes, Fields
<1> USE <1>1, <1>2, <1>3, Places DEF Moves, Turns, Keep, Fields, Kinds, Progress
<1>4. FieldsOwned(p)'
  BY DEF FieldsOwned, Released, LocalsAgree, Live
<1>5. LocalsAgree(p)'
  BY DEF LocalsAgree
<1>6. ModuleOwned(p)'
  BY DEF ModuleOwned, HasModule, Loaded, NamesOf, Live
<1>7. NamesOwned(p)'
  BY NullAssumption DEF NamesOwned, Keeps, HasModule, ModuleOwned
<1>8. Progress(p)'
  BY DEF FieldsOwned, Live
<1>9. NoneTwice(p)'
  BY DEF NoneTwice, FieldsOwned, Released
<1> QED
  BY <1>4, <1>5, <1>6, <1>7, <1>8, <1>9 DEF Own

\* The program runs and ends.
LEMMA StartOwns ==
  ASSUME WasmTypes, NEW p \in Spawns, Own(p), Start(p)
  PROVE  Own(p)'
<1>1. /\ Moves(p, "free_runtime", ra[p], loc[p])
      /\ Turns(p, {}, "live")
      /\ Keep(p)
  BY DEF Start, Moves, Turns, Keep, Goto, New, Free, Fault, Objects, Kinds, Fields, WasmTypes
<1>2. pc[p] = "run" /\ FieldsOwned(p) /\ LocalsAgree(p) /\ ModuleOwned(p) /\ NamesOwned(p) /\ Progress(p) /\ NoneTwice(p)
  BY DEF Start, Own
<1>3. ra[p] \subseteq Fields /\ loc[p] \subseteq Fields
  BY DEF WasmTypes, Fields
<1> USE <1>1, <1>2, <1>3, Places DEF Moves, Turns, Keep, Fields, Kinds, Progress
<1>4. FieldsOwned(p)'
  BY DEF FieldsOwned, Released, LocalsAgree, Live
<1>5. LocalsAgree(p)'
  BY DEF LocalsAgree
<1>6. ModuleOwned(p)'
  BY DEF ModuleOwned, HasModule, Loaded, NamesOf, Live
<1>7. NamesOwned(p)'
  BY NullAssumption DEF NamesOwned, Keeps, HasModule, ModuleOwned
<1>8. Progress(p)'
  BY DEF FieldsOwned, Live
<1>9. NoneTwice(p)'
  BY DEF NoneTwice, FieldsOwned, Released
<1> QED
  BY <1>4, <1>5, <1>6, <1>7, <1>8, <1>9 DEF Own

\* The runtime takes the module, or it is freed.
LEMMA LoadModuleOwns ==
  ASSUME WasmTypes, NEW p \in Spawns, Own(p), LoadModule(p)
  PROVE  Own(p)'
<1> DEFINE K == IF module[p] = "master" THEN {"master", "masterNames"} ELSE {"clone", "cloneNames"}
<1>1. /\ p \notin loaded /\ module[p] \in {"master", "clone"}
      /\ \A k \in K : heap[<<k, p>>] = "live"
  BY DEF LoadModule, Own, ModuleOwned, HasModule, Live, Loaded, NamesOf
<1>2. Loaded(p) = K \X {p}
  BY <1>1 DEF Loaded, NamesOf
<1>3. heap' = Free(Loaded(p)) => Turns(p, K, "freed")
  BY <1>1, <1>2 DEF Free, Turns, Objects, Kinds
<1>4. /\ Moves(p, pc'[p], ra[p], loc[p]) /\ from'[p] = from[p] /\ (p \in killed' <=> p \in killed)
      /\ \/ /\ pc'[p] = "run" /\ p \in loaded' /\ module'[p] = module[p]
            /\ Turns(p, {}, "live")
         \/ /\ pc'[p] = "free_runtime" /\ p \notin loaded' /\ module'[p] = Null
            /\ Turns(p, K, "freed")
  BY <1>1, <1>3, StillTurns DEF LoadModule, Moves, Goto, WasmTypes
<1>5. pc[p] = "load" /\ FieldsOwned(p) /\ LocalsAgree(p) /\ ModuleOwned(p) /\ NamesOwned(p) /\ Progress(p) /\ NoneTwice(p)
  BY DEF LoadModule, Own
<1>6. ra[p] \subseteq Fields /\ loc[p] \subseteq Fields
  BY DEF WasmTypes, Fields
<1> HIDE DEF K
<1>7. K = {"master", "masterNames"} \/ K = {"clone", "cloneNames"}
  BY DEF K
<1> USE <1>1, <1>4, <1>5, <1>6, Places DEF Moves, Turns, Fields, Kinds, Progress
<1>8. FieldsOwned(p)' /\ LocalsAgree(p)' /\ Progress(p)' /\ NoneTwice(p)'
  <2>1. FieldsOwned(p)'
    BY <1>7 DEF FieldsOwned, Released, LocalsAgree, Live
  <2>2. LocalsAgree(p)'
    BY <1>7 DEF LocalsAgree
  <2>3. Progress(p)'
    BY <1>7 DEF FieldsOwned, Live
  <2>4. NoneTwice(p)'
    BY <1>7 DEF NoneTwice, FieldsOwned, Released
  <2> QED
    BY <2>1, <2>2, <2>3, <2>4
<1>9. ModuleOwned(p)'
  BY NullAssumption DEF K, ModuleOwned, HasModule, Loaded, NamesOf, Live
<1>10. NamesOwned(p)'
  BY NullAssumption DEF K, NamesOwned, Keeps, HasModule, ModuleOwned
<1> QED
  BY <1>5, <1>8, <1>9, <1>10 DEF Own

\* A spawn, also one whose thread or whose arguments could not be made.
LEMMA SpawnBeginOwns ==
  ASSUME WasmTypes, NEW p \in Spawns, Own(p), NEW f \in Files, SpawnBegin(p, f)
  PROVE  Own(p)'
<1>1. /\ module'[p] = module[p] /\ from'[p] = from[p] /\ loaded' = loaded /\ killed' = killed
      /\ \/ Moves(p, "open", {"path"}, loc[p]) /\ Turns(p, {"args", "path"}, "live")
         \/ Moves(p, "dead", {"path"}, loc[p]) /\ Turns(p, {"args", "path"}, "live")
         \/ Moves(p, "gone", ra[p], loc[p]) /\ Turns(p, {}, "live")
  BY NewTurns, StillTurns DEF SpawnBegin, Moves, Goto, Kinds, Fields, WasmTypes
<1>2. /\ pc[p] = "unborn" /\ p \notin loaded /\ module[p] = Null /\ ra[p] = {} /\ loc[p] = {}
      /\ \A k \in Kinds : heap[<<k, p>>] = "none"
  BY NullAssumption DEF SpawnBegin, Own, Progress, ModuleOwned, HasModule, Kinds, Fields
<1> USE <1>1, <1>2, NullAssumption, Places DEF Moves, Turns, Fields, Kinds
<1>3. FieldsOwned(p)'
  BY DEF FieldsOwned, Released
<1>4. LocalsAgree(p)'
  BY DEF LocalsAgree
<1>5. ModuleOwned(p)'
  BY DEF ModuleOwned, HasModule
<1>6. NamesOwned(p)'
  BY DEF NamesOwned, Keeps
<1>7. Progress(p)'
  BY DEF Progress, Live
<1>8. NoneTwice(p)'
  BY DEF NoneTwice
<1> QED
  BY <1>3, <1>4, <1>5, <1>6, <1>7, <1>8 DEF Own

\* A kill leaves everything to the hook.
LEMMA KillOwns ==
  ASSUME WasmTypes, NEW p \in Spawns, Own(p), Kill(p), p \notin cut'
  PROVE  Own(p)'
<1>1. /\ Moves(p, "dead", ra[p], loc[p]) /\ Turns(p, {}, "live")
    /\ module'[p] = module[p] /\ from'[p] = from[p] /\ loaded' = loaded /\ p \in killed'
  BY StillTurns DEF Kill, Moves, Goto, WasmTypes
<1>2. pc[p] \notin Windows /\ pc[p] \notin {"unborn", "dead", "done", "gone"}
  BY DEF Kill
<1>3. FieldsOwned(p) /\ LocalsAgree(p) /\ ModuleOwned(p) /\ Progress(p) /\ NoneTwice(p)
  BY DEF Own
<1> USE <1>1, <1>2, <1>3, Places DEF Moves, Turns, Fields, Kinds, Windows
<1>4. FieldsOwned(p)'
  BY DEF FieldsOwned, Released
<1>5. LocalsAgree(p)'
  BY DEF LocalsAgree
<1>6. ModuleOwned(p)'
  BY DEF ModuleOwned, HasModule, Loaded, NamesOf
<1>7. NamesOwned(p)'
  BY DEF NamesOwned
<1>8. Progress(p)'
  BY DEF Progress
<1>9. NoneTwice(p)'
  BY DEF NoneTwice
<1> QED
  BY <1>4, <1>5, <1>6, <1>7, <1>8, <1>9 DEF Own

\* At Label_Done: the name of a freed field is cleared.
LEMMA DoneNullOwns ==
  ASSUME WasmTypes, NEW p \in Spawns, Own(p), DoneNull(p)
  PROVE  Own(p)'
<1>1. PICK f \in Fields : pc[p] = NullAt[f] /\ Moves(p, After[f], ra[p] \ {f}, loc[p])
  BY DEF DoneNull, Moves, Goto, WasmTypes
<1>2. Turns(p, {}, "live") /\ Keep(p)
  BY StillTurns DEF DoneNull, Keep
<1>3. FieldsOwned(p) /\ LocalsAgree(p) /\ ModuleOwned(p) /\ NamesOwned(p) /\ Progress(p) /\ NoneTwice(p)
  BY DEF Own
<1> USE <1>1, <1>2, <1>3, Places DEF Moves, Turns, Keep, Fields, Kinds
<1>4. FieldsOwned(p)'
  BY DEF FieldsOwned, Released
<1>5. LocalsAgree(p)'
  BY DEF LocalsAgree
<1>6. ModuleOwned(p)'
  BY DEF ModuleOwned, HasModule, Loaded, NamesOf
<1>7. NamesOwned(p)'
  BY DEF NamesOwned, Keeps, ModuleOwned, HasModule, Loaded, NamesOf
<1>8. Progress(p)'
  BY DEF Progress
<1>9. NoneTwice(p)'
  BY DEF NoneTwice
<1> QED
  BY <1>4, <1>5, <1>6, <1>7, <1>8, <1>9 DEF Own

\* What freeing the field f frees, by kind.
Group(p, f) ==
  {f} \cup (IF f = "runtime" /\ p \in loaded
            THEN (IF module[p] = "master" THEN {"master", "masterNames"} ELSE {"clone", "cloneNames"})
            ELSE {})

\* Freeing a field that ra names frees live objects of this spawn.
LEMMA WithIsGroup ==
  ASSUME WasmTypes, NEW p \in Spawns, Own(p), NEW f \in Fields
  PROVE  /\ With(p, f) = Group(p, f) \X {p}
         /\ Group(p, f) \subseteq Kinds
         /\ f \in ra[p] /\ ~Released(p, f) /\ pc[p] # "null_runtime" => \A k \in Group(p, f) : heap[<<k, p>>] = "live"
<1>1. p \in loaded => module[p] \in {"master", "clone"}
  BY DEF Own, ModuleOwned, HasModule
<1>2. With(p, f) = Group(p, f) \X {p} /\ Group(p, f) \subseteq Kinds
  BY <1>1 DEF With, Group, Loaded, NamesOf, Kinds, Fields
<1>3. ASSUME f \in ra[p], ~Released(p, f), pc[p] # "null_runtime"
      PROVE  \A k \in Group(p, f) : heap[<<k, p>>] = "live"
  <2>1. heap[<<f, p>>] = "live"
    BY <1>3 DEF Own, FieldsOwned
  <2>2. f = "runtime" /\ p \in loaded => \A o \in Loaded(p) : heap[o] = "live"
    BY <1>3 DEF Own, ModuleOwned
  <2> QED
    BY <1>1, <2>1, <2>2 DEF Group, Loaded, NamesOf
<1> QED
  BY <1>2, <1>3

\* At Label_Done: a field is freed.
LEMMA DoneFreeOwns ==
  ASSUME WasmTypes, NEW p \in Spawns, Own(p), DoneFree(p)
  PROVE  Own(p)'
<1>1. PICK f \in Fields : /\ pc[p] = FreeAt[f]
                          /\ IF Held(p, f) THEN Goto(p, NullAt[f]) /\ heap' = Free(With(p, f))
                             ELSE Goto(p, After[f]) /\ heap' = heap
  BY DEF DoneFree
<1>2. ra' = ra /\ loc' = loc /\ Keep(p)
  BY DEF DoneFree, Keep
<1>3. FieldsOwned(p) /\ LocalsAgree(p) /\ ModuleOwned(p) /\ NamesOwned(p) /\ Progress(p) /\ NoneTwice(p)
  BY DEF Own
<1>4. ra[p] \subseteq Fields /\ loc[p] \subseteq Fields \ {"path"}
  BY DEF WasmTypes, Fields
<1>5. CASE ~Held(p, f)
  <2>1. Moves(p, After[f], ra[p], loc[p]) /\ Turns(p, {}, "live") /\ f \notin ra[p]
    <3>1. f \notin ra[p]
      BY <1>1, <1>3, <1>4, <1>5, Places DEF Held, LocalsAgree, Fields
    <3> QED
      BY <1>1, <1>2, <1>5, <3>1, StillTurns DEF Moves, Goto, WasmTypes
  <2> USE <1>1, <1>2, <1>3, <1>4, <2>1, Places DEF Moves, Turns, Keep, Fields, Kinds
  <2>2. FieldsOwned(p)'
    BY DEF FieldsOwned, Released
  <2>3. LocalsAgree(p)'
    BY DEF LocalsAgree
  <2>4. ModuleOwned(p)'
    BY DEF ModuleOwned, HasModule, Loaded, NamesOf
  <2>5. NamesOwned(p)'
    BY DEF NamesOwned, Keeps
  <2>6. Progress(p)'
    BY DEF Progress
  <2>7. NoneTwice(p)'
    BY DEF NoneTwice
  <2> QED
    BY <2>2, <2>3, <2>4, <2>5, <2>6, <2>7 DEF Own
<1>6. CASE Held(p, f) /\ f \in ra[p]
  <2>1. ~Released(p, f) /\ pc[p] # "null_runtime"
    BY <1>1, Places DEF Released, Fields
  <2>2. /\ With(p, f) = Group(p, f) \X {p} /\ Group(p, f) \subseteq Kinds
        /\ \A k \in Group(p, f) : heap[<<k, p>>] = "live"
    BY <1>6, <2>1, WithIsGroup
  <2>3. Moves(p, NullAt[f], ra[p], loc[p]) /\ Turns(p, Group(p, f), "freed")
    <3>1. Turns(p, Group(p, f), "freed")
      BY <1>1, <1>6, <2>2 DEF Free, Turns, Objects
    <3> QED
      BY <1>1, <1>2, <1>6, <3>1 DEF Moves, Goto, WasmTypes
  <2> USE <1>1, <1>2, <1>3, <1>4, <1>6, <2>3, Places DEF Moves, Turns, Keep, Fields, Kinds, Group
  <2>4. FieldsOwned(p)'
    BY DEF FieldsOwned, Released
  <2>5. LocalsAgree(p)'
    BY <2>2 DEF LocalsAgree
  <2>6. ModuleOwned(p)'
    BY DEF ModuleOwned, HasModule, Loaded, NamesOf
  <2>7. NamesOwned(p)'
    BY DEF NamesOwned, Keeps
  <2>8. Progress(p)'
    BY DEF Progress
  <2>9. NoneTwice(p)'
    BY <2>2 DEF NoneTwice
  <2> QED
    BY <2>4, <2>5, <2>6, <2>7, <2>8, <2>9 DEF Own
<1>7. CASE Held(p, f) /\ f \notin ra[p]
  <2>1. f = "env" /\ heap[<<"runtime", p>>] = "none" /\ heap[<<"env", p>>] # "live"
    BY <1>1, <1>3, <1>7, Places DEF Held, LocalsAgree, FieldsOwned, Fields
  <2>2. Moves(p, "null_env", ra[p], loc[p]) /\ Turns(p, {"env"}, "twice")
    <3>1. With(p, "env") = {<<"env", p>>}
      BY DEF With
    <3>2. Turns(p, {"env"}, "twice")
      BY <1>1, <1>7, <2>1, <3>1 DEF Free, Turns, Objects
    <3> QED
      BY <1>1, <1>2, <1>7, <2>1, <3>2, Places DEF Moves, Goto, WasmTypes
  <2> USE <1>1, <1>2, <1>3, <1>4, <1>7, <2>1, <2>2, Places DEF Moves, Turns, Keep, Fields, Kinds
  <2>3. FieldsOwned(p)'
    BY DEF FieldsOwned, Released
  <2>4. LocalsAgree(p)'
    BY DEF LocalsAgree
  <2>5. ModuleOwned(p)'
    BY DEF ModuleOwned, HasModule, Loaded, NamesOf
  <2>6. NamesOwned(p)'
    BY DEF NamesOwned, Keeps
  <2>7. Progress(p)'
    BY DEF Progress
  <2>8. NoneTwice(p)'
    BY DEF NoneTwice
  <2> QED
    BY <2>3, <2>4, <2>5, <2>6, <2>7, <2>8 DEF Own
<1> QED
  BY <1>5, <1>6, <1>7

\* The exit hook frees what ra still names.
LEMMA CleanupOwns ==
  ASSUME WasmTypes, NEW p \in Spawns, Own(p), Cleanup(p)
  PROVE  Own(p)'
<1> DEFINE K == {k \in Kinds : k = "args" \/ \E f \in ra[p] : k \in Group(p, f)}
<1>1. pc[p] \in {"done", "dead"} /\ ra[p] \subseteq Fields
  BY DEF Cleanup, WasmTypes
<1>2. /\ FieldsOwned(p) /\ LocalsAgree(p) /\ ModuleOwned(p) /\ NamesOwned(p) /\ Progress(p) /\ NoneTwice(p)
      /\ heap[<<"args", p>>] = "live"
  BY <1>1 DEF Own, Progress
<1>3. \A f \in ra[p] : /\ With(p, f) = Group(p, f) \X {p} /\ Group(p, f) \subseteq Kinds
                       /\ \A k \in Group(p, f) : heap[<<k, p>>] = "live"
  <2>1. ASSUME NEW f \in ra[p]
        PROVE  ~Released(p, f) /\ pc[p] # "null_runtime"
    BY <1>1, Places DEF Released, Fields
  <2> QED
    BY <1>1, <2>1, WithIsGroup
<1>4. \A k \in Kinds : <<k, p>> \in Named(p) <=> k \in K
  <2>1. \A k \in Kinds : (\E f \in ra[p] : <<k, p>> \in With(p, f)) <=> \E f \in ra[p] : k \in Group(p, f)
    BY <1>3
  <2>2. \A k \in Kinds : <<k, p>> \in Named(p) <=> (\E f \in ra[p] : <<k, p>> \in With(p, f)) \/ <<k, p>> = <<"args", p>>
    BY Zenon DEF Named
  <2>3. \A k \in Kinds : <<k, p>> = <<"args", p>> <=> k = "args"
    OBVIOUS
  <2> QED
    BY <2>1, <2>2, <2>3
<1>5. \A k \in K : heap[<<k, p>>] = "live"
  BY <1>2, <1>3
<1>6. Moves(p, "gone", {}, {}) /\ module'[p] = Null /\ p \notin loaded' /\ killed' = killed
  BY DEF Cleanup, Moves, Goto, WasmTypes
<1>7. Turns(p, K, "freed")
  <2> HIDE DEF K
  <2> QED
    BY <1>4, <1>5 DEF Cleanup, Free, Turns, Objects
<1>8. \A k \in Kinds : k \in K <=> k = "args" \/ \E f \in ra[p] : k \in Group(p, f)
  OBVIOUS
<1> HIDE DEF K
<1> USE <1>1, <1>2, <1>5, <1>6, <1>7, <1>8, NullAssumption, Places DEF Moves, Turns, Fields, Kinds, Group
<1>9. FieldsOwned(p)'
  BY DEF FieldsOwned, Released
<1>10. LocalsAgree(p)'
  BY DEF LocalsAgree
<1>11. ModuleOwned(p)'
  BY DEF ModuleOwned, HasModule
<1>12. NamesOwned(p)'
  BY DEF NamesOwned, Keeps, ModuleOwned, HasModule
<1>13. Progress(p)'
  BY DEF Progress, Live
<1>14. NoneTwice(p)'
  BY DEF NoneTwice
<1> QED
  BY <1>9, <1>10, <1>11, <1>12, <1>13, <1>14 DEF Own

\* Whatever a thread, its killer or the reaper does to its objects, they stay
\* owned, unless it is killed where it has released one it still names.
LEMMA StepOwns ==
  ASSUME WasmTypes, NEW p \in Spawns, Own(p), Step(p), p \notin cut'
  PROVE  Own(p)'
<1> QED
  BY SpawnBeginOwns, LoadFileOwns, NewEnvironmentOwns, NewRuntimeOwns, NewRuntimeFailsOwns, EnvNullOwns, LookupOwns,
     HitFreeOwns, HitNullOwns, ParseModuleOwns, InsertFillOwns, InsertLinkOwns, HandOverOwns, CloneModuleOwns,
     LoadModuleOwns, StartOwns, DoneFreeOwns, DoneNullOwns, KillOwns, CleanupOwns
  DEF Step

\* The type invariant.
LEMMA TypesKept ==
  ASSUME WasmTypes, NEW p \in Spawns, Step(p)
  PROVE  WasmTypes'
<1> USE DEF Step, SpawnBegin, LoadFile, NewEnvironment, NewRuntime, NewRuntimeFails, EnvNull, Lookup, HitFree, HitNull,
        ParseModule, InsertFill, InsertLink, HandOver, CloneModule, LoadModule, Start, DoneFree, DoneNull, Kill, Cleanup
<1>1. PICK l \in Labels : Goto(p, l)
  <2>1. CASE DoneFree(p) \/ DoneNull(p)
    BY <2>1, Places DEF Labels, Fields
  <2>2. CASE ~(DoneFree(p) \/ DoneNull(p))
    <3> HIDE DEF DoneFree, DoneNull
    <3> QED
      BY <2>2 DEF Labels
  <2> QED
    BY <2>1, <2>2
<1>2. PICK objs : heap' = heap \/ heap' = New(objs) \/ heap' = Free(objs)
  BY Zenon
<1>3. /\ serial' = serial
      /\ file' = file \/ \E f \in Files : file' = [file EXCEPT ![p] = f]
      /\ ra' = ra \/ \E s \in SUBSET Fields : ra' = [ra EXCEPT ![p] = s]
      /\ loc' = loc \/ \E s \in SUBSET {"runtime", "env", "data"} : loc' = [loc EXCEPT ![p] = s]
      /\ module' = module \/ \E m \in {Null, "master", "clone"} : module' = [module EXCEPT ![p] = m]
      /\ loaded' \subseteq loaded \cup {p}
  <2>1. ra[p] \subseteq Fields /\ loc[p] \subseteq {"runtime", "env", "data"}
    BY DEF WasmTypes
  <2> QED
    BY <2>1 DEF Fields
<1>4. from' = from \/ \E s \in Spawns \cup {Null} : from' = [from EXCEPT ![p] = s]
  BY FirstSpawns
<1>5. \/ cache' = cache /\ (tail' = tail \/ tail' = [tail EXCEPT ![p] = cache])
      \/ cache' = <<p>> \o tail[p] /\ tail' = [tail EXCEPT ![p] = <<>>]
  OBVIOUS
<1>6. \/ Kill(p) /\ killed' = killed \cup {p} /\ cut' \subseteq cut \cup {p}
      \/ killed' = killed /\ cut' = cut /\ (Cleanup(p) \/ pc[p] \notin {"dead", "gone"})
  BY Places, ZenonT(60) DEF Fields
<1> HIDE DEF Step, SpawnBegin, LoadFile, NewEnvironment, NewRuntime, NewRuntimeFails, EnvNull, Lookup, HitFree, HitNull,
        ParseModule, InsertFill, InsertLink, HandOver, CloneModule, LoadModule, Start, DoneFree, DoneNull, Kill, Cleanup
<1>7. pc' \in [Spawns -> Labels]
  BY <1>1 DEF Goto, WasmTypes
<1>8. heap' \in [Objects -> {"none", "live", "freed", "twice"}]
  BY <1>2 DEF New, Free, WasmTypes
<1>9. cache' \in Seq(Spawns) /\ tail' \in [Spawns -> Seq(Spawns)]
  <2>1. cache \in Seq(Spawns) /\ tail \in [Spawns -> Seq(Spawns)]
    BY DEF WasmTypes
  <2>2. <<>> \in Seq(Spawns) /\ <<p>> \in Seq(Spawns) /\ tail[p] \in Seq(Spawns)
    BY <2>1
  <2>3. <<p>> \o tail[p] \in Seq(Spawns)
    BY <2>2
  <2> QED
    BY <1>5, <2>1, <2>2, <2>3
<1>10. cut' \subseteq killed' /\ killed' \subseteq {q \in Spawns : pc'[q] \in {"dead", "gone"}}
  BY <1>1, <1>6 DEF Kill, Cleanup, Goto, WasmTypes
<1>11. serial' \in BOOLEAN
  BY <1>3, Zenon DEF WasmTypes
<1>12. file' \in [Spawns -> Files \cup {Null}] /\ from' \in [Spawns -> Spawns \cup {Null}]
  <2>1. file \in [Spawns -> Files \cup {Null}] /\ from \in [Spawns -> Spawns \cup {Null}]
    BY DEF WasmTypes
  <2> QED
    BY <1>3, <1>4, <2>1
<1>13. ra' \in [Spawns -> SUBSET Fields]
  <2>1. ra \in [Spawns -> SUBSET Fields]
    BY DEF WasmTypes
  <2> QED
    BY <1>3, <2>1
<1>14. loc' \in [Spawns -> SUBSET {"runtime", "env", "data"}]
  <2>1. loc \in [Spawns -> SUBSET {"runtime", "env", "data"}]
    BY DEF WasmTypes
  <2> QED
    BY <1>3, <2>1
<1>15. module' \in [Spawns -> {Null, "master", "clone"}] /\ loaded' \subseteq Spawns
  <2>1. module \in [Spawns -> {Null, "master", "clone"}] /\ loaded \subseteq Spawns
    BY DEF WasmTypes
  <2> QED
    BY <1>3, <2>1
<1> QED
  BY <1>7, <1>8, <1>9, <1>10, <1>11, <1>12, <1>13, <1>14, <1>15 DEF WasmTypes

\* Only the insertion of an entry gives a pointer to one that had none.
LEMMA ListedBefore ==
  ASSUME WasmTypes, NEW p \in Spawns, Step(p), NEW e \in Spawns, Listed(e)'
  PROVE  Listed(e) \/ (e = p /\ InsertLink(p))
<1>1. CASE cache' = cache /\ tail' = tail /\ (from' = from \/ \E q \in Spawns : from' = [from EXCEPT ![q] = Null])
  BY <1>1, NullAssumption DEF Listed, Cached, WasmTypes
<1>2. CASE Lookup(p)
  BY <1>1, <1>2, FirstSpawns DEF Lookup, Listed, Cached, WasmTypes
<1>3. CASE InsertFill(p)
  <2>1. \A q \in Spawns : tail'[q] = tail[q] \/ tail'[q] = cache
    BY <1>3 DEF InsertFill, WasmTypes
  <2> QED
    BY <1>3, <2>1 DEF InsertFill, Listed, Cached
<1>4. CASE InsertLink(p)
  <2>1. \A i \in DOMAIN cache' : cache'[i] = p \/ \E j \in DOMAIN tail[p] : cache'[i] = tail[p][j]
    <3>1. tail[p] \in Seq(Spawns) /\ cache' = <<p>> \o tail[p]
      BY <1>4 DEF InsertLink, WasmTypes
    <3> QED
      BY <3>1
  <2>2. \A q \in Spawns : \A i \in DOMAIN tail'[q] : i \in DOMAIN tail[q] /\ tail'[q][i] = tail[q][i]
    BY <1>4 DEF InsertLink, WasmTypes
  <2>3. \A q \in Spawns : from'[q] = e => from[q] = e \/ e = p
    BY <1>4 DEF InsertLink, WasmTypes
  <2> QED
    BY <1>4, <2>1, <2>2, <2>3 DEF Listed, Cached
<1>5. CASE Cleanup(p)
  BY <1>1, <1>5 DEF Cleanup
<1> QED
  BY <1>1, <1>2, <1>3, <1>4, <1>5
  DEF Step, SpawnBegin, LoadFile, NewEnvironment, NewRuntime, NewRuntimeFails, EnvNull, HitFree, HitNull, ParseModule,
      HandOver, CloneModule, LoadModule, Start, DoneFree, DoneNull, Kill

\* The thread that made an entry takes nothing of it back.
LEMMA MakerShares ==
  ASSUME WasmTypes, NEW p \in Spawns, Own(p), Shared(p), Step(p), p \notin cut'
  PROVE  Shared(p)'
<1> DEFINE Kept == \A k \in {"entry", "data", "master", "masterNames"} : heap'[<<k, p>>] = heap[<<k, p>>]
<1>1. pc[p] \notin Unlisted /\ module[p] # "master" /\ (pc[p] = "handOver" \/ ("data" \notin ra[p] /\ "data" \notin loc[p]))
  BY DEF Shared
<1>2. ASSUME Kept, pc'[p] \notin Unlisted, module'[p] # "master",
             pc'[p] = "handOver" \/ ("data" \notin ra'[p] /\ "data" \notin loc'[p])
      PROVE  Shared(p)'
  BY <1>2 DEF Shared, Live
<1>3. heap' = heap => Kept
  OBVIOUS
<1> HIDE DEF Kept
<1>4. CASE HandOver(p)
  BY <1>1, <1>2, <1>3, <1>4 DEF HandOver, Goto, WasmTypes, Unlisted
<1>5. CASE CloneModule(p)
  <2>1. Kept
    BY <1>5, <1>3 DEF CloneModule, Kept, New, Objects, Kinds, Fields
  <2> QED
    BY <1>1, <1>2, <1>5, <2>1, NullAssumption DEF CloneModule, Goto, WasmTypes, Unlisted
<1>6. CASE LoadModule(p)
  <2>1. module[p] = "clone"
    BY <1>1, <1>6 DEF LoadModule, Own, ModuleOwned, HasModule
  <2>2. Kept
    BY <1>6, <1>3, <2>1 DEF LoadModule, Kept, Free, Loaded, NamesOf, Objects, Kinds, Fields
  <2> QED
    BY <1>1, <1>2, <1>6, <2>2, NullAssumption DEF LoadModule, Goto, WasmTypes, Unlisted, Kinds
<1>7. CASE Start(p)
  BY <1>1, <1>2, <1>3, <1>7 DEF Start, Goto, WasmTypes, Unlisted
<1>8. CASE DoneFree(p)
  <2>1. PICK f \in Fields : /\ pc[p] = FreeAt[f]
                            /\ IF Held(p, f) THEN Goto(p, NullAt[f]) /\ heap' = Free(With(p, f))
                               ELSE Goto(p, After[f]) /\ heap' = heap
    BY <1>8 DEF DoneFree
  <2>2. Kept
    <3>1. f = "data" => ~Held(p, f)
      BY <1>1, <2>1, Places DEF Held, Fields
    <3>2. With(p, f) = Group(p, f) \X {p}
      BY WithIsGroup
    <3> QED
      BY <1>1, <1>3, <2>1, <3>1, <3>2 DEF Kept, Free, Group, Objects, Kinds, Fields
  <2> QED
    BY <1>1, <1>2, <1>8, <2>1, <2>2, Places DEF DoneFree, Goto, WasmTypes, Unlisted, Fields
<1>9. CASE DoneNull(p)
  BY <1>1, <1>2, <1>3, <1>9, Places DEF DoneNull, Goto, WasmTypes, Unlisted, Fields
<1>10. CASE Kill(p)
  BY <1>1, <1>2, <1>3, <1>10 DEF Kill, Goto, WasmTypes, Unlisted, Windows
<1>11. CASE Cleanup(p)
  <2>1. \A f \in ra[p] : With(p, f) = Group(p, f) \X {p}
    BY WithIsGroup DEF WasmTypes
  <2>2. \A k \in {"entry", "data", "master", "masterNames"} : <<k, p>> \notin Named(p)
    <3>1. \A k \in {"entry", "data", "master", "masterNames"} : \A f \in ra[p] : <<k, p>> \notin With(p, f)
      <4>1. ra[p] \subseteq {"runtime", "env", "path"} /\ module[p] # "master"
        BY <1>1, <1>11 DEF Cleanup, WasmTypes, Fields
      <4> QED
        BY <2>1, <4>1 DEF Group
    <3>2. \A k : <<k, p>> \in Named(p) => (\E f \in ra[p] : <<k, p>> \in With(p, f)) \/ <<k, p>> = <<"args", p>>
      BY Zenon DEF Named
    <3> QED
      BY <3>1, <3>2
  <2>3. Kept
    BY <1>11, <2>2 DEF Cleanup, Kept, Free, Objects, Kinds, Fields
  <2> QED
    BY <1>1, <1>2, <1>11, <2>3, NullAssumption DEF Cleanup, Goto, WasmTypes, Unlisted, Kinds
<1> QED
  BY <1>1, <1>4, <1>5, <1>6, <1>7, <1>8, <1>9, <1>10, <1>11, Places
  DEF Step, SpawnBegin, LoadFile, NewEnvironment, NewRuntime, NewRuntimeFails, EnvNull, Lookup, HitFree, HitNull,
      ParseModule, InsertFill, InsertLink, Unlisted

------------------------------------------------------------------------------
\* At boot nothing was allocated.
LEMMA InitOwns == WasmInit => WasmInv
<1> SUFFICES ASSUME WasmInit PROVE WasmInv
  OBVIOUS
<1>1. WasmTypes
  <2>1. <<>> \in Seq(Spawns)
    OBVIOUS
  <2>2. pc \in [Spawns -> Labels] /\ serial \in BOOLEAN
    BY DEF WasmInit, Labels
  <2> QED
    BY <2>1, <2>2 DEF WasmInit, WasmTypes, Objects
<1>2. \A p \in Spawns : /\ pc[p] = "unborn" /\ ra[p] = {} /\ loc[p] = {} /\ module[p] = Null /\ p \notin loaded
                        /\ \A k \in Kinds : heap[<<k, p>>] = "none"
  BY DEF WasmInit, Objects
<1>3. ASSUME NEW p \in Spawns
      PROVE  Own(p)
  <2> USE <1>2, Places, NullAssumption DEF Kinds, Fields
  <2>1. FieldsOwned(p)
    BY DEF FieldsOwned, Released
  <2>2. LocalsAgree(p)
    BY DEF LocalsAgree
  <2>3. ModuleOwned(p)
    BY ZenonT(60) DEF ModuleOwned, HasModule
  <2>4. NamesOwned(p) /\ NoneTwice(p)
    BY DEF NamesOwned, NoneTwice
  <2>5. Progress(p)
    BY ZenonT(60) DEF Progress
  <2> QED
    BY <2>1, <2>2, <2>3, <2>4, <2>5 DEF Own
<1>4. \A e \in Spawns : ~Listed(e)
  BY NullAssumption DEF WasmInit, Listed, Cached
<1> QED
  BY <1>1, <1>3, <1>4 DEF WasmInv

\* Whatever the threads, their killers and the reaper do, in any order, the
\* heap objects of every program keep one owner.
LEMMA InvKept == WasmInv /\ [WasmNext]_wasmVars => WasmInv'
<1> SUFFICES ASSUME WasmInv, [WasmNext]_wasmVars PROVE WasmInv'
  OBVIOUS
<1> USE DEF WasmInv
<1>1. CASE UNCHANGED wasmVars
  <2>1. \A q \in Spawns : Same(q)
    BY <1>1 DEF wasmVars, Same
  <2>2. WasmTypes' /\ cut' = cut /\ \A e \in Spawns : Listed(e)' => Listed(e)
    BY <1>1 DEF wasmVars, WasmTypes, Objects, Listed, Cached
  <2> QED
    BY <2>1, <2>2, SameKeeps
<1>2. ASSUME NEW p \in Spawns, Step(p)
      PROVE  WasmInv'
  <2>1. WasmTypes'
    BY <1>2, TypesKept
  <2>2. cut \subseteq cut'
    BY <1>2 DEF Step, SpawnBegin, LoadFile, NewEnvironment, NewRuntime, NewRuntimeFails, EnvNull, Lookup, HitFree, HitNull,
                ParseModule, InsertFill, InsertLink, HandOver, CloneModule, LoadModule, Start, DoneFree, DoneNull, Kill, Cleanup
  <2>3. \A q \in Spawns : q # p => Same(q)
    BY <1>2, OthersSame
  <2>4. ASSUME NEW q \in Spawns \ cut'
        PROVE  Own(q)'
    BY <1>2, <2>2, <2>3, SameKeeps, StepOwns
  <2>5. ASSUME NEW e \in Spawns \ cut', Listed(e)'
        PROVE  Shared(e)'
    <3>1. Listed(e) \/ (e = p /\ InsertLink(p))
      BY <1>2, <2>5, ListedBefore
    <3>2. CASE Listed(e)
      BY <1>2, <2>2, <2>3, <3>2, SameKeeps, MakerShares
    <3>3. CASE e = p /\ InsertLink(p)
      <4>1. /\ pc[p] = "link" /\ pc'[p] = "handOver" /\ module' = module /\ heap' = heap
        BY <3>3 DEF InsertLink, Goto, WasmTypes
      <4>2. Own(p)
        BY <2>2, <3>3
      <4>3. "data" \in ra[p] /\ Live({<<"master", p>>, <<"masterNames", p>>}) /\ Live({<<"entry", p>>})
        BY <4>1, <4>2 DEF Own, Progress
      <4>4. heap[<<"data", p>>] = "live"
        BY <4>1, <4>2, <4>3, Places DEF Own, FieldsOwned, Released, Fields
      <4>5. module[p] # "master"
        BY <4>1, <4>2, Places DEF Own, ModuleOwned, HasModule
      <4> QED
        BY <3>3, <4>1, <4>3, <4>4, <4>5 DEF Shared, Live, Unlisted
    <3> QED
      BY <3>1, <3>2, <3>3
  <2> QED
    BY <2>1, <2>4, <2>5
<1> QED
  BY <1>1, <1>2 DEF WasmNext

\* What the invariant says of the checked property.
LEMMA InvImplies == WasmInv => ObjectsKept
<1> SUFFICES ASSUME WasmInv PROVE ObjectsKept
  OBVIOUS
<1> USE DEF WasmInv
<1>1. FreedOnce
  BY DEF FreedOnce, Own, NoneTwice
<1>2. UsesLive
  <2>1. ASSUME NEW e \in Cached \ cut
        PROVE  Live({<<"entry", e>>, <<"data", e>>, <<"master", e>>, <<"masterNames", e>>})
    <3>1. e \in Spawns
      BY DEF Cached, WasmTypes
    <3> QED
      BY <3>1 DEF Listed, Shared
  <2>2. ASSUME NEW p \in Spawns, pc[p] = "run"
        PROVE  /\ Live({<<"env", p>>, <<"runtime", p>>} \cup Loaded(p))
               /\ IF module[p] = "master" THEN Live({<<"data", p>>})
                  ELSE from[p] \in cut \/ Live({<<"data", from[p]>>})
    <3>1. p \notin cut
      BY <2>2 DEF WasmTypes
    <3>2. Own(p)
      BY <3>1
    <3>3. /\ {"env", "runtime"} \subseteq ra[p] /\ p \in loaded
          /\ IF module[p] = "master" THEN "data" \in ra[p] ELSE from[p] # Null
      BY <2>2, <3>2 DEF Own, Progress, ModuleOwned
    <3>4. \A f \in ra[p] : heap[<<f, p>>] = "live"
      <4>1. ra[p] \subseteq Fields
        BY DEF WasmTypes
      <4> QED
        BY <2>2, <3>2, <4>1, Places DEF Own, FieldsOwned, Released, Fields
    <3>5. \A o \in Loaded(p) : heap[o] = "live"
      BY <2>2, <3>2, <3>3 DEF Own, ModuleOwned
    <3>6. ASSUME module[p] # "master", from[p] \notin cut
          PROVE  Live({<<"data", from[p]>>})
      <4>1. from[p] \in Spawns
        BY <3>3, <3>6 DEF WasmTypes
      <4>2. Shared(from[p])
        BY <3>6, <4>1 DEF Listed
      <4> QED
        BY <4>2 DEF Shared, Live
    <3> QED
      BY <3>3, <3>4, <3>5, <3>6 DEF Live
  <2> QED
    BY <2>1, <2>2 DEF UsesLive
<1>3. NothingLeaked
  <2>1. ASSUME NEW p \in Spawns \ killed, pc[p] = "gone", NEW k \in Kinds, heap[<<k, p>>] = "live"
        PROVE  heap[<<"entry", p>>] = "live" /\ k \in {"entry", "data", "master", "masterNames"}
    <3>1. Own(p) /\ ra[p] = {} /\ k # "args"
      BY <2>1, ZenonT(60) DEF WasmTypes, Own, Progress
    <3>2. ~Keeps(p) /\ pc[p] # "insert"
      BY <2>1, <3>1 DEF Keeps
    <3> QED
      BY <2>1, <3>1, <3>2, ZenonT(60) DEF Own, FieldsOwned, NamesOwned, Kinds, Fields
  <2> QED
    BY <2>1 DEF NothingLeaked, Gone
<1> QED
  BY <1>1, <1>2, <1>3 DEF ObjectsKept, ModulesSafe

\* Over every failed allocation, every kill between two steps of a thread, and
\* every later spawn: no object of a program is freed twice or before its last
\* use, and one that was not killed leaves nothing behind but what it gave to
\* the parse cache (wasm_thread_entry, wasm_proc_cleanup).
THEOREM WasmObjectsKept == WasmSpec => []ObjectsKept
<1>1. WasmSpec => []WasmInv
  BY InitOwns, InvKept, PTL DEF WasmSpec
<1> QED
  BY <1>1, InvImplies, PTL

------------------------------------------------------------------------------
\* A step puts at most its own thread under way, and only a spawn does.
LEMMA OneStarts ==
  ASSUME WasmTypes, NEW p \in Spawns, Step(p)
  PROVE  /\ \A q \in Spawns : q # p => (UnderWay(q)' <=> UnderWay(q)) /\ pc'[q] = pc[q] /\ file'[q] = file[q]
         /\ UnderWay(p) \/ (\E f \in Files : SpawnBegin(p, f))
         /\ serial' = serial
<1>1. \A q \in Spawns : q # p => pc'[q] = pc[q]
  BY OthersSame DEF Same
<1>2. \A q \in Spawns : q # p => file'[q] = file[q]
  BY DEF Step, SpawnBegin, LoadFile, NewEnvironment, NewRuntime, NewRuntimeFails, EnvNull, Lookup, HitFree, HitNull,
         ParseModule, InsertFill, InsertLink, HandOver, CloneModule, LoadModule, Start, DoneFree, DoneNull, Kill, Cleanup,
         WasmTypes
<1>3. UnderWay(p) \/ (\E f \in Files : SpawnBegin(p, f))
  BY Places DEF Step, LoadFile, NewEnvironment, NewRuntime, NewRuntimeFails, EnvNull, Lookup, HitFree, HitNull,
         ParseModule, InsertFill, InsertLink, HandOver, CloneModule, LoadModule, Start, DoneFree, DoneNull, Kill, Cleanup,
         UnderWay, Fields
<1>4. serial' = serial
  BY DEF Step, SpawnBegin, LoadFile, NewEnvironment, NewRuntime, NewRuntimeFails, EnvNull, Lookup, HitFree, HitNull,
         ParseModule, InsertFill, InsertLink, HandOver, CloneModule, LoadModule, Start, DoneFree, DoneNull, Kill, Cleanup
<1> QED
  BY <1>1, <1>2, <1>3, <1>4 DEF UnderWay

\* No spawn is under way at boot.
LEMMA SerialInit == WasmInit => SerialInv
<1> SUFFICES ASSUME WasmInit PROVE SerialInv
  OBVIOUS
<1>1. {p \in Spawns : UnderWay(p)} = {}
  BY DEF WasmInit, UnderWay
<1>2. Cached = {} /\ DOMAIN cache = {}
  BY DEF WasmInit, Cached
<1>3. \A p \in Spawns : pc[p] = "unborn" /\ heap[<<"entry", p>>] = "none"
  BY DEF WasmInit, Objects, Kinds
<1>4. \A e \in Spawns : ~Listed(e)
  BY NullAssumption DEF WasmInit, Listed, Cached
<1> QED
  BY <1>1, <1>2, <1>3, <1>4, FS_EmptySet DEF SerialInv, InTurn

\* The entries stay one per file, whoever is killed.
LEMMA SerialKept ==
  ASSUME WasmTypes, SerialInv, NEW p \in Spawns, Step(p)
  PROVE  SerialInv'
<1> DEFINE Busy == {q \in Spawns : UnderWay(q)}
<1>1. IsFiniteSet(Busy')
  <2>1. Busy' \subseteq Busy \cup {p}
    BY OneStarts
  <2>2. IsFiniteSet(Busy)
    BY DEF SerialInv
  <2> HIDE DEF Busy
  <2> QED
    BY <2>1, <2>2, FS_AddElement, FS_Subset
<1>2. ASSUME NEW e \in Spawns, Listed(e)'
      PROVE  pc'[e] \notin Unlisted
  <2>1. e = p /\ pc[p] \notin Unlisted => pc'[p] \notin Unlisted
    <3>1. CASE DoneFree(p) \/ DoneNull(p)
      BY <3>1, Places DEF DoneFree, DoneNull, WasmTypes, Goto, Unlisted, Fields
    <3>2. CASE \/ LoadFile(p) \/ NewEnvironment(p) \/ NewRuntime(p) \/ NewRuntimeFails(p) \/ EnvNull(p)
               \/ Lookup(p) \/ HitFree(p) \/ HitNull(p) \/ ParseModule(p) \/ InsertFill(p) \/ InsertLink(p)
               \/ \E f \in Files : SpawnBegin(p, f)
      BY <3>2 DEF SpawnBegin, LoadFile, NewEnvironment, NewRuntime, NewRuntimeFails, EnvNull, Lookup, HitFree, HitNull,
         ParseModule, InsertFill, InsertLink, Unlisted
    <3>3. CASE HandOver(p) \/ CloneModule(p) \/ LoadModule(p) \/ Start(p) \/ Kill(p) \/ Cleanup(p)
      BY <3>3 DEF HandOver, CloneModule, LoadModule, Start, Kill, Cleanup, WasmTypes, Goto, Unlisted
    <3> QED
      BY <3>1, <3>2, <3>3 DEF Step
  <2>2. InsertLink(p) => pc'[p] \notin Unlisted
    BY DEF InsertLink, WasmTypes, Goto, Unlisted
  <2> QED
    BY <1>2, <2>1, <2>2, ListedBefore, OneStarts DEF SerialInv
<1>3. ASSUME serial, NEW f \in Files, SpawnBegin(p, f)
      PROVE  InTurn'
  <2>1. Busy = {}
    <3>1. IsFiniteSet(Busy) /\ Cardinality(Busy) < 1
      BY <1>3 DEF SerialInv, SpawnBegin, UnderWay
    <3> HIDE DEF Busy
    <3>2. Cardinality(Busy) \in Nat
      BY <3>1, FS_CardinalityType
    <3>3. Cardinality(Busy) = 0
      BY <3>1, <3>2
    <3> QED
      BY <3>1, <3>3, FS_EmptySet
  <2>2. \A q \in Spawns : UnderWay(q)' => q = p
    BY <2>1, OneStarts
  <2>3. pc'[p] \in {"open", "dead", "gone"} /\ cache' = cache /\ tail' = tail /\ killed' = killed
    BY <1>3 DEF SpawnBegin, Goto, WasmTypes
  <2>4. \A q \in Spawns : heap'[<<"entry", q>>] = heap[<<"entry", q>>]
    BY <1>3 DEF SpawnBegin, New, Objects, Kinds, Fields
  <2>5. \A i \in DOMAIN cache : file'[cache[i]] = file[cache[i]]
    <3>1. ASSUME NEW i \in DOMAIN cache
          PROVE  cache[i] \in Spawns /\ cache[i] # p
      <4>1. cache[i] \in Spawns
        BY DEF WasmTypes
      <4> QED
        BY <1>3, <4>1 DEF SpawnBegin, SerialInv, Listed, Cached, Unlisted
    <3> QED
      BY <3>1, OneStarts
  <2>6. \A q \in Spawns : pc[q] # "link"
    BY <2>1 DEF UnderWay
  <2>7. InTurn
    BY <1>3 DEF SerialInv
  <2> HIDE DEF Busy
  <2>8. \A q \in Spawns : pc'[q] \notin {"parse", "insert", "link"}
    BY <2>2, <2>3 DEF UnderWay
  <2>9. \A i, j \in DOMAIN cache' : file'[cache'[i]] = file'[cache'[j]] => i = j
    BY <2>3, <2>5, <2>7 DEF InTurn
  <2>10. \A q \in Spawns \ killed' : heap'[<<"entry", q>>] = "live" => q \in Cached'
    BY <2>3, <2>4, <2>6, <2>7 DEF InTurn, Cached
  <2> QED
    BY <2>2, <2>8, <2>9, <2>10 DEF InTurn
<1>4. ASSUME serial, \A f \in Files : ~SpawnBegin(p, f)
      PROVE  InTurn'
  <2>1. InTurn /\ UnderWay(p) /\ \A q \in Spawns : UnderWay(q) => q = p
    BY <1>4, OneStarts DEF SerialInv, InTurn
  <2>2. \A q \in Spawns : UnderWay(q)' => q = p
    BY <2>1, OneStarts
  <2>3. file' = file
    BY <1>4 DEF Step, LoadFile, NewEnvironment, NewRuntime, NewRuntimeFails, EnvNull, Lookup, HitFree, HitNull,
         ParseModule, InsertFill, InsertLink, HandOver, CloneModule, LoadModule, Start, DoneFree, DoneNull, Kill, Cleanup
  <2>4. InsertLink(p) \/ cache' = cache
    BY <1>4 DEF Step, LoadFile, NewEnvironment, NewRuntime, NewRuntimeFails, EnvNull, Lookup, HitFree, HitNull,
         ParseModule, InsertFill, InsertLink, HandOver, CloneModule, LoadModule, Start, DoneFree, DoneNull, Kill, Cleanup
  <2>5. InsertFill(p) \/ InsertLink(p) \/ tail' = tail
    BY <1>4 DEF Step, LoadFile, NewEnvironment, NewRuntime, NewRuntimeFails, EnvNull, Lookup, HitFree, HitNull,
         ParseModule, InsertFill, InsertLink, HandOver, CloneModule, LoadModule, Start, DoneFree, DoneNull, Kill, Cleanup
  <2>6. pc'[p] \in {"parse", "insert", "link"} =>
          \/ Lookup(p) /\ ~Hit(file[p])
          \/ ParseModule(p) \/ (InsertFill(p) /\ tail' = [tail EXCEPT ![p] = cache])
    <3>1. CASE DoneFree(p) \/ DoneNull(p)
      BY <3>1, Places DEF DoneFree, DoneNull, WasmTypes, Goto, Fields
    <3>2. CASE LoadFile(p) \/ NewEnvironment(p) \/ NewRuntime(p) \/ NewRuntimeFails(p) \/ EnvNull(p)
      BY <3>2 DEF LoadFile, NewEnvironment, NewRuntime, NewRuntimeFails, EnvNull, WasmTypes, Goto
    <3>3. CASE Lookup(p) \/ ParseModule(p) \/ InsertFill(p)
      BY <3>3 DEF Lookup, ParseModule, InsertFill, WasmTypes, Goto
    <3>4. CASE \/ HitFree(p) \/ HitNull(p) \/ InsertLink(p) \/ HandOver(p) \/ CloneModule(p) \/ LoadModule(p) \/ Start(p)
               \/ Kill(p) \/ Cleanup(p)
      BY <3>4 DEF HitFree, HitNull, InsertLink, HandOver, CloneModule, LoadModule, Start, Kill, Cleanup, WasmTypes, Goto
    <3> QED
      BY <1>4, <3>1, <3>2, <3>3, <3>4 DEF Step
  <2>7. ASSUME NEW q \in Spawns, pc'[q] \in {"parse", "insert", "link"}
        PROVE  ~Hit(file[q])' /\ (pc'[q] = "link" => tail'[q] = cache')
    <3>1. q = p
      BY <2>2, <2>7 DEF UnderWay
    <3>2. Lookup(p) \/ ParseModule(p) \/ InsertFill(p)
      BY <2>6, <2>7, <3>1
    <3>3. cache' = cache
      BY <3>2 DEF Lookup, ParseModule, InsertFill
    <3>4. ~Hit(file[p])
      BY <2>1, <2>6, <2>7, <3>1 DEF InTurn, ParseModule, InsertFill
    <3>5. pc'[p] = "link" => tail'[p] = cache
      <4>1. ASSUME pc'[p] = "link"
            PROVE  InsertFill(p)
        BY <3>2, <4>1 DEF Lookup, ParseModule, Goto, WasmTypes
      <4> QED
        BY <2>6, <2>7, <3>1, <4>1 DEF WasmTypes, InsertFill, Lookup, ParseModule
    <3> QED
      BY <2>3, <3>1, <3>3, <3>4, <3>5 DEF Hit, Cached
  <2>8. \A i, j \in DOMAIN cache' : file'[cache'[i]] = file'[cache'[j]] => i = j
    <3>1. CASE InsertLink(p)
      <4>1. cache' = <<p>> \o cache /\ ~Hit(file[p]) /\ cache \in Seq(Spawns)
        BY <2>1, <3>1 DEF InsertLink, InTurn, WasmTypes
      <4>2. \A i \in DOMAIN cache' : \/ i = 1 /\ cache'[i] = p
                                     \/ i # 1 /\ i - 1 \in DOMAIN cache /\ cache'[i] = cache[i - 1]
        BY <4>1
      <4>3. \A i \in DOMAIN cache : file[cache[i]] # file[p]
        BY <4>1 DEF Hit, Cached
      <4>4. DOMAIN cache' \subseteq Int
        BY <4>1
      <4>5. ASSUME NEW i \in DOMAIN cache', NEW j \in DOMAIN cache', file[cache'[i]] = file[cache'[j]]
            PROVE  i = j
        <5>1. CASE i = 1 \/ j = 1
          BY <4>2, <4>3, <4>5, <5>1
        <5>2. CASE i # 1 /\ j # 1
          <6>1. i - 1 = j - 1
            BY <2>1, <4>2, <4>5, <5>2 DEF InTurn
          <6> QED
            BY <4>4, <6>1
        <5> QED
          BY <5>1, <5>2
      <4> QED
        BY <2>3, <4>5
    <3> QED
      BY <2>1, <2>3, <2>4, <3>1 DEF InTurn
  <2>9. ASSUME NEW q \in Spawns \ killed', heap'[<<"entry", q>>] = "live"
        PROVE  q \in Cached' \/ pc'[q] = "link"
    <3>1. killed \subseteq killed'
      BY <1>4 DEF Step, LoadFile, NewEnvironment, NewRuntime, NewRuntimeFails, EnvNull, Lookup, HitFree, HitNull,
         ParseModule, InsertFill, InsertLink, HandOver, CloneModule, LoadModule, Start, DoneFree, DoneNull, Kill, Cleanup
    <3>2. heap[<<"entry", q>>] = "live" \/ (q = p /\ pc'[p] = "link")
      <4>1. CASE InsertFill(p)
        BY <2>9, <4>1 DEF InsertFill, New, Objects, Kinds, Goto, WasmTypes
      <4>2. CASE ~InsertFill(p)
        <5>1. CASE LoadFile(p) \/ NewEnvironment(p) \/ NewRuntime(p) \/ ParseModule(p) \/ CloneModule(p)
          BY <2>9, <5>1 DEF LoadFile, NewEnvironment, NewRuntime, ParseModule, CloneModule, New, Objects, Kinds, Fields
        <5>2. CASE NewRuntimeFails(p) \/ HitFree(p) \/ LoadModule(p) \/ DoneFree(p) \/ Cleanup(p)
          <6>1. heap' = heap \/ \E objs : heap' = Free(objs)
            BY <5>2 DEF NewRuntimeFails, HitFree, LoadModule, DoneFree, Cleanup
          <6> QED
            BY <2>9, <6>1 DEF Free, Objects, Kinds
        <5>3. CASE EnvNull(p) \/ Lookup(p) \/ HitNull(p) \/ InsertLink(p) \/ HandOver(p) \/ Start(p) \/ DoneNull(p) \/ Kill(p)
          BY <2>9, <5>3 DEF EnvNull, Lookup, HitNull, InsertLink, HandOver, Start, DoneNull, Kill
        <5> QED
          BY <1>4, <4>2, <5>1, <5>2, <5>3 DEF Step
      <4> QED
        BY <4>1, <4>2
    <3>3. ASSUME heap[<<"entry", q>>] = "live"
          PROVE  q \in Cached' \/ pc'[q] = "link"
      <4>1. q \in Cached \/ pc[q] = "link"
        BY <2>1, <2>9, <3>1, <3>3 DEF InTurn
      <4>2. Cached \subseteq Cached'
        <5>1. CASE InsertLink(p)
          <6>1. cache' = <<p>> \o cache /\ cache \in Seq(Spawns)
            BY <2>1, <5>1 DEF InsertLink, InTurn, WasmTypes
          <6>2. \A i \in DOMAIN cache : i + 1 \in DOMAIN cache' /\ cache'[i + 1] = cache[i]
            BY <6>1
          <6> QED
            BY <6>2 DEF Cached
        <5> QED
          BY <2>4, <5>1 DEF Cached
      <4>3. CASE pc[q] = "link" /\ q # p
        BY <4>3, OneStarts
      <4>4. CASE pc[q] = "link" /\ q = p
        <5>1. CASE InsertLink(p)
          <6>1. cache' = <<p>> \o cache /\ cache \in Seq(Spawns)
            BY <2>1, <5>1 DEF InsertLink, InTurn, WasmTypes
          <6>2. 1 \in DOMAIN cache' /\ cache'[1] = p
            BY <6>1
          <6> QED
            BY <4>4, <6>2 DEF Cached
        <5>2. CASE Kill(p)
          BY <2>9, <4>4, <5>2 DEF Kill
        <5> QED
          BY <1>4, <4>4, <5>1, <5>2, Places, ZenonT(60) DEF Step, LoadFile, NewEnvironment, NewRuntime, NewRuntimeFails, EnvNull, Lookup, HitFree, HitNull,
         ParseModule, InsertFill, HandOver, CloneModule, LoadModule, Start, DoneFree, DoneNull, Cleanup, Fields
      <4> QED
        BY <4>1, <4>2, <4>3, <4>4
    <3> QED
      BY <3>2, <3>3
  <2> QED
    BY <2>2, <2>7, <2>8, <2>9 DEF InTurn
<1> QED
  BY <1>1, <1>2, <1>3, <1>4, OneStarts DEF SerialInv

\* Each file is parsed once: with one spawn at a time no two entries of the
\* cache are of the same file, and an entry that was made and not lost to a kill
\* is found by every later spawn (wasm_parse_cache_lookup and _insert).
THEOREM WasmParsedOnce == WasmSpec => []ParsedOnce
<1>1. WasmInit => WasmTypes /\ SerialInv
  BY InitOwns, SerialInit DEF WasmInv
<1>2. ASSUME WasmTypes /\ SerialInv, [WasmNext]_wasmVars
      PROVE  (WasmTypes /\ SerialInv)'
  <2>1. CASE UNCHANGED wasmVars
    BY <1>2, <2>1 DEF wasmVars, WasmTypes, Objects, SerialInv, InTurn, Listed, Cached, Hit, UnderWay
  <2>2. CASE WasmNext
    BY <1>2, <2>2, TypesKept, SerialKept DEF WasmNext
  <2> QED
    BY <1>2, <2>1, <2>2
<1>3. WasmTypes /\ SerialInv => ParsedOnce
  BY DEF SerialInv, InTurn, ParsedOnce, Gone
<1> QED
  BY <1>1, <1>2, <1>3, PTL DEF WasmSpec

------------------------------------------------------------------------------
(* The kernel heap                                                          *)

Blocks == [addr : Nat, size : Nat, is_free : BOOLEAN]
BlockEnd(b) == b.addr + Hdr + b.size

\* A list of blocks that lie end to end from address 0 to e.
Tiling(bs, e) ==
  /\ bs \in Seq(Blocks) /\ bs # << >> /\ bs[1].addr = 0
  /\ \A i \in DOMAIN bs : bs[i].size > 0
  /\ \A i \in DOMAIN bs : i # 1 => bs[i].addr = BlockEnd(bs[i - 1])
  /\ BlockEnd(bs[Len(bs)]) = e
InUse(bs) == {b \in Blocks : ~b.is_free /\ \E i \in DOMAIN bs : bs[i] = b}
\* What the clients hold is theirs, and nothing else is in use.
Holds(us, ow) ==
  /\ \A o \in ow : \E b \in us : b.addr = o[1] /\ b.size >= o[2]
  /\ \A o, q \in ow : o[1] = q[1] => o = q
  /\ \A b \in us : \E o \in ow : o[1] = b.addr
HeapInv ==
  /\ Tiling(block, heap_end_addr) /\ heap_end_addr \in Nat /\ pages \in Nat
  /\ owned \subseteq Nat \X Nat
  /\ Holds(InUse(block), owned)

\* The blocks of a tiling are numbers.
LEMMA TilesAre ==
  ASSUME HeapAssumption, NEW bs, NEW e, Tiling(bs, e)
  PROVE  /\ Len(bs) \in Nat \ {0} /\ DOMAIN bs = 1 .. Len(bs) /\ e \in Nat /\ Hdr \in Nat \ {0}
         /\ \A i \in 1 .. Len(bs) : bs[i] \in Blocks
         /\ \A i \in 1 .. Len(bs) : /\ bs[i].addr \in Nat /\ bs[i].size \in Nat \ {0} /\ bs[i].is_free \in BOOLEAN
                                    /\ BlockEnd(bs[i]) \in Nat
<1>1. bs \in Seq(Blocks) /\ bs # << >> /\ Len(bs) \in Nat \ {0} /\ DOMAIN bs = 1 .. Len(bs) /\ Hdr \in Nat \ {0}
  BY DEF Tiling, HeapAssumption
<1>2. \A i \in 1 .. Len(bs) : bs[i] \in Blocks
  BY <1>1, ElementOfSeq
<1>3. \A i \in 1 .. Len(bs) : bs[i].addr \in Nat /\ bs[i].size \in Nat /\ bs[i].size > 0 /\ bs[i].is_free \in BOOLEAN
  BY <1>1, <1>2 DEF Blocks, Tiling
<1>4. \A i \in 1 .. Len(bs) : BlockEnd(bs[i]) \in Nat
  BY <1>1, <1>3 DEF BlockEnd
<1>5. e \in Nat
  <2>1. Len(bs) \in 1 .. Len(bs)
    BY <1>1
  <2> QED
    BY <1>4, <2>1 DEF Tiling
<1> QED
  BY <1>1, <1>2, <1>3, <1>4, <1>5

\* They come in the order of their addresses,
LEMMA TilesRise ==
  ASSUME HeapAssumption, NEW bs, NEW e, Tiling(bs, e), NEW i \in 1 .. Len(bs), NEW j \in 1 .. Len(bs), i < j
  PROVE  bs[i].addr < bs[j].addr
<1> DEFINE S == {k \in 1 .. Len(bs) : i < k /\ ~(bs[i].addr < bs[k].addr)}
<1> SUFFICES S = {}
  OBVIOUS
<1> SUFFICES ASSUME S # {} PROVE FALSE
  OBVIOUS
<1>1. PICK k \in S : \A m \in S : k <= m
  <2>1. S \subseteq Nat
    OBVIOUS
  <2> HIDE DEF S
  <2> QED
    BY <2>1, SmallestOfNats
<1>2. k \in 1 .. Len(bs) /\ i < k /\ ~(bs[i].addr < bs[k].addr) /\ k - 1 \in 1 .. Len(bs) /\ k - 1 < k /\ k # 1
  BY TilesAre
<1>3. bs[k].addr = bs[k - 1].addr + Hdr + bs[k - 1].size
  BY <1>2, TilesAre DEF Tiling, BlockEnd
<1>x. PICK w, a, v, z, h : w = bs[i].addr /\ a = bs[k - 1].addr /\ v = bs[k].addr /\ z = bs[k - 1].size /\ h = Hdr
  OBVIOUS
<1>4. w \in Nat /\ a \in Nat /\ v \in Nat /\ z \in Nat /\ h \in Nat \ {0} /\ v = a + h + z /\ ~(w < v)
  BY <1>x, <1>2, <1>3, TilesAre
<1>5. i = k - 1 \/ w < a
  <2>1. k - 1 \notin S
    BY <1>1, <1>2
  <2> QED
    BY <1>x, <1>2, <2>1
<1>6. w <= a
  BY <1>x, <1>4, <1>5
<1> QED
  BY ONLY <1>4, <1>6

\* so no two share one.
LEMMA TilesApart ==
  ASSUME HeapAssumption, NEW bs, NEW e, Tiling(bs, e), NEW i \in 1 .. Len(bs), NEW j \in 1 .. Len(bs),
         bs[i].addr = bs[j].addr
  PROVE  i = j
<1>1. ~(i < j) /\ ~(j < i)
  BY TilesRise, TilesAre
<1> QED
  BY <1>1

\* A block that goes behind the last one.
LEMMA TilesAppend ==
  ASSUME HeapAssumption, NEW bs, NEW e, Tiling(bs, e), NEW b \in Blocks, b.size > 0, b.addr = e,
         NEW new, new = Append(bs, b)
  PROVE  /\ Tiling(new, BlockEnd(b)) /\ Len(new) = Len(bs) + 1 /\ new[Len(bs) + 1] = b
         /\ \A i \in 1 .. Len(bs) : new[i] = bs[i]
         /\ InUse(new) = InUse(bs) \cup {x \in {b} : ~x.is_free}
<1> PICK n : n = Len(bs)
  OBVIOUS
<1>1. bs \in Seq(Blocks) /\ n \in Nat \ {0} /\ DOMAIN bs = 1 .. n
  BY TilesAre DEF Tiling
<1>2. /\ new \in Seq(Blocks) /\ Len(new) = n + 1 /\ DOMAIN new = 1 .. n + 1 /\ new[n + 1] = b
      /\ \A i \in 1 .. n : new[i] = bs[i]
  BY <1>1
<1>3. Tiling(new, BlockEnd(b))
  <2>1. new # << >> /\ new[1].addr = 0 /\ BlockEnd(new[Len(new)]) = BlockEnd(b)
    BY <1>1, <1>2 DEF Tiling
  <2>2. \A i \in 1 .. n + 1 : new[i].size > 0
    <3> SUFFICES ASSUME NEW i \in 1 .. n + 1 PROVE new[i].size > 0
      OBVIOUS
    <3>1. i \in 1 .. n \/ i = n + 1
      BY <1>1
    <3> QED
      BY <1>1, <1>2, <3>1 DEF Tiling
  <2>3. \A i \in 1 .. n + 1 : i # 1 => new[i].addr = BlockEnd(new[i - 1])
    <3> SUFFICES ASSUME NEW i \in 1 .. n + 1, i # 1 PROVE new[i].addr = BlockEnd(new[i - 1])
      OBVIOUS
    <3>1. CASE i \in 1 .. n
      <4>1. i - 1 \in 1 .. n
        BY <1>1, <3>1
      <4> QED
        BY <1>1, <1>2, <3>1, <4>1 DEF Tiling
    <3>2. CASE i = n + 1
      <4>1. i - 1 = n /\ n \in 1 .. n
        BY <1>1, <3>2
      <4> QED
        BY <1>1, <1>2, <3>2, <4>1 DEF Tiling
    <3>3. i \in 1 .. n \/ i = n + 1
      BY <1>1
    <3> QED
      BY <3>1, <3>2, <3>3
  <2> QED
    BY <1>2, <2>1, <2>2, <2>3 DEF Tiling
<1>4. ASSUME NEW x \in Blocks
      PROVE  (\E i \in 1 .. n + 1 : new[i] = x) <=> (\E i \in 1 .. n : bs[i] = x) \/ x = b
  <2>1. \A i \in 1 .. n + 1 : i \in 1 .. n \/ i = n + 1
    BY <1>1
  <2>2. n + 1 \in 1 .. n + 1 /\ \A i \in 1 .. n : i \in 1 .. n + 1
    BY <1>1
  <2> QED
    BY <1>2, <2>1, <2>2
<1>5. InUse(new) = InUse(bs) \cup {x \in {b} : ~x.is_free}
  BY <1>1, <1>2, <1>4 DEF InUse
<1> QED
  BY <1>1, <1>2, <1>3, <1>5

\* A block that two take the place of.
Split(bs, i, x, y) == SubSeq(bs, 1, i - 1) \o <<x, y>> \o SubSeq(bs, i + 1, Len(bs))
IsSplit(new, T, bs, i, x, y) ==
  /\ new \in Seq(T) /\ Len(new) = Len(bs) + 1
  /\ \A j \in 1 .. Len(bs) + 1 :
       new[j] = IF j < i THEN bs[j] ELSE IF j = i THEN x ELSE IF j = i + 1 THEN y ELSE bs[j - 1]
LEMMA SplitIs ==
  ASSUME NEW T, NEW bs \in Seq(T), NEW i \in 1 .. Len(bs), NEW x \in T, NEW y \in T
  PROVE  IsSplit(Split(bs, i, x, y), T, bs, i, x, y)
<1>c. PICK new : new = Split(bs, i, x, y)
  OBVIOUS
<1>a. PICK n, p, q : n = Len(bs) /\ p = SubSeq(bs, 1, i - 1) /\ q = SubSeq(bs, i + 1, n)
  OBVIOUS
<1>1. n \in Nat /\ i \in 1 .. n
  BY <1>a
<1>2. p \in Seq(T) /\ Len(p) = i - 1 /\ \A j \in 1 .. i - 1 : p[j] = bs[j]
  BY <1>1, <1>a
<1>3. q \in Seq(T) /\ Len(q) = n - i /\ \A j \in 1 .. n - i : q[j] = bs[i + j]
  BY <1>1, <1>a
<1>b. PICK r : r = p \o <<x, y>>
  OBVIOUS
<1>4. /\ r \in Seq(T) /\ Len(r) = i + 1
      /\ \A j \in 1 .. i + 1 : r[j] = IF j < i THEN bs[j] ELSE IF j = i THEN x ELSE y
  <2>1. <<x, y>> \in Seq(T) /\ Len(<<x, y>>) = 2 /\ <<x, y>>[1] = x /\ <<x, y>>[2] = y
    OBVIOUS
  <2>2. r \in Seq(T) /\ Len(r) = i + 1
    BY <1>1, <1>2, <1>b, <2>1
  <2>3. \A j \in 1 .. i + 1 : r[j] = IF j <= i - 1 THEN p[j] ELSE <<x, y>>[j - (i - 1)]
    BY <1>1, <1>2, <1>b, <2>1
  <2> SUFFICES ASSUME NEW j \in 1 .. i + 1 PROVE r[j] = IF j < i THEN bs[j] ELSE IF j = i THEN x ELSE y
    BY <2>2
  <2>4. CASE j < i
    BY <1>1, <1>2, <2>3, <2>4
  <2>5. CASE j = i
    BY <1>1, <2>1, <2>3, <2>5
  <2>6. CASE j = i + 1
    BY <1>1, <2>1, <2>3, <2>6
  <2> QED
    BY <1>1, <2>4, <2>5, <2>6
<1>5. new = r \o q
  BY <1>a, <1>b, <1>c DEF Split
<1>6. new \in Seq(T) /\ Len(new) = n + 1
      /\ \A j \in 1 .. n + 1 : new[j] = IF j <= i + 1 THEN r[j] ELSE q[j - (i + 1)]
  <2>1. /\ new \in Seq(T) /\ Len(new) = Len(r) + Len(q)
        /\ \A j \in 1 .. Len(r) + Len(q) : new[j] = IF j <= Len(r) THEN r[j] ELSE q[j - Len(r)]
    <3>1. /\ r \o q \in Seq(T) /\ Len(r \o q) = Len(r) + Len(q)
          /\ \A j \in 1 .. Len(r) + Len(q) : (r \o q)[j] = IF j <= Len(r) THEN r[j] ELSE q[j - Len(r)]
      BY <1>3, <1>4, ConcatProperties, Zenon
    <3> QED
      BY <1>5, <3>1, Zenon
  <2>2. Len(r) + Len(q) = n + 1 /\ Len(r) = i + 1
    BY <1>1, <1>3, <1>4
  <2> QED
    BY <2>1, <2>2
<1>7. ASSUME NEW j \in 1 .. n + 1
      PROVE  new[j] = IF j < i THEN bs[j] ELSE IF j = i THEN x ELSE IF j = i + 1 THEN y ELSE bs[j - 1]
  <2>1. CASE j <= i + 1
    <3>1. new[j] = r[j] /\ j \in 1 .. i + 1 /\ (j < i \/ j = i \/ j = i + 1)
      BY <1>1, <1>6, <2>1
    <3>2. r[j] = IF j < i THEN bs[j] ELSE IF j = i THEN x ELSE y
      BY <1>4, <3>1
    <3> QED
      BY <1>1, <3>1, <3>2
  <2>2. CASE j > i + 1
    <3>1. j - (i + 1) \in 1 .. n - i /\ i + (j - (i + 1)) = j - 1 /\ ~(j <= i + 1) /\ ~(j < i) /\ j # i /\ j # i + 1
      BY <1>1, <2>2
    <3>2. new[j] = q[j - (i + 1)]
      BY <1>6, <3>1
    <3>3. q[j - (i + 1)] = bs[j - 1]
      BY <1>3, <3>1
    <3> QED
      BY <3>1, <3>2, <3>3
  <2>3. j <= i + 1 \/ j > i + 1
    BY <1>1
  <2> QED
    BY <2>1, <2>2, <2>3
<1> QED
  BY <1>a, <1>c, <1>6, <1>7 DEF IsSplit

\* A block that is given away, whole or its beginning.
LEMMA TakeTiles ==
  ASSUME HeapAssumption, NEW bs, NEW e, Tiling(bs, e), NEW i \in 1 .. Len(bs), NEW n \in Nat \ {0},
         bs[i].is_free, bs[i].size >= n, NEW new, new = Take(bs, i, n)
  PROVE  /\ Tiling(new, e)
         /\ \E u \in Blocks : /\ u.addr = bs[i].addr /\ u.size >= n /\ ~u.is_free
                              /\ InUse(new) = InUse(bs) \cup {u}
<1>a. PICK m, b : m = Len(bs) /\ b = bs[i]
  OBVIOUS
<1>1. /\ bs \in Seq(Blocks) /\ m \in Nat \ {0} /\ DOMAIN bs = 1 .. m /\ Hdr \in Nat \ {0} /\ i \in 1 .. m
      /\ b \in Blocks /\ b.addr \in Nat /\ b.size \in Nat \ {0} /\ b.is_free = TRUE
  BY <1>a, TilesAre DEF Tiling
<1>2. CASE b.size >= n + Hdr + 1
  <2>a. PICK x, y : x = Blk(b.addr, n, FALSE) /\ y = Blk(b.addr + Hdr + n, b.size - n - Hdr, TRUE)
    OBVIOUS
  <2>1. /\ x \in Blocks /\ x.addr = b.addr /\ x.size = n /\ x.is_free = FALSE
        /\ y \in Blocks /\ y.addr = b.addr + Hdr + n /\ y.size = b.size - n - Hdr /\ y.is_free = TRUE
        /\ y.size \in Nat /\ y.size > 0
    <3>1. b.size - n - Hdr \in Nat \ {0} /\ b.addr + Hdr + n \in Nat
      <4>1. \A a, z, h \in Nat : z >= n + h + 1 => z - n - h \in Nat \ {0} /\ a + h + n \in Nat
        OBVIOUS
      <4> QED
        BY <1>1, <1>2, <4>1
    <3> QED
      BY <1>1, <2>a, <3>1 DEF Blk, Blocks
  <2>2. new = Split(bs, i, x, y)
    BY <1>a, <1>2, <2>a DEF Take, Split
  <2>3. /\ new \in Seq(Blocks) /\ Len(new) = m + 1
        /\ \A j \in 1 .. m + 1 :
             new[j] = IF j < i THEN bs[j] ELSE IF j = i THEN x ELSE IF j = i + 1 THEN y ELSE bs[j - 1]
    <3>1. bs \in Seq(Blocks) /\ i \in 1 .. Len(bs) /\ x \in Blocks /\ y \in Blocks /\ m = Len(bs)
      BY <1>1, <1>a, <2>1
    <3>2. IsSplit(Split(bs, i, x, y), Blocks, bs, i, x, y)
      BY <3>1, SplitIs
    <3>3. IsSplit(new, Blocks, bs, i, x, y)
      BY <2>2, <3>2
    <3> QED
      BY <1>a, <3>3 DEF IsSplit
  <2>4. BlockEnd(x) = y.addr /\ BlockEnd(y) = BlockEnd(b)
    <3>1. \A a, z, h \in Nat : (a + h + n) + h + (z - n - h) = a + h + z
      OBVIOUS
    <3>2. (b.addr + Hdr + n) + Hdr + (b.size - n - Hdr) = b.addr + Hdr + b.size
      BY <1>1, <3>1
    <3> QED
      BY <2>1, <3>2 DEF BlockEnd
  <2>5. /\ \A j \in 1 .. i - 1 : new[j] = bs[j]
        /\ new[i] = x /\ new[i + 1] = y
        /\ \A j \in i + 2 .. m + 1 : j - 1 \in 1 .. m /\ new[j] = bs[j - 1]
    BY <1>1, <2>3
  <2>6. \A j \in 1 .. m + 1 : j \in 1 .. i - 1 \/ j = i \/ j = i + 1 \/ j \in i + 2 .. m + 1
    BY <1>1
  <2>7. \A j \in 1 .. m + 1 : new[j].size > 0
    <3> SUFFICES ASSUME NEW j \in 1 .. m + 1 PROVE new[j].size > 0
      OBVIOUS
    <3>1. CASE j \in 1 .. i - 1
      <4>1. j \in 1 .. m
        BY <1>1, <3>1
      <4> QED
        BY <1>1, <2>5, <3>1, <4>1 DEF Tiling
    <3>2. CASE j = i \/ j = i + 1
      BY <1>1, <2>1, <2>5, <3>2
    <3>3. CASE j \in i + 2 .. m + 1
      BY <1>1, <2>5, <3>3 DEF Tiling
    <3> QED
      BY <2>6, <3>1, <3>2, <3>3
  <2>8. \A j \in 1 .. m + 1 : j # 1 => new[j].addr = BlockEnd(new[j - 1])
    <3> SUFFICES ASSUME NEW j \in 1 .. m + 1, j # 1 PROVE new[j].addr = BlockEnd(new[j - 1])
      OBVIOUS
    <3>1. CASE j \in 1 .. i - 1
      <4>1. j \in 1 .. m /\ j - 1 \in 1 .. i - 1
        BY <1>1, <3>1
      <4> QED
        BY <1>1, <2>5, <3>1, <4>1 DEF Tiling
    <3>2. CASE j = i
      <4>1. j - 1 \in 1 .. i - 1 /\ b.addr = BlockEnd(bs[i - 1])
        BY <1>1, <1>a, <3>2 DEF Tiling
      <4> QED
        BY <2>1, <2>5, <3>2, <4>1
    <3>3. CASE j = i + 1
      <4>1. j - 1 = i
        BY <1>1, <3>3
      <4> QED
        BY <2>4, <2>5, <3>3, <4>1
    <3>4. CASE j = i + 2
      <4>1. j - 1 = i + 1 /\ j \in i + 2 .. m + 1 /\ i + 1 \in 1 .. m /\ i + 1 # 1 /\ (i + 1) - 1 = i
        BY <1>1, <3>4
      <4>2. bs[i + 1].addr = BlockEnd(b)
        BY <1>1, <1>a, <4>1 DEF Tiling
      <4>3. new[j] = bs[i + 1] /\ new[j - 1] = y
        BY <2>5, <4>1
      <4> QED
        BY <2>4, <4>2, <4>3
    <3>5. CASE j \in i + 3 .. m + 1
      <4>1. j \in i + 2 .. m + 1 /\ j - 1 \in i + 2 .. m + 1 /\ j - 1 \in 1 .. m /\ j - 1 # 1
        BY <1>1, <3>5
      <4>2. new[j] = bs[j - 1] /\ new[j - 1] = bs[(j - 1) - 1]
        BY <2>5, <4>1
      <4>3. bs[j - 1].addr = BlockEnd(bs[(j - 1) - 1])
        BY <1>1, <1>a, <4>1 DEF Tiling
      <4> QED
        BY <4>2, <4>3
    <3>6. j \in 1 .. i - 1 \/ j = i \/ j = i + 1 \/ j = i + 2 \/ j \in i + 3 .. m + 1
      BY <1>1
    <3> QED
      BY <3>1, <3>2, <3>3, <3>4, <3>5, <3>6
  <2>9. new # << >> /\ DOMAIN new = 1 .. m + 1
    BY <1>1, <2>3
  <2>10. new[1].addr = 0
    <3>1. CASE i = 1
      <4>1. new[1] = x /\ bs[1].addr = 0
        BY <2>5, <3>1 DEF Tiling
      <4> QED
        BY <1>a, <2>1, <3>1, <4>1
    <3>2. CASE i # 1
      <4>1. 1 \in 1 .. i - 1
        BY <1>1, <3>2
      <4> QED
        BY <2>5, <4>1 DEF Tiling
    <3> QED
      BY <3>1, <3>2
  <2>11. BlockEnd(new[Len(new)]) = e
    <3>1. BlockEnd(bs[m]) = e
      BY <1>a DEF Tiling
    <3>2. CASE i = m
      <4>1. new[Len(new)] = y /\ bs[m] = b
        BY <1>a, <2>3, <2>5, <3>2
      <4> QED
        BY <2>4, <3>1, <4>1
    <3>3. CASE i # m
      <4>1. m + 1 \in i + 2 .. m + 1 /\ (m + 1) - 1 = m
        BY <1>1, <3>3
      <4>2. new[m + 1] = bs[m]
        BY <2>5, <4>1
      <4> QED
        BY <2>3, <3>1, <4>2
    <3> QED
      BY <3>2, <3>3
  <2>12. Tiling(new, e)
    BY <2>3, <2>7, <2>8, <2>9, <2>10, <2>11 DEF Tiling
  <2>13. ASSUME NEW u \in Blocks, ~u.is_free
         PROVE  (\E j \in 1 .. m + 1 : new[j] = u) <=> (\E j \in 1 .. m : bs[j] = u) \/ u = x
    <3>1. ASSUME NEW j \in 1 .. m + 1, new[j] = u
          PROVE  (\E k \in 1 .. m : bs[k] = u) \/ u = x
      <4>1. CASE j \in 1 .. i - 1
        <5>1. j \in 1 .. m
          BY <1>1, <4>1
        <5> QED
          BY <2>5, <3>1, <4>1, <5>1
      <4>2. CASE j = i
        BY <2>5, <3>1, <4>2
      <4>3. CASE j = i + 1
        BY <2>1, <2>5, <2>13, <3>1, <4>3
      <4>4. CASE j \in i + 2 .. m + 1
        BY <2>5, <3>1, <4>4
      <4> QED
        BY <2>6, <4>1, <4>2, <4>3, <4>4
    <3>2. ASSUME NEW j \in 1 .. m, bs[j] = u
          PROVE  \E k \in 1 .. m + 1 : new[k] = u
      <4>1. j # i
        BY <1>1, <1>a, <2>13, <3>2
      <4>2. CASE j < i
        <5>1. j \in 1 .. i - 1 /\ j \in 1 .. m + 1
          BY <1>1, <4>2
        <5> QED
          BY <2>5, <3>2, <5>1
      <4>3. CASE j > i
        <5>1. j + 1 \in i + 2 .. m + 1 /\ j + 1 \in 1 .. m + 1 /\ (j + 1) - 1 = j
          BY <1>1, <4>3
        <5>2. new[j + 1] = bs[j]
          BY <2>5, <5>1
        <5> QED
          BY <3>2, <5>1, <5>2
      <4> QED
        BY <1>1, <4>1, <4>2, <4>3
    <3>3. i \in 1 .. m + 1
      BY <1>1
    <3> QED
      BY <2>5, <3>1, <3>2, <3>3
  <2>14. InUse(new) = InUse(bs) \cup {x}
    <3> SUFFICES ASSUME NEW u PROVE u \in InUse(new) <=> u \in InUse(bs) \/ u = x
      OBVIOUS
    <3>1. u \in InUse(new) <=> u \in Blocks /\ ~u.is_free /\ \E j \in 1 .. m + 1 : new[j] = u
      BY <2>9 DEF InUse
    <3>2. u \in InUse(bs) <=> u \in Blocks /\ ~u.is_free /\ \E j \in 1 .. m : bs[j] = u
      BY <1>1 DEF InUse
    <3> QED
      BY <2>1, <2>13, <3>1, <3>2
  <2>15. x.addr = bs[i].addr /\ x.size >= n /\ ~x.is_free
    BY <1>1, <1>a, <1>2, <2>1
  <2> QED
    BY <2>1, <2>12, <2>14, <2>15
<1>3. CASE ~(b.size >= n + Hdr + 1)
  <2>a. PICK x : x = [b EXCEPT !.is_free = FALSE]
    OBVIOUS
  <2>1. x \in Blocks /\ x.addr = b.addr /\ x.size = b.size /\ x.is_free = FALSE /\ BlockEnd(x) = BlockEnd(b)
    BY <1>1, <2>a DEF Blocks, BlockEnd
  <2>2. new = [bs EXCEPT ![i] = x]
    BY <1>a, <1>3, <2>a DEF Take
  <2>3. /\ new \in Seq(Blocks) /\ Len(new) = m /\ DOMAIN new = 1 .. m /\ new # << >>
        /\ new[i] = x /\ \A j \in 1 .. m : j # i => new[j] = bs[j]
    BY <1>1, <1>a, <2>1, <2>2
  <2>4. \A j \in 1 .. m : new[j].addr = bs[j].addr /\ new[j].size = bs[j].size /\ BlockEnd(new[j]) = BlockEnd(bs[j])
    BY <1>a, <2>1, <2>3
  <2>5. Tiling(new, e)
    <3>1. 1 \in 1 .. m /\ m \in 1 .. m /\ \A j \in 1 .. m : j # 1 => j - 1 \in 1 .. m
      BY <1>1
    <3>2. new[1].addr = 0 /\ BlockEnd(new[Len(new)]) = e
      BY <1>a, <2>3, <2>4, <3>1 DEF Tiling
    <3>3. \A j \in DOMAIN new : new[j].size > 0
      BY <1>1, <2>3, <2>4 DEF Tiling
    <3>4. \A j \in DOMAIN new : j # 1 => new[j].addr = BlockEnd(new[j - 1])
      BY <1>1, <2>3, <2>4, <3>1 DEF Tiling
    <3> QED
      BY <2>3, <3>2, <3>3, <3>4 DEF Tiling
  <2>6. ASSUME NEW u \in Blocks, ~u.is_free
        PROVE  (\E j \in 1 .. m : new[j] = u) <=> (\E j \in 1 .. m : bs[j] = u) \/ u = x
    BY <1>1, <1>a, <2>3, <2>6
  <2>7. InUse(new) = InUse(bs) \cup {x}
    BY <1>1, <2>1, <2>3, <2>6 DEF InUse
  <2> QED
    BY <1>1, <1>a, <2>1, <2>5, <2>7
<1> QED
  BY <1>2, <1>3

\* First fit finds a block that fits if there is one.
LEMMA FirstFitIs ==
  ASSUME HeapAssumption, NEW bs, NEW e, Tiling(bs, e), NEW n, NEW k, k = FirstFit(bs, n)
  PROVE  /\ k # 0 => k \in 1 .. Len(bs) /\ bs[k].is_free /\ bs[k].size >= n
         /\ k = 0 => \A i \in 1 .. Len(bs) : ~(bs[i].is_free /\ bs[i].size >= n)
<1> DEFINE I == {i \in 1 .. Len(bs) : bs[i].is_free /\ bs[i].size >= n}
<1>1. k = IF I # {} THEN Min(I) ELSE 0
  BY DEF FirstFit, SelectInSeq
<1>2. CASE I # {}
  <2>1. I \subseteq Nat
    OBVIOUS
  <2>2. \E x \in I : \A y \in I : x <= y
    <3> HIDE DEF I
    <3> QED
      BY <1>2, <2>1, SmallestOfNats
  <2>3. Min(I) \in I
    BY <2>2 DEF Min
  <2>4. k \in I
    BY <1>1, <1>2, <2>3
  <2> QED
    BY <2>4
<1>3. CASE I = {}
  BY <1>1, <1>3
<1> QED
  BY <1>2, <1>3

\* The pages heap_expand asks for hold the block, and pages hold something.
LEMMA WantedHolds ==
  ASSUME HeapAssumption, NEW n \in Nat \ {0}
  PROVE  /\ Wanted(n) \in Nat \ {0} /\ Wanted(n) * PageUnits \in Nat
         /\ Wanted(n) * PageUnits - Hdr >= n
<1> PICK x, u, q : x = n + Hdr + PageUnits - 1 /\ u = PageUnits /\ q = x \div u
  OBVIOUS
<1>1. x \in Nat /\ u \in Nat \ {0} /\ Hdr \in Nat /\ x >= u
  BY DEF HeapAssumption
<1>2. q \in Int /\ q * u <= x /\ x < q * u + u
  BY <1>1
<1>3. q >= 1
  <2> SUFFICES ASSUME q <= 0 PROVE FALSE
    BY <1>2
  <2>1. q * u <= 0
    BY <1>1, <1>2
  <2> QED
    BY <1>1, <1>2, <2>1
<1>4. q * u \in Int /\ q * u >= u
  BY <1>1, <1>2, <1>3
<1> QED
  BY <1>1, <1>2, <1>3, <1>4 DEF Wanted

LEMMA PagesHold ==
  ASSUME HeapAssumption, NEW p \in Nat \ {0}
  PROVE  p * PageUnits \in Nat /\ p * PageUnits - Hdr \in Nat \ {0}
<1> PICK u : u = PageUnits
  OBVIOUS
<1>1. u \in Nat \ {0} /\ Hdr \in Nat /\ u > Hdr
  BY DEF HeapAssumption
<1>2. p * u \in Nat /\ p * u >= u
  BY <1>1
<1> QED
  BY <1>1, <1>2

\* No two neighbours are free.
Loose(bs) == \A i \in 1 .. Len(bs) - 1 : ~(bs[i].is_free /\ bs[i + 1].is_free)

\* A block that is given back.
LEMMA FreedTiles ==
  ASSUME HeapAssumption, NEW e, Tiling(block, e), NEW a, NEW new, new = Freed(a)
  PROVE  Tiling(new, e) /\ InUse(new) = {b \in InUse(block) : b.addr # a}
<1>a. PICK bs, m : bs = block /\ m = Len(bs)
  OBVIOUS
<1>1. bs \in Seq(Blocks) /\ m \in Nat \ {0} /\ DOMAIN bs = 1 .. m /\ \A i \in 1 .. m : bs[i] \in Blocks
  BY <1>a, TilesAre DEF Tiling
<1>2. new = [i \in 1 .. m |-> IF bs[i].addr = a THEN [bs[i] EXCEPT !.is_free = TRUE] ELSE bs[i]]
  BY <1>1, <1>a DEF Freed
<1>3. ASSUME NEW i \in 1 .. m
      PROVE  /\ new[i] \in Blocks /\ new[i].addr = bs[i].addr /\ new[i].size = bs[i].size
             /\ new[i].is_free = (bs[i].is_free \/ bs[i].addr = a)
             /\ BlockEnd(new[i]) = BlockEnd(bs[i])
             /\ bs[i].addr # a => new[i] = bs[i]
  <2>1. bs[i] \in Blocks
    BY <1>1
  <2>2. CASE bs[i].addr = a
    <3>a. PICK r, x : r = bs[i] /\ x = [r EXCEPT !.is_free = TRUE]
      OBVIOUS
    <3>1. r \in Blocks /\ new[i] = x
      BY <1>2, <2>1, <2>2, <3>a
    <3>2. x \in Blocks /\ x.addr = r.addr /\ x.size = r.size /\ x.is_free = TRUE
      BY <3>1, <3>a DEF Blocks
    <3>3. BlockEnd(x) = BlockEnd(r)
      BY <3>2 DEF BlockEnd
    <3> QED
      BY <2>2, <3>1, <3>2, <3>3, <3>a
  <2>3. CASE bs[i].addr # a
    BY <1>2, <2>1, <2>3 DEF Blocks
  <2> QED
    BY <2>2, <2>3
<1>4. new \in Seq(Blocks) /\ Len(new) = m /\ DOMAIN new = 1 .. m /\ new # << >>
  <2>1. new \in [1 .. m -> Blocks] /\ m \in Nat
    BY <1>1, <1>2, <1>3
  <2> QED
    BY <1>1, <2>1
<1>5. Tiling(new, e)
  <2>1. 1 \in 1 .. m /\ m \in 1 .. m /\ \A j \in 1 .. m : j # 1 => j - 1 \in 1 .. m
    BY <1>1
  <2>2. Tiling(bs, e)
    BY <1>a
  <2>3. new[1].addr = 0 /\ BlockEnd(new[Len(new)]) = e
    BY <1>a, <1>3, <1>4, <2>1, <2>2 DEF Tiling
  <2>4. \A j \in DOMAIN new : new[j].size > 0
    BY <1>1, <1>3, <1>4, <2>2 DEF Tiling
  <2>5. \A j \in DOMAIN new : j # 1 => new[j].addr = BlockEnd(new[j - 1])
    BY <1>1, <1>3, <1>4, <2>1, <2>2 DEF Tiling
  <2> QED
    BY <1>4, <2>3, <2>4, <2>5 DEF Tiling
<1>6. ASSUME NEW u \in Blocks, ~u.is_free
      PROVE  (\E j \in 1 .. m : new[j] = u) <=> (\E j \in 1 .. m : bs[j] = u) /\ u.addr # a
  BY <1>1, <1>3, <1>6
<1>7. InUse(new) = {b \in InUse(bs) : b.addr # a}
  BY <1>1, <1>4, <1>6 DEF InUse
<1> QED
  BY <1>a, <1>5, <1>7

\* One step of the pass that joins free neighbours.
LEMMA JoinedTiles ==
  ASSUME HeapAssumption, NEW bs, NEW e, Tiling(bs, e), Loose(bs), NEW b \in Blocks, b.size > 0, b.addr = e,
         NEW new, new = Joined(bs, b)
  PROVE  /\ Tiling(new, BlockEnd(b)) /\ Loose(new)
         /\ InUse(new) = InUse(bs) \cup {x \in {b} : ~x.is_free}
<1>a. PICK m, c : m = Len(bs) /\ c = bs[m]
  OBVIOUS
<1>1. /\ bs \in Seq(Blocks) /\ bs # << >> /\ m \in Nat \ {0} /\ m \in 1 .. m /\ DOMAIN bs = 1 .. m /\ Hdr \in Nat \ {0}
      /\ c \in Blocks /\ c.addr \in Nat /\ c.size \in Nat \ {0} /\ c.is_free \in BOOLEAN
      /\ b.addr \in Nat /\ b.size \in Nat \ {0} /\ b.is_free \in BOOLEAN
  <2>1. bs \in Seq(Blocks) /\ bs # << >> /\ m \in Nat \ {0} /\ DOMAIN bs = 1 .. m /\ Hdr \in Nat \ {0}
    BY <1>a, TilesAre DEF Tiling
  <2>2. m \in 1 .. m
    BY <2>1
  <2>3. c \in Blocks /\ c.addr \in Nat /\ c.size \in Nat \ {0} /\ c.is_free \in BOOLEAN
    BY <1>a, <2>2, TilesAre
  <2>4. b.addr \in Nat /\ b.size \in Nat \ {0} /\ b.is_free \in BOOLEAN
    BY DEF Blocks
  <2> QED
    BY <2>1, <2>2, <2>3, <2>4
<1>2. Last(bs) = c /\ BlockEnd(c) = b.addr /\ c.addr + Hdr + c.size = b.addr
  BY <1>a, <1>1 DEF Last, Tiling, BlockEnd
<1>3. CASE c.is_free /\ b.is_free
  <2>a. PICK y : y = Blk(c.addr, c.size + Hdr + b.size, TRUE)
    OBVIOUS
  <2>1. new = Append(Front(bs), y)
    BY <1>1, <1>2, <1>3, <2>a DEF Joined
  <2>2. /\ y \in Blocks /\ y.addr = c.addr /\ y.is_free = TRUE /\ y.size > 0
        /\ BlockEnd(y) = BlockEnd(b)
    <3>1. c.size + Hdr + b.size \in Nat /\ c.size + Hdr + b.size > 0
      BY <1>1
    <3>2. y \in Blocks /\ y.addr = c.addr /\ y.is_free = TRUE /\ y.size = c.size + Hdr + b.size
      BY <1>1, <2>a, <3>1 DEF Blk, Blocks
    <3>3. c.addr + Hdr + (c.size + Hdr + b.size) = b.addr + Hdr + b.size
      <4>1. \A p, h, q, r, s \in Nat : p + h + q = s => p + h + (q + h + r) = s + h + r
        OBVIOUS
      <4> QED
        BY <1>1, <1>2, <4>1, SMTT(30)
    <3> QED
      BY <3>1, <3>2, <3>3 DEF BlockEnd
  <2>3. /\ new \in Seq(Blocks) /\ Len(new) = m /\ DOMAIN new = 1 .. m /\ new # << >>
        /\ new[m] = y /\ \A j \in 1 .. m : j # m => new[j] = bs[j]
    <3>a. PICK fr : fr = Front(bs)
      OBVIOUS
    <3>1. fr = SubSeq(bs, 1, m - 1)
      BY <1>a, <3>a DEF Front
    <3>2. fr \in Seq(Blocks) /\ Len(fr) = m - 1 /\ \A j \in 1 .. m - 1 : fr[j] = bs[j]
      BY <1>1, <1>a, <3>1
    <3>3. new = Append(fr, y)
      BY <2>1, <3>a
    <3>4. new \in Seq(Blocks) /\ Len(new) = m /\ DOMAIN new = 1 .. m /\ new[m] = y
      BY <1>1, <2>2, <3>2, <3>3
    <3>5. \A j \in 1 .. m - 1 : new[j] = fr[j]
      BY <1>1, <2>2, <3>2, <3>3
    <3>6. \A j \in 1 .. m : j # m => j \in 1 .. m - 1
      BY <1>1
    <3> QED
      BY <1>1, <3>2, <3>4, <3>5, <3>6
  <2>4. \A j \in 1 .. m : new[j].addr = bs[j].addr /\ new[j].is_free = bs[j].is_free
    BY <1>a, <1>3, <2>2, <2>3
  <2>5. Tiling(new, BlockEnd(b))
    <3>1. 1 \in 1 .. m /\ \A j \in 1 .. m : j # 1 => j - 1 \in 1 .. m /\ j - 1 # m
      BY <1>1
    <3>2. new[1].addr = 0 /\ BlockEnd(new[Len(new)]) = BlockEnd(b)
      BY <1>1, <2>2, <2>3, <2>4, <3>1 DEF Tiling
    <3>3. \A j \in 1 .. m : new[j].size > 0
      BY <1>1, <2>2, <2>3 DEF Tiling
    <3>4. \A j \in 1 .. m : j # 1 => new[j].addr = BlockEnd(new[j - 1])
      BY <1>1, <2>3, <2>4, <3>1 DEF Tiling
    <3> QED
      BY <2>3, <3>2, <3>3, <3>4 DEF Tiling
  <2>6. Loose(new)
    <3>1. \A j \in 1 .. m - 1 : j \in 1 .. m /\ j + 1 \in 1 .. m
      BY <1>1
    <3> QED
      BY <1>a, <2>3, <2>4, <3>1 DEF Loose
  <2>7. ASSUME NEW u \in Blocks, ~u.is_free
        PROVE  (\E j \in 1 .. m : new[j] = u) <=> (\E j \in 1 .. m : bs[j] = u)
    BY <1>1, <1>a, <1>3, <2>2, <2>3, <2>7
  <2>8. InUse(new) = InUse(bs)
    <3>1. ASSUME NEW u
          PROVE  u \in InUse(new) <=> u \in InUse(bs)
      <4>1. u \in InUse(new) <=> u \in Blocks /\ ~u.is_free /\ \E j \in 1 .. m : new[j] = u
        BY <2>3 DEF InUse
      <4>2. u \in InUse(bs) <=> u \in Blocks /\ ~u.is_free /\ \E j \in 1 .. m : bs[j] = u
        BY <1>1 DEF InUse
      <4> QED
        BY <2>7, <4>1, <4>2
    <3> QED
      BY <3>1
  <2> QED
    BY <1>3, <2>5, <2>6, <2>8
<1>4. CASE ~(c.is_free /\ b.is_free)
  <2>1. new = Append(bs, b)
    BY <1>1, <1>2, <1>4 DEF Joined
  <2>2. /\ Tiling(new, BlockEnd(b)) /\ Len(new) = m + 1 /\ new[m + 1] = b
        /\ \A i \in 1 .. m : new[i] = bs[i]
        /\ InUse(new) = InUse(bs) \cup {x \in {b} : ~x.is_free}
    <3>1. /\ Tiling(new, BlockEnd(b)) /\ Len(new) = Len(bs) + 1 /\ new[Len(bs) + 1] = b
          /\ \A i \in 1 .. Len(bs) : new[i] = bs[i]
          /\ InUse(new) = InUse(bs) \cup {x \in {b} : ~x.is_free}
      BY <2>1, TilesAppend
    <3> QED
      BY <1>a, <3>1
  <2>3. Loose(new)
    <3> SUFFICES ASSUME NEW i \in 1 .. m PROVE ~(new[i].is_free /\ new[i + 1].is_free)
      BY <1>1, <2>2 DEF Loose
    <3>1. CASE i = m
      BY <1>a, <1>1, <1>4, <2>2, <3>1
    <3>2. CASE i # m
      <4>1. i \in 1 .. m - 1 /\ i + 1 \in 1 .. m
        BY <1>1, <3>2
      <4> QED
        BY <1>a, <2>2, <4>1 DEF Loose
    <3> QED
      BY <3>1, <3>2
  <2> QED
    BY <2>2, <2>3
<1> QED
  BY <1>3, <1>4

\* What the pass over the first m blocks of a list computes.
Passed(f, bs, m) == f = [k \in 0 .. m |-> IF k = 0 THEN << >> ELSE Joined(f[k - 1], bs[k])]

\* The recursion of the pass exists: by a least block at which it would be
\* undefined.
LEMMA CoalescedIs ==
  ASSUME NEW bs, Len(bs) \in Nat
  PROVE  \E f : /\ Coalesced(bs) = f[Len(bs)] /\ f[0] = << >>
                /\ \A k \in 1 .. Len(bs) : f[k] = Joined(f[k - 1], bs[k])
<1>a. PICK l : l = Len(bs)
  OBVIOUS
<1> DEFINE S == {m \in 0 .. l : ~\E f : Passed(f, bs, m)}
<1>1. l \in Nat
  BY <1>a
<1>2. S = {}
  <2> SUFFICES ASSUME S # {} PROVE FALSE
    OBVIOUS
  <2>1. PICK m \in S : \A k \in S : m <= k
    <3>1. S \subseteq Nat
      BY <1>1
    <3> HIDE DEF S
    <3> QED
      BY <3>1, SmallestOfNats
  <2>2. m \in 0 .. l /\ ~\E f : Passed(f, bs, m)
    OBVIOUS
  <2>3. CASE m = 0
    <3>1. Passed([k \in 0 .. 0 |-> << >>], bs, 0)
      BY DEF Passed
    <3> QED
      BY <2>2, <2>3, <3>1
  <2>4. CASE m # 0
    <3>1. m - 1 \in 0 .. l /\ m - 1 \notin S
      BY <1>1, <2>1, <2>2, <2>4
    <3>2. PICK f : Passed(f, bs, m - 1)
      BY <3>1
    <3> DEFINE One(s, k) == Joined(s, bs[k])
               g == [k \in 0 .. m |-> IF k < m THEN f[k] ELSE One(f[m - 1], m)]
    <3>3. m \in Nat /\ m > 0
      BY <1>1, <2>2, <2>4
    <3> HIDE DEF One
    <3>4. \A k \in 0 .. m - 1 : f[k] = IF k = 0 THEN << >> ELSE One(f[k - 1], k)
      BY <3>2, <3>3 DEF Passed, One
    <3>5. \A k \in 0 .. m : g[k] = IF k = 0 THEN << >> ELSE One(g[k - 1], k)
      <4> SUFFICES ASSUME NEW k \in 0 .. m PROVE g[k] = IF k = 0 THEN << >> ELSE One(g[k - 1], k)
        OBVIOUS
      <4>1. CASE k < m
        <5>1. k \in 0 .. m - 1 /\ g[k] = f[k] /\ (k # 0 => g[k - 1] = f[k - 1])
          BY <3>3, <4>1
        <5> QED
          BY <3>4, <5>1
      <4>2. CASE k = m
        <5>1. g[k - 1] = f[k - 1] /\ g[k] = One(f[m - 1], m)
          BY <3>3, <4>2
        <5>2. k # 0 /\ f[m - 1] = f[k - 1]
          BY <3>3, <4>2
        <5> HIDE DEF g
        <5> QED
          BY <4>2, <5>1, <5>2
      <4>3. k < m \/ k = m
        BY <3>3
      <4> HIDE DEF g
      <4> QED
        BY <4>1, <4>2, <4>3
    <3>6. Passed(g, bs, m)
      BY <3>5 DEF Passed, One
    <3> HIDE DEF g
    <3> QED
      BY <2>2, <3>6
  <2> QED
    BY <2>3, <2>4
<1>3. \E f : Passed(f, bs, l)
  BY <1>1, <1>2
<1>b. PICK f : f = CHOOSE g : Passed(g, bs, l)
  OBVIOUS
<1>4. Coalesced(bs) = f[l]
  BY <1>a, <1>b, Zenon DEF Coalesced, Passed
<1>5. Passed(f, bs, l)
  BY <1>3, <1>b
<1>6. f = [k \in 0 .. l |-> IF k = 0 THEN << >> ELSE Joined(f[k - 1], bs[k])]
  BY <1>5 DEF Passed
<1>7. f[0] = << >>
  BY <1>1, <1>6
<1>8. ASSUME NEW k \in 1 .. l
      PROVE  f[k] = Joined(f[k - 1], bs[k])
  <2>1. k \in 0 .. l /\ k # 0
    BY <1>1
  <2> QED
    BY <1>6, <2>1
<1> QED
  BY <1>a, <1>4, <1>7, <1>8

\* The pass keeps the tiling and what is in use, and leaves no free neighbours.
LEMMA CoalescedTiles ==
  ASSUME HeapAssumption, NEW bs, NEW e, Tiling(bs, e), NEW new, new = Coalesced(bs)
  PROVE  Tiling(new, e) /\ Loose(new) /\ InUse(new) = InUse(bs)
<1>a. PICK l : l = Len(bs)
  OBVIOUS
<1>1. /\ bs \in Seq(Blocks) /\ l \in Nat \ {0} /\ DOMAIN bs = 1 .. l
      /\ \A i \in 1 .. l : bs[i] \in Blocks /\ bs[i].size > 0
  <2>1. bs \in Seq(Blocks) /\ l \in Nat \ {0} /\ DOMAIN bs = 1 .. l /\ \A i \in 1 .. l : bs[i] \in Blocks
    BY <1>a, TilesAre DEF Tiling
  <2> QED
    BY <2>1 DEF Tiling
<1>b. PICK f : /\ new = f[l] /\ f[0] = << >>
               /\ \A k \in 1 .. l : f[k] = Joined(f[k - 1], bs[k])
  BY <1>a, <1>1, CoalescedIs
<1> DEFINE Used(k) == {u \in Blocks : ~u.is_free /\ \E i \in 1 .. k : bs[i] = u}
           Good(k) == Tiling(f[k], BlockEnd(bs[k])) /\ Loose(f[k]) /\ InUse(f[k]) = Used(k)
           S == {k \in 1 .. l : ~Good(k)}
<1>2. Good(1)
  <2>a. PICK b, c : b = bs[1] /\ c = f[1]
    OBVIOUS
  <2>1. b \in Blocks /\ b.size > 0 /\ b.addr = 0 /\ 1 \in 1 .. l
    BY <1>1, <2>a DEF Tiling
  <2>2. c = <<b>>
    <3>1. c = Joined(<< >>, b)
      BY <1>b, <2>a, <2>1
    <3> QED
      BY <3>1 DEF Joined
  <2>3. c \in Seq(Blocks) /\ Len(c) = 1 /\ c[1] = b /\ c # << >> /\ DOMAIN c = {1}
    BY <2>1, <2>2
  <2>4. Tiling(c, BlockEnd(b))
    BY <2>1, <2>3 DEF Tiling
  <2>5. Loose(c)
    BY <2>3 DEF Loose
  <2>6. InUse(c) = Used(1)
    BY <2>a, <2>3 DEF InUse
  <2> QED
    BY <2>a, <2>4, <2>5, <2>6
<1>3. ASSUME NEW k \in 2 .. l, Good(k - 1)
      PROVE  Good(k)
  <2>1. k \in 1 .. l /\ k # 1 /\ k - 1 \in 1 .. l /\ k \in Nat
    BY <1>1
  <2>2. bs[k] \in Blocks /\ bs[k].size > 0 /\ bs[k].addr = BlockEnd(bs[k - 1])
    BY <1>1, <2>1 DEF Tiling
  <2>3. f[k] = Joined(f[k - 1], bs[k])
    BY <1>b, <2>1
  <2>4. /\ Tiling(f[k], BlockEnd(bs[k])) /\ Loose(f[k])
        /\ InUse(f[k]) = InUse(f[k - 1]) \cup {x \in {bs[k]} : ~x.is_free}
    BY <1>3, <2>2, <2>3, JoinedTiles
  <2>5. Used(k) = Used(k - 1) \cup {x \in {bs[k]} : ~x.is_free}
    <3>1. \A i \in 1 .. k : i \in 1 .. k - 1 \/ i = k
      BY <2>1
    <3>2. k \in 1 .. k /\ \A i \in 1 .. k - 1 : i \in 1 .. k
      BY <2>1
    <3> QED
      BY <2>2, <3>1, <3>2
  <2> QED
    BY <1>3, <2>4, <2>5
<1>4. S = {}
  <2> SUFFICES ASSUME S # {} PROVE FALSE
    OBVIOUS
  <2>1. PICK k \in S : \A m \in S : k <= m
    <3>1. S \subseteq Nat
      OBVIOUS
    <3> HIDE DEF S
    <3> QED
      BY <3>1, SmallestOfNats
  <2>2. k \in 1 .. l /\ ~Good(k)
    OBVIOUS
  <2> HIDE DEF Good
  <2>3. k # 1
    BY <1>2, <2>2
  <2>4. k - 1 \in 1 .. l /\ k - 1 \notin S /\ k \in 2 .. l
    BY <1>1, <2>1, <2>2, <2>3
  <2> QED
    BY <1>3, <2>2, <2>4
<1>5. Good(l)
  <2>1. l \in 1 .. l
    BY <1>1
  <2> HIDE DEF Good
  <2> QED
    BY <1>4, <2>1
<1>6. InUse(bs) = Used(l)
  BY <1>1 DEF InUse
<1>7. BlockEnd(bs[l]) = e
  BY <1>a DEF Tiling
<1> QED
  BY <1>b, <1>5, <1>6, <1>7

\* A block more, and its holder.
LEMMA HoldsMore ==
  ASSUME NEW us, NEW ow, Holds(us, ow), NEW u, NEW n, u.size >= n, \A b \in us : b.addr # u.addr
  PROVE  Holds(us \cup {u}, ow \cup {<<u.addr, n>>})
<1>a. PICK q : q = <<u.addr, n>>
  OBVIOUS
<1>1. q[1] = u.addr /\ q[2] = n
  BY <1>a
<1>2. \A o \in ow : o[1] # q[1]
  BY <1>1 DEF Holds
<1> QED
  BY <1>a, <1>1, <1>2 DEF Holds

\* A holder less, and its block.
LEMMA HoldsLess ==
  ASSUME NEW us, NEW ow, Holds(us, ow), NEW o \in ow
  PROVE  Holds({b \in us : b.addr # o[1]}, ow \ {o})
BY DEF Holds

\* A holder that asked for another size of its block.
LEMMA HoldsOther ==
  ASSUME NEW us, NEW ow, Holds(us, ow), NEW o \in ow, NEW b \in us, b.addr = o[1], NEW n, b.size >= n
  PROVE  Holds(us, (ow \ {o}) \cup {<<o[1], n>>})
<1>a. PICK q : q = <<o[1], n>>
  OBVIOUS
<1>1. q[1] = o[1] /\ q[2] = n
  BY <1>a
<1> QED
  BY <1>a, <1>1 DEF Holds

\* A free block that a client gets.
LEMMA Given ==
  ASSUME HeapAssumption, NEW bs, NEW e, Tiling(bs, e), NEW i \in 1 .. Len(bs), NEW n \in Nat \ {0},
         bs[i].is_free, bs[i].size >= n, NEW ow, Holds(InUse(bs), ow)
  PROVE  /\ Tiling(Take(bs, i, n), e) /\ bs[i].addr \in Nat
         /\ Holds(InUse(Take(bs, i, n)), ow \cup {<<bs[i].addr, n>>})
<1>a. PICK new : new = Take(bs, i, n)
  OBVIOUS
<1>b. PICK u \in Blocks : /\ u.addr = bs[i].addr /\ u.size >= n /\ ~u.is_free
                          /\ InUse(new) = InUse(bs) \cup {u}
  BY <1>a, TakeTiles
<1>1. Tiling(new, e)
  BY <1>a, TakeTiles
<1>2. \A b \in InUse(bs) : b.addr # u.addr
  <2> SUFFICES ASSUME NEW b \in InUse(bs), b.addr = u.addr PROVE FALSE
    OBVIOUS
  <2>1. DOMAIN bs = 1 .. Len(bs)
    BY TilesAre
  <2>2. PICK j \in 1 .. Len(bs) : bs[j] = b /\ ~b.is_free
    BY <2>1 DEF InUse
  <2>3. i = j
    BY <1>b, <2>2, TilesApart
  <2> QED
    BY <2>2, <2>3
<1>3. bs[i].addr \in Nat
  BY TilesAre
<1>4. Holds(InUse(bs) \cup {u}, ow \cup {<<u.addr, n>>})
  BY <1>b, <1>2, HoldsMore
<1> QED
  BY <1>a, <1>b, <1>1, <1>3, <1>4

\* The heap as kmalloc_init leaves it.
LEMMA HeapInitOk ==
  ASSUME HeapAssumption, HeapInit
  PROVE  HeapInv
<1>a. PICK b : b = Blk(0, InitPages * PageUnits - Hdr, TRUE)
  OBVIOUS
<1>1. InitPages * PageUnits \in Nat /\ InitPages * PageUnits - Hdr \in Nat \ {0} /\ Hdr \in Nat
  BY PagesHold DEF HeapAssumption
<1>2. b \in Blocks /\ b.addr = 0 /\ b.size = InitPages * PageUnits - Hdr /\ b.is_free = TRUE
  BY <1>a, <1>1 DEF Blk, Blocks
<1>3. BlockEnd(b) = InitPages * PageUnits /\ b.size > 0
  BY <1>1, <1>2 DEF BlockEnd
<1>4. block = <<b>>
  BY <1>a DEF HeapInit
<1>5. block \in Seq(Blocks) /\ Len(block) = 1 /\ block[1] = b /\ block # << >> /\ DOMAIN block = {1}
  BY <1>2, <1>4
<1>6. heap_end_addr = BlockEnd(b) /\ heap_end_addr \in Nat /\ pages \in Nat /\ owned = {}
  BY <1>1, <1>3 DEF HeapInit, HeapAssumption
<1>7. Tiling(block, heap_end_addr)
  BY <1>2, <1>3, <1>5, <1>6 DEF Tiling
<1>8. InUse(block) = {}
  BY <1>2, <1>5 DEF InUse
<1> QED
  BY <1>6, <1>7, <1>8 DEF HeapInv, Holds

LEMMA FitKeeps ==
  ASSUME HeapAssumption, HeapInv, NEW n \in Sizes, KmallocFit(n)
  PROVE  HeapInv' /\ owned \subseteq owned'
<1>a. PICK i : i = FirstFit(block, n)
  OBVIOUS
<1>1. /\ n \in Nat \ {0} /\ i # 0 /\ block' = Take(block, i, n) /\ owned' = owned \cup {<<block[i].addr, n>>}
      /\ heap_end_addr' = heap_end_addr /\ pages' = pages /\ Tiling(block, heap_end_addr)
  BY <1>a DEF KmallocFit, HeapInv, HeapAssumption
<1>2. i \in 1 .. Len(block) /\ block[i].is_free /\ block[i].size >= n
  BY <1>a, <1>1, FirstFitIs
<1>3. /\ Tiling(block', heap_end_addr) /\ block[i].addr \in Nat
      /\ Holds(InUse(block'), owned')
  BY <1>1, <1>2, Given DEF HeapInv
<1>4. Tiling(block', heap_end_addr') /\ heap_end_addr' \in Nat /\ pages' \in Nat /\ owned' \subseteq Nat \X Nat
  BY <1>1, <1>3 DEF HeapInv
<1>5. InUse(block)' = InUse(block')
  BY DEF InUse
<1> QED
  BY <1>1, <1>3, <1>4 DEF HeapInv, Tiling, Holds, InUse, BlockEnd

\* The list with pages more at its end.
LEMMA ExpandedTiles ==
  ASSUME HeapAssumption, HeapInv, NEW n \in Sizes, NEW p, p = Granted(n), p # 0, NEW bs, bs = Expanded(n)
  PROVE  /\ p \in Nat \ {0} /\ heap_end_addr + p * PageUnits \in Nat
         /\ Tiling(bs, heap_end_addr + p * PageUnits) /\ Holds(InUse(bs), owned)
         /\ Len(bs) \in 1 .. Len(bs) /\ bs[Len(bs)].is_free /\ bs[Len(bs)].size = p * PageUnits - Hdr
<1>1. n \in Nat \ {0} /\ Hdr \in Nat /\ pages \in Nat /\ heap_end_addr \in Nat /\ Tiling(block, heap_end_addr)
  BY DEF HeapInv, HeapAssumption
<1>2. Wanted(n) \in Nat \ {0}
  BY <1>1, WantedHolds
<1>3. p \in Nat \ {0}
  BY <1>1, <1>2 DEF Granted
<1>4. p * PageUnits \in Nat /\ p * PageUnits - Hdr \in Nat \ {0}
  BY <1>3, PagesHold
<1>a. PICK b : b = Blk(heap_end_addr, p * PageUnits - Hdr, TRUE)
  OBVIOUS
<1>5. b \in Blocks /\ b.addr = heap_end_addr /\ b.size = p * PageUnits - Hdr /\ b.size > 0 /\ b.is_free = TRUE
  BY <1>a, <1>1, <1>4 DEF Blk, Blocks
<1>6. BlockEnd(b) = heap_end_addr + p * PageUnits
  <2>1. \A a, h, q \in Nat : a + h + (q - h) = a + q
    OBVIOUS
  <2> QED
    BY <1>1, <1>4, <1>5, <2>1 DEF BlockEnd
<1>7. bs = Append(block, b)
  BY <1>a DEF Expanded
<1>8. /\ Tiling(bs, BlockEnd(b)) /\ Len(bs) = Len(block) + 1 /\ bs[Len(block) + 1] = b
      /\ \A i \in 1 .. Len(block) : bs[i] = block[i]
      /\ InUse(bs) = InUse(block) \cup {x \in {b} : ~x.is_free}
  <2>1. Tiling(block, heap_end_addr) /\ b \in Blocks /\ b.size > 0 /\ b.addr = heap_end_addr
    BY <1>1, <1>5
  <2> QED
    BY <1>7, <2>1, TilesAppend
<1>9. InUse(bs) = InUse(block)
  BY <1>5, <1>8
<1>10. Len(block) \in Nat \ {0}
  BY <1>1, TilesAre
<1>11. Len(bs) \in 1 .. Len(bs) /\ bs[Len(bs)] = b
  BY <1>8, <1>10
<1>12. Tiling(bs, heap_end_addr + p * PageUnits)
  BY <1>6, <1>8
<1>13. Holds(InUse(bs), owned)
  BY <1>9 DEF HeapInv
<1>14. heap_end_addr + p * PageUnits \in Nat
  BY <1>1, <1>4
<1>15. bs[Len(bs)].is_free /\ bs[Len(bs)].size = p * PageUnits - Hdr
  BY <1>5, <1>11
<1> QED
  BY <1>3, <1>11, <1>12, <1>13, <1>14, <1>15

LEMMA ExpandKeeps ==
  ASSUME HeapAssumption, HeapInv, NEW n \in Sizes, KmallocExpand(n)
  PROVE  HeapInv' /\ owned \subseteq owned'
<1>a. PICK bs, p, e : bs = Expanded(n) /\ p = Granted(n) /\ e = heap_end_addr + p * PageUnits
  OBVIOUS
<1>b. PICK i : i = FirstFit(bs, n)
  OBVIOUS
<1>1. n \in Nat \ {0} /\ pages \in Nat /\ Wanted(n) \in Nat \ {0} /\ Wanted(n) * PageUnits - Hdr >= n
  BY WantedHolds DEF HeapInv, HeapAssumption
<1>2. p = Wanted(n) /\ pages - p \in Nat
  BY <1>a, <1>1 DEF KmallocExpand, Granted
<1>3. /\ block' = Take(bs, i, n) /\ owned' = owned \cup {<<bs[i].addr, n>>}
      /\ heap_end_addr' = e /\ pages' = pages - p
  BY <1>a, <1>b, <1>2 DEF KmallocExpand
<1>4. /\ e \in Nat /\ Tiling(bs, e) /\ Holds(InUse(bs), owned)
      /\ Len(bs) \in 1 .. Len(bs) /\ bs[Len(bs)].is_free /\ bs[Len(bs)].size >= n
  BY <1>a, <1>1, <1>2, ExpandedTiles
<1>5. i \in 1 .. Len(bs) /\ bs[i].is_free /\ bs[i].size >= n
  BY <1>b, <1>4, FirstFitIs
<1>6. Tiling(block', e) /\ bs[i].addr \in Nat /\ Holds(InUse(block'), owned')
  BY <1>1, <1>3, <1>4, <1>5, Given
<1>7. owned' \subseteq Nat \X Nat
  BY <1>1, <1>3, <1>6 DEF HeapInv
<1> QED
  BY <1>2, <1>3, <1>4, <1>6, <1>7 DEF HeapInv, Tiling, Holds, InUse, BlockEnd

LEMMA NullKeeps ==
  ASSUME HeapAssumption, HeapInv, NEW n \in Sizes, KmallocNull(n)
  PROVE  HeapInv' /\ owned' = owned
<1>1. n \in Nat \ {0} /\ pages \in Nat /\ Wanted(n) \in Nat \ {0} /\ pages < Wanted(n)
  BY WantedHolds DEF HeapInv, HeapAssumption, KmallocNull
<1>2. owned' = owned /\ pages' = 0 /\ heap_end_addr' = heap_end_addr + pages * PageUnits
  BY DEF KmallocNull
<1>3. CASE pages = 0
  <2>1. pages * PageUnits = 0
    BY <1>3 DEF HeapAssumption
  <2>2. block' = block /\ heap_end_addr' = heap_end_addr
    BY <1>2, <1>3, <2>1 DEF KmallocNull, HeapInv
  <2> QED
    BY <1>2, <2>2 DEF HeapInv, Tiling, Holds, InUse, BlockEnd
<1>4. CASE pages # 0
  <2>1. pages = Granted(n)
    BY <1>1 DEF Granted
  <2>2. block' = Expanded(n)
    BY <1>4 DEF KmallocNull
  <2>3. heap_end_addr' \in Nat /\ Tiling(block', heap_end_addr') /\ Holds(InUse(block'), owned)
    BY <1>2, <1>4, <2>1, <2>2, ExpandedTiles
  <2> QED
    BY <1>2, <2>3 DEF HeapInv, Tiling, Holds, InUse, BlockEnd
<1> QED
  BY <1>3, <1>4

LEMMA FreeKeeps ==
  ASSUME HeapAssumption, HeapInv, NEW o \in owned, KfreeBlock(o)
  PROVE  HeapInv' /\ Loose(block')
<1>a. PICK bs, e : bs = Freed(o[1]) /\ e = heap_end_addr
  OBVIOUS
<1>1. /\ block' = Coalesced(bs) /\ owned' = owned \ {o} /\ heap_end_addr' = e /\ pages' = pages
      /\ Tiling(block, e) /\ e \in Nat /\ Holds(InUse(block), owned)
  BY <1>a DEF KfreeBlock, HeapInv
<1>2. Tiling(bs, e) /\ InUse(bs) = {b \in InUse(block) : b.addr # o[1]}
  BY <1>a, <1>1, FreedTiles
<1>3. Tiling(block', e) /\ Loose(block') /\ InUse(block') = InUse(bs)
  BY <1>1, <1>2, CoalescedTiles
<1>4. Holds(InUse(block'), owned')
  <2>1. Holds({b \in InUse(block) : b.addr # o[1]}, owned \ {o})
    BY <1>1, HoldsLess
  <2> QED
    BY <1>1, <1>2, <1>3, <2>1
<1> QED
  BY <1>1, <1>3, <1>4 DEF HeapInv, Tiling, Holds, InUse, BlockEnd

LEMMA InPlaceKeeps ==
  ASSUME HeapAssumption, HeapInv, NEW o \in owned, NEW n \in Sizes, ReallocInPlace(o, n)
  PROVE  HeapInv' /\ block' = block
<1>1. /\ owned' = (owned \ {o}) \cup {<<o[1], n>>} /\ block' = block /\ heap_end_addr' = heap_end_addr
      /\ pages' = pages /\ BlockAt(o[1]).size >= n /\ n \in Nat /\ o[1] \in Nat
  BY DEF ReallocInPlace, HeapInv, HeapAssumption
<1>2. PICK b \in InUse(block) : b.addr = o[1]
  BY DEF HeapInv, Holds
<1>3. DOMAIN block = 1 .. Len(block)
  BY TilesAre DEF HeapInv
<1>4. PICK i \in 1 .. Len(block) : block[i] = b
  BY <1>2, <1>3 DEF InUse
<1>a. PICK c : c = BlockAt(o[1])
  OBVIOUS
<1>5. c = b
  <2>1. b \in ToSet(block)
    BY <1>3, <1>4 DEF ToSet
  <2>2. c \in ToSet(block) /\ c.addr = o[1]
    BY <1>2, <1>a, <2>1 DEF BlockAt
  <2>3. PICK j \in 1 .. Len(block) : block[j] = c
    BY <1>3, <2>2 DEF ToSet
  <2>4. i = j
    BY <1>2, <1>4, <2>2, <2>3, TilesApart DEF HeapInv
  <2> QED
    BY <1>4, <2>3, <2>4
<1>6. Holds(InUse(block), owned')
  BY <1>1, <1>2, <1>5, <1>a, HoldsOther DEF HeapInv
<1>7. owned' \subseteq Nat \X Nat
  BY <1>1 DEF HeapInv
<1> QED
  BY <1>1, <1>6, <1>7 DEF HeapInv, Tiling, Holds, InUse, BlockEnd

\* After a step that takes a block from its holder no free neighbours are left.
FreesAll == owned \ owned' # {} /\ block' # block => Loose(block')

LEMMA HeapStepKeeps ==
  ASSUME HeapAssumption, HeapInv, [HeapNext]_heapVars
  PROVE  HeapInv' /\ FreesAll
<1>1. CASE UNCHANGED heapVars
  BY <1>1 DEF heapVars, HeapInv, Tiling, Holds, InUse, BlockEnd, FreesAll
<1>2. ASSUME NEW n \in Sizes, Kmalloc(n)
      PROVE  HeapInv' /\ FreesAll
  BY <1>2, FitKeeps, ExpandKeeps, NullKeeps DEF Kmalloc, FreesAll
<1>3. ASSUME NEW o \in owned, Kfree(o)
      PROVE  HeapInv' /\ FreesAll
  BY <1>3, FreeKeeps DEF Kfree, FreesAll
<1>4. ASSUME NEW o \in owned, NEW n \in Sizes, ReallocInPlace(o, n)
      PROVE  HeapInv' /\ FreesAll
  BY <1>4, InPlaceKeeps DEF FreesAll
<1>5. ASSUME NEW o \in owned, NEW n \in Sizes, ReallocNew(o, n)
      PROVE  HeapInv' /\ FreesAll
  <2>1. KmallocFit(n) \/ KmallocExpand(n) \/ KmallocNull(n)
    BY <1>5 DEF ReallocNew
  <2> QED
    BY <2>1, FitKeeps, ExpandKeeps, NullKeeps DEF FreesAll
<1>6. ASSUME NEW m \in moving, ReallocFree(m)
      PROVE  HeapInv' /\ FreesAll
  BY <1>6, FreeKeeps DEF ReallocFree, FreesAll
<1>7. CASE PoolChange
  <2>1. pages' \in Nat /\ UNCHANGED <<block, heap_end_addr, owned>>
    <3>1. MaxPages - heap_end_addr \div PageUnits \in Int
      <4>1. PageUnits \in Nat \ {0} /\ heap_end_addr \in Nat /\ MaxPages \in Nat
        BY DEF HeapAssumption, HeapInv
      <4> QED
        BY <4>1
    <3> QED
      BY <1>7, <3>1 DEF PoolChange
  <2> QED
    BY <2>1 DEF HeapInv, Tiling, Holds, InUse, BlockEnd, FreesAll
<1> QED
  BY <1>1, <1>2, <1>3, <1>4, <1>5, <1>6, <1>7 DEF HeapNext

\* What kmalloc, kfree and kern_realloc keep of the heap at every step.
THEOREM HeapInvariant == HeapSpec => []HeapInv
<1>1. HeapInit => HeapInv
  BY HeapInitOk, HeapAssumption
<1>2. HeapInv /\ [HeapNext]_heapVars => HeapInv'
  BY HeapStepKeeps, HeapAssumption
<1> QED
  BY <1>1, <1>2, PTL DEF HeapSpec

\* The blocks of the heap lie end to end over splits, joins and expansions that
\* run out of memory, and what clients hold is what is in use: for every size of
\* header and page, any sizes asked for, and reallocations interleaved with
\* other calls.
THEOREM HeapKept == HeapSpec => []HeapIntact
<1>1. HeapInv => HeapIntact
  <2> SUFFICES ASSUME HeapInv PROVE HeapIntact
    OBVIOUS
  <2>1. /\ Tiling(block, heap_end_addr) /\ Holds(InUse(block), owned) /\ DOMAIN block = 1 .. Len(block)
        /\ \A i \in 1 .. Len(block) : block[i] \in Blocks
    BY HeapAssumption, TilesAre DEF HeapInv
  <2>2. HeapTiles
    <3> SUFFICES ASSUME NEW i \in DOMAIN block
                 PROVE  /\ block[i].size > 0
                        /\ block[i].addr = (IF i = 1 THEN 0 ELSE block[i - 1].addr + Hdr + block[i - 1].size)
                        /\ i = Len(block) => block[i].addr + Hdr + block[i].size = heap_end_addr
      BY DEF HeapTiles
    <3> QED
      BY <2>1 DEF Tiling, BlockEnd
  <2>3. \A b : b \in InUse(block) <=> b \in ToSet(block) /\ ~b.is_free
    BY <2>1 DEF InUse, ToSet
  <2>4. OwnedIntact
    BY <2>1, <2>3 DEF OwnedIntact, Holds
  <2> QED
    BY <2>2, <2>4 DEF HeapIntact
<1> QED
  BY <1>1, HeapInvariant, PTL

\* After every kfree that changes the list, no two free blocks are neighbours.
THEOREM FreeNeighboursJoined == HeapSpec => KfreeCoalesces
<1>1. HeapInv /\ [HeapNext]_heapVars =>
        [(owned \ owned' # {} /\ block' # block) =>
            \A i \in 1 .. Len(block') - 1 : ~(block'[i].is_free /\ block'[i + 1].is_free)]_heapVars
  BY HeapStepKeeps, HeapAssumption DEF FreesAll, Loose
<1> QED
  BY <1>1, HeapInvariant, PTL DEF HeapSpec, KfreeCoalesces

------------------------------------------------------------------------------
(* Shared memory                                                            *)

\* A registry as the types have it, an entry of a handle table, and the handles
\* on a region.
Regions == [id : Ids, base : Page, count : PageCounts, ref : Nat]
Slots == [id : Nat, base : Nat, count : Nat]
Uses(tab, p, h, id) == h \in 1 .. Len(tab[p]) /\ tab[p][h] # None /\ tab[p][h].id = id
On(tab, id) == {x \in Proc \X (1 .. MaxCap) : Uses(tab, x[1], x[2], id)}

\* The registry reg and the tables tab agree.
RegInv(reg) ==
  /\ reg \in Seq(Regions)
  /\ \A i, j \in 1 .. Len(reg) : reg[i].id = reg[j].id => i = j
TabInv(tab) ==
  /\ tab \in [Proc -> Seq(Slots)]
  /\ \A p \in Proc : Len(tab[p]) <= MaxCap
Leads(reg, s) == \E i \in 1 .. Len(reg) : reg[i].id = s.id /\ reg[i].base = s.base /\ reg[i].count = s.count
RefInv(reg, tab) ==
  /\ RegInv(reg) /\ TabInv(tab)
  /\ \A i \in 1 .. Len(reg) : reg[i].ref = Cardinality(On(tab, reg[i].id))
  /\ \A p \in Proc : \A h \in 1 .. Len(tab[p]) : tab[p][h] # None => Leads(reg, tab[p][h])
\* Each page has one owner.
PageInv(reg, fr, ot) ==
  /\ fr \subseteq Page /\ ot \subseteq Page /\ fr \cap ot = {}
  /\ \A i \in 1 .. Len(reg) : reg[i].base \notin fr \cup ot
  /\ \A i, j \in 1 .. Len(reg) : reg[i].base = reg[j].base => i = j
ShmInv ==
  /\ RefInv(region, table)
  /\ region_c \in Nat /\ \A i \in 1 .. Len(region) : region[i].id <= region_c
  /\ region_c < IdSpace => g_next_shm_id = region_c + 1
  /\ g_next_shm_id \in Ids
  /\ free \subseteq Page /\ other \subseteq Page

LEMMA RegAre ==
  ASSUME ShmemAssumption, NEW reg, RegInv(reg)
  PROVE  /\ reg \in Seq(Regions) /\ Len(reg) \in Nat /\ DOMAIN reg = 1 .. Len(reg)
         /\ \A i \in 1 .. Len(reg) : /\ reg[i] \in Regions
                                     /\ reg[i].id \in Nat \ {0} /\ reg[i].base \in Nat \ {0}
                                     /\ reg[i].base \in Page /\ reg[i].count \in PageCounts
                                     /\ reg[i].count \in Nat \ {0} /\ reg[i].ref \in Nat
<1>1. reg \in Seq(Regions) /\ Len(reg) \in Nat /\ DOMAIN reg = 1 .. Len(reg)
  BY DEF RegInv
<1>2. ASSUME NEW i \in 1 .. Len(reg)
      PROVE  /\ reg[i] \in Regions
             /\ reg[i].id \in Nat \ {0} /\ reg[i].base \in Nat \ {0}
             /\ reg[i].base \in Page /\ reg[i].count \in PageCounts
             /\ reg[i].count \in Nat \ {0} /\ reg[i].ref \in Nat
  <2>1. reg[i] \in Regions
    BY <1>1, ElementOfSeq
  <2>2. reg[i].id \in Ids /\ reg[i].base \in Page /\ reg[i].count \in PageCounts /\ reg[i].ref \in Nat
    BY <2>1 DEF Regions
  <2>3. Ids \subseteq Nat \ {0} /\ Page \subseteq Nat \ {0} /\ PageCounts \subseteq Nat \ {0}
    BY DEF Ids, ShmemAssumption
  <2> QED
    BY <2>1, <2>2, <2>3, Zenon
<1> QED
  BY <1>1, <1>2

\* shmem_find_global finds the region with an id.
LEMMA FindIs ==
  ASSUME ShmemAssumption, NEW reg, RegInv(reg), NEW id, NEW k, k = Find(reg, id)
  PROVE  /\ k # 0 => k \in 1 .. Len(reg) /\ reg[k].id = id
         /\ k = 0 => \A i \in 1 .. Len(reg) : reg[i].id # id
         /\ \A i \in 1 .. Len(reg) : reg[i].id = id => k = i
<1> DEFINE I == {i \in 1 .. Len(reg) : reg[i].id = id}
<1>1. DOMAIN reg = 1 .. Len(reg) /\ Len(reg) \in Nat
  BY RegAre
<1>2. k = IF I = {} THEN 0 ELSE Min(I)
  BY <1>1 DEF Find
<1>3. CASE I = {}
  BY <1>2, <1>3
<1>4. CASE I # {}
  <2>1. I \subseteq Nat
    OBVIOUS
  <2>2. \E x \in I : \A y \in I : x <= y
    <3> HIDE DEF I
    <3> QED
      BY <1>4, <2>1, SmallestOfNats
  <2>3. k \in I
    <3> HIDE DEF I
    <3> QED
      BY <1>2, <1>4, <2>2 DEF Min
  <2>4. k \in 1 .. Len(reg) /\ reg[k].id = id /\ k # 0
    BY <2>3
  <2> QED
    BY <2>4 DEF RegInv
<1> QED
  BY <1>3, <1>4

\* There are finitely many handles.
LEMMA OnFinite ==
  ASSUME ShmemAssumption, IsFiniteSet(Proc), NEW tab, NEW id
  PROVE  IsFiniteSet(On(tab, id)) /\ Cardinality(On(tab, id)) \in Nat
<1>1. IsFiniteSet(1 .. MaxCap)
  BY FS_Interval DEF ShmemAssumption
<1>2. IsFiniteSet(Proc \X (1 .. MaxCap))
  BY <1>1, FS_Product
<1>3. IsFiniteSet(On(tab, id))
  BY <1>2, FS_Subset DEF On
<1> QED
  BY <1>3, FS_CardinalityType

\* One sequence less an element.
Without(s, i) == SubSeq(s, 1, i - 1) \o SubSeq(s, i + 1, Len(s))
IsWithout(new, T, s, i) ==
  /\ new \in Seq(T) /\ Len(new) = Len(s) - 1
  /\ \A j \in 1 .. Len(s) - 1 : new[j] = IF j < i THEN s[j] ELSE s[j + 1]
LEMMA WithoutIs ==
  ASSUME NEW T, NEW s \in Seq(T), NEW i \in 1 .. Len(s)
  PROVE  IsWithout(Without(s, i), T, s, i)
<1>a. PICK n, p, q, new : n = Len(s) /\ p = SubSeq(s, 1, i - 1) /\ q = SubSeq(s, i + 1, n) /\ new = Without(s, i)
  OBVIOUS
<1>1. n \in Nat /\ i \in 1 .. n
  BY <1>a
<1>2. p \in Seq(T) /\ Len(p) = i - 1 /\ \A j \in 1 .. i - 1 : p[j] = s[j]
  BY <1>1, <1>a
<1>3. q \in Seq(T) /\ Len(q) = n - i /\ \A j \in 1 .. n - i : q[j] = s[i + j]
  BY <1>1, <1>a
<1>4. /\ p \o q \in Seq(T) /\ Len(p \o q) = Len(p) + Len(q)
      /\ \A j \in 1 .. Len(p) + Len(q) : (p \o q)[j] = IF j <= Len(p) THEN p[j] ELSE q[j - Len(p)]
  BY <1>2, <1>3, ConcatProperties, Zenon
<1>5. new = p \o q
  BY <1>a DEF Without
<1>6. /\ new \in Seq(T) /\ Len(new) = Len(p) + Len(q)
      /\ \A j \in 1 .. Len(p) + Len(q) : new[j] = IF j <= Len(p) THEN p[j] ELSE q[j - Len(p)]
  BY <1>4, <1>5, Zenon
<1>7. Len(p) + Len(q) = n - 1
  BY <1>1, <1>2, <1>3
<1>8. ASSUME NEW j \in 1 .. n - 1
      PROVE  new[j] = IF j < i THEN s[j] ELSE s[j + 1]
  <2>1. new[j] = IF j <= i - 1 THEN p[j] ELSE q[j - (i - 1)]
    BY <1>2, <1>6, <1>7
  <2>2. CASE j < i
    <3>1. j <= i - 1 /\ j \in 1 .. i - 1
      BY <1>1, <2>2
    <3> QED
      BY <1>2, <2>1, <2>2, <3>1
  <2>3. CASE ~(j < i)
    <3>1. ~(j <= i - 1) /\ j - (i - 1) \in 1 .. n - i /\ i + (j - (i - 1)) = j + 1
      BY <1>1, <2>3
    <3>2. q[j - (i - 1)] = s[j + 1]
      BY <1>3, <3>1
    <3> QED
      BY <2>1, <2>3, <3>1, <3>2
  <2> QED
    BY <2>2, <2>3
<1> QED
  BY <1>a, <1>6, <1>7, <1>8 DEF IsWithout

\* A handle less.
IsLess(new, tab, p, h) ==
  /\ TabInv(new)
  /\ \A q \in Proc : Len(new[q]) = Len(tab[q])
  /\ \A q \in Proc : \A k \in 1 .. Len(tab[q]) :
       new[q][k] # None => tab[q][k] = new[q][k] /\ <<q, k>> # <<p, h>>
  /\ \A id : id # tab[p][h].id => On(new, id) = On(tab, id)
  /\ Cardinality(On(tab, tab[p][h].id)) = Cardinality(On(new, tab[p][h].id)) + 1
LEMMA TableLess ==
  ASSUME ShmemAssumption, IsFiniteSet(Proc), NEW tab, TabInv(tab), NEW p \in Proc, NEW h \in 1 .. Len(tab[p]),
         tab[p][h] # None, NEW new, new = [tab EXCEPT ![p][h] = None]
  PROVE  IsLess(new, tab, p, h)
<1>1. /\ \A q \in Proc : tab[q] \in Seq(Slots) /\ Len(tab[q]) \in Nat /\ Len(tab[q]) <= MaxCap
      /\ tab \in [Proc -> Seq(Slots)] /\ MaxCap \in Nat /\ h \in Nat /\ h >= 1
  BY DEF TabInv, ShmemAssumption
<1>a. PICK t, n : t = tab[p] /\ n = [t EXCEPT ![h] = None]
  OBVIOUS
<1>2. /\ t \in Seq(Slots) /\ Len(t) \in Nat /\ h \in 1 .. Len(t)
      /\ n \in Seq(Slots) /\ Len(n) = Len(t) /\ n[h] = None /\ \A k \in 1 .. Len(t) : k # h => n[k] = t[k]
  <2>1. None \in Slots
    BY DEF None, Slots
  <2> QED
    BY <1>1, <1>a, <2>1
<1>3. new = [tab EXCEPT ![p] = n]
  BY <1>1, <1>a
<1>4. new \in [Proc -> Seq(Slots)] /\ new[p] = n /\ \A q \in Proc : q # p => new[q] = tab[q]
  BY <1>1, <1>2, <1>3
<1>5. \A q \in Proc : Len(new[q]) = Len(tab[q])
  BY <1>a, <1>2, <1>4
<1>6. ASSUME NEW q \in Proc, NEW k \in 1 .. Len(tab[q])
      PROVE  IF q = p /\ k = h THEN new[q][k] = None ELSE new[q][k] = tab[q][k]
  BY <1>a, <1>2, <1>4
<1>7. ASSUME NEW id, NEW x \in Proc \X (1 .. MaxCap)
      PROVE  Uses(new, x[1], x[2], id) <=> Uses(tab, x[1], x[2], id) /\ x # <<p, h>>
  <2>a. PICK q, k : q \in Proc /\ k \in 1 .. MaxCap /\ x = <<q, k>> /\ q = x[1] /\ k = x[2]
    OBVIOUS
  <2>1. x = <<p, h>> <=> q = p /\ k = h
    BY <2>a
  <2>2. CASE k \in 1 .. Len(tab[q])
    <3>1. k \in 1 .. Len(new[q])
      BY <2>2, <2>a, <1>5
    <3> QED
      BY <2>a, <2>1, <2>2, <3>1, <1>6 DEF Uses
  <2>3. CASE k \notin 1 .. Len(tab[q])
    <3>1. k \notin 1 .. Len(new[q])
      BY <2>3, <2>a, <1>5
    <3> QED
      BY <2>a, <2>3, <3>1 DEF Uses
  <2> QED
    BY <2>2, <2>3
<1>8. \A id : On(new, id) = On(tab, id) \ {<<p, h>>}
  BY <1>7 DEF On
<1>9. \A id : <<p, h>> \in On(tab, id) <=> id = tab[p][h].id
  <2>1. <<p, h>> \in Proc \X (1 .. MaxCap) /\ <<p, h>>[1] = p /\ <<p, h>>[2] = h
    BY <1>1
  <2> QED
    BY <2>1 DEF On, Uses
<1>10. \A id : id # tab[p][h].id => On(new, id) = On(tab, id)
  BY <1>8, <1>9
<1>11. Cardinality(On(tab, tab[p][h].id)) = Cardinality(On(new, tab[p][h].id)) + 1
  <2>a. PICK S, x : S = On(tab, tab[p][h].id) /\ x = <<p, h>>
    OBVIOUS
  <2>1. IsFiniteSet(S) /\ x \in S /\ Cardinality(S) \in Nat /\ Cardinality(S \ {x}) = Cardinality(S) - 1
    <3>1. IsFiniteSet(S) /\ x \in S /\ Cardinality(S) \in Nat
      BY <1>9, <2>a, OnFinite
    <3> QED
      BY <3>1, FS_RemoveElement
  <2>2. On(new, tab[p][h].id) = S \ {x}
    BY <1>8, <2>a
  <2>3. Cardinality(S) = Cardinality(S \ {x}) + 1
    BY <2>1
  <2> QED
    BY <2>2, <2>3, <2>a
<1>12. TabInv(new)
  BY <1>1, <1>4, <1>5 DEF TabInv
<1> QED
  BY <1>5, <1>6, <1>10, <1>11, <1>12 DEF IsLess

\* The regions of new are regions of reg, up to their counts.
Kept(new, reg) ==
  \A j \in 1 .. Len(new) : \E i \in 1 .. Len(reg) :
    new[j].id = reg[i].id /\ new[j].base = reg[i].base /\ new[j].count = reg[i].count

\* What pgs is if the regions new are what was left of reg.
Returned(pgs, new, reg) ==
  \/ pgs = {}
  \/ \E i \in 1 .. Len(reg) : pgs = PagesOf(reg[i]) /\ \A j \in 1 .. Len(new) : new[j].id # reg[i].id
IsDropped(d, reg, tab) == RefInv(d.reg, tab) /\ Kept(d.reg, reg) /\ Returned(d.pages, d.reg, reg)

\* shmem_detach_proc keeps the counts.
LEMMA DropKeeps ==
  ASSUME ShmemAssumption, IsFiniteSet(Proc), NEW reg, NEW tab, RefInv(reg, tab), NEW p \in Proc,
         NEW h \in 1 .. Len(tab[p]), tab[p][h] # None, NEW new, new = [tab EXCEPT ![p][h] = None],
         NEW d, d = Dropped(reg, tab[p][h].id)
  PROVE  IsDropped(d, reg, new)
<1>a. PICK id, n : id = tab[p][h].id /\ n = Len(reg)
  OBVIOUS
<1>b. PICK i : i = Find(reg, id)
  OBVIOUS
<1>1. RegInv(reg) /\ TabInv(tab)
  BY DEF RefInv
<1>2. /\ reg \in Seq(Regions) /\ n \in Nat /\ DOMAIN reg = 1 .. n
      /\ \A k \in 1 .. n : reg[k] \in Regions /\ reg[k].ref \in Nat
      /\ \A k, j \in 1 .. n : reg[k].id = reg[j].id => k = j
  BY <1>1, <1>a, RegAre DEF RegInv
<1>3. i \in 1 .. n /\ i # 0 /\ reg[i].id = id
  <2>1. PICK m \in 1 .. n : reg[m].id = id
    BY <1>a DEF RefInv, Leads
  <2>2. i = m
    BY <1>1, <1>a, <1>b, <2>1, FindIs
  <2> QED
    BY <1>2, <2>1, <2>2
<1>4. /\ TabInv(new)
      /\ \A q \in Proc : Len(new[q]) = Len(tab[q])
      /\ \A q \in Proc : \A k \in 1 .. Len(tab[q]) :
           new[q][k] # None => tab[q][k] = new[q][k] /\ <<q, k>> # <<p, h>>
      /\ \A jd : jd # id => On(new, jd) = On(tab, jd)
      /\ Cardinality(On(tab, id)) = Cardinality(On(new, id)) + 1
  <2>1. IsLess(new, tab, p, h)
    BY <1>1, TableLess
  <2> QED
    BY <1>a, <2>1 DEF IsLess
<1>5. /\ \A k \in 1 .. n : reg[k].ref = Cardinality(On(tab, reg[k].id))
      /\ \A q \in Proc : \A k \in 1 .. Len(new[q]) : new[q][k] # None => Leads(reg, new[q][k])
  BY <1>4, <1>a DEF RefInv
<1>6. Cardinality(On(new, id)) \in Nat /\ reg[i].ref = Cardinality(On(new, id)) + 1 /\ IsFiniteSet(On(new, id))
  BY <1>3, <1>4, <1>5, OnFinite
<1>7. CASE reg[i].ref <= 1
  <2>a. PICK r : r = Without(reg, i)
    OBVIOUS
  <2>1. d.reg = r /\ d.pages = PagesOf(reg[i])
    BY <1>3, <1>7, <1>a, <1>b, <2>a DEF Dropped, Without
  <2>2. IsWithout(r, Regions, reg, i)
    BY <1>2, <1>3, <1>a, <2>a, WithoutIs
  <2>3. r \in Seq(Regions) /\ Len(r) = n - 1 /\ \A j \in 1 .. n - 1 : r[j] = IF j < i THEN reg[j] ELSE reg[j + 1]
    BY <1>a, <2>2 DEF IsWithout
  <2>4. \A j \in 1 .. n - 1 : \E k \in 1 .. n : k # i /\ r[j] = reg[k] /\ ((j < i /\ k = j) \/ (~(j < i) /\ k = j + 1))
    <3> SUFFICES ASSUME NEW j \in 1 .. n - 1
                 PROVE  \E k \in 1 .. n : k # i /\ r[j] = reg[k] /\ ((j < i /\ k = j) \/ (~(j < i) /\ k = j + 1))
      OBVIOUS
    <3>1. CASE j < i
      <4>1. j \in 1 .. n /\ j # i
        BY <1>2, <1>3, <3>1
      <4>2. r[j] = reg[j]
        BY <2>3, <3>1
      <4> QED
        BY <3>1, <4>1, <4>2
    <3>2. CASE ~(j < i)
      <4>1. j + 1 \in 1 .. n /\ j + 1 # i
        BY <1>2, <1>3, <3>2
      <4> QED
        BY <2>3, <3>2, <4>1
    <3> QED
      BY <3>1, <3>2
  <2>5. \A k \in 1 .. n : k # i => \E j \in 1 .. n - 1 : r[j] = reg[k]
    <3> SUFFICES ASSUME NEW k \in 1 .. n, k # i PROVE \E j \in 1 .. n - 1 : r[j] = reg[k]
      OBVIOUS
    <3>1. CASE k < i
      <4>1. k \in 1 .. n - 1
        BY <1>2, <1>3, <3>1
      <4> QED
        BY <2>3, <3>1, <4>1
    <3>2. CASE k > i
      <4>1. PICK m : m = k - 1
        OBVIOUS
      <4>2. m \in 1 .. n - 1 /\ ~(m < i) /\ m + 1 = k
        BY <1>2, <1>3, <3>2, <4>1
      <4>3. r[m] = reg[m + 1]
        BY <2>3, <4>2
      <4> QED
        BY <4>2, <4>3
    <3> QED
      BY <1>3, <3>1, <3>2
  <2>6. On(new, id) = {}
    <3>1. Cardinality(On(new, id)) = 0
      BY <1>6, <1>7
    <3> QED
      BY <1>6, <3>1, FS_EmptySet
  <2>7. RegInv(r)
    <3> SUFFICES ASSUME NEW j \in 1 .. n - 1, NEW k \in 1 .. n - 1, r[j].id = r[k].id PROVE j = k
      BY <2>3 DEF RegInv
    <3>1. PICK v \in 1 .. n : v # i /\ r[j] = reg[v] /\ ((j < i /\ v = j) \/ (~(j < i) /\ v = j + 1))
      BY <2>4
    <3>2. PICK w \in 1 .. n : w # i /\ r[k] = reg[w] /\ ((k < i /\ w = k) \/ (~(k < i) /\ w = k + 1))
      BY <2>4
    <3>3. v = w
      BY <1>2, <3>1, <3>2
    <3> QED
      BY <1>2, <1>3, <3>1, <3>2, <3>3
  <2>8. ASSUME NEW j \in 1 .. n - 1
        PROVE  r[j].ref = Cardinality(On(new, r[j].id)) /\ r[j].id # id
    <3>1. PICK k \in 1 .. n : k # i /\ r[j] = reg[k]
      BY <2>4
    <3>2. r[j].id # id
      BY <1>2, <1>3, <3>1
    <3>3. On(new, r[j].id) = On(tab, r[j].id)
      BY <1>4, <3>2
    <3>4. r[j].ref = Cardinality(On(tab, r[j].id))
      BY <1>5, <3>1
    <3> QED
      BY <3>2, <3>3, <3>4
  <2>9. ASSUME NEW q \in Proc, NEW k \in 1 .. Len(new[q]), new[q][k] # None
        PROVE  Leads(r, new[q][k])
    <3>1. PICK m \in 1 .. n : /\ reg[m].id = new[q][k].id /\ reg[m].base = new[q][k].base
                              /\ reg[m].count = new[q][k].count
      BY <1>5, <1>a, <2>9 DEF Leads
    <3>2. m # i
      <4> SUFFICES ASSUME new[q][k].id = id PROVE FALSE
        BY <1>3, <3>1
      <4>1. k \in 1 .. MaxCap
        <5>1. Len(new[q]) \in Nat /\ Len(new[q]) <= MaxCap /\ MaxCap \in Nat
          BY <1>4 DEF TabInv, ShmemAssumption
        <5> QED
          BY <5>1
      <4>2. <<q, k>> \in Proc \X (1 .. MaxCap) /\ <<q, k>>[1] = q /\ <<q, k>>[2] = k
        BY <4>1
      <4>3. <<q, k>> \in On(new, id)
        BY <2>9, <4>2 DEF On, Uses
      <4> QED
        BY <2>6, <4>3
    <3>3. PICK j \in 1 .. n - 1 : r[j] = reg[m]
      BY <2>5, <3>2
    <3> QED
      BY <2>3, <3>1, <3>3 DEF Leads
  <2>10. RefInv(r, new)
    BY <1>4, <2>3, <2>7, <2>8, <2>9 DEF RefInv
  <2>11. Kept(r, reg)
    BY <1>a, <2>3, <2>4 DEF Kept
  <2>12. Returned(d.pages, d.reg, reg)
    BY <1>a, <1>3, <2>1, <2>3, <2>8 DEF Returned
  <2> QED
    BY <2>1, <2>10, <2>11, <2>12 DEF IsDropped
<1>8. CASE ~(reg[i].ref <= 1)
  <2>a. PICK x, r : x = [reg[i] EXCEPT !.ref = @ - 1] /\ r = [reg EXCEPT ![i] = x]
    OBVIOUS
  <2>1. d.reg = r /\ d.pages = {}
    BY <1>3, <1>8, <1>a, <1>b, <2>a DEF Dropped
  <2>2. /\ x \in Regions /\ x.id = reg[i].id /\ x.base = reg[i].base /\ x.count = reg[i].count
        /\ x.ref = Cardinality(On(new, id))
    <3>1. reg[i] \in Regions /\ reg[i].ref - 1 = Cardinality(On(new, id)) /\ reg[i].ref - 1 \in Nat
      BY <1>2, <1>3, <1>6
    <3> QED
      BY <2>a, <3>1 DEF Regions
  <2>3. r \in Seq(Regions) /\ Len(r) = n /\ r[i] = x /\ \A j \in 1 .. n : j # i => r[j] = reg[j]
    BY <1>2, <1>3, <1>a, <2>2, <2>a
  <2>4. \A j \in 1 .. n : r[j].id = reg[j].id /\ r[j].base = reg[j].base /\ r[j].count = reg[j].count
    BY <2>2, <2>3
  <2>5. RegInv(r)
    BY <1>2, <2>3, <2>4 DEF RegInv
  <2>6. \A j \in 1 .. n : r[j].ref = Cardinality(On(new, r[j].id))
    <3> SUFFICES ASSUME NEW j \in 1 .. n PROVE r[j].ref = Cardinality(On(new, r[j].id))
      OBVIOUS
    <3>1. CASE j = i
      BY <1>3, <2>2, <2>3, <3>1
    <3>2. CASE j # i
      <4>1. reg[j].id # id
        BY <1>2, <1>3, <3>2
      <4>2. r[j] = reg[j] /\ j \in 1 .. Len(reg)
        BY <1>a, <2>3, <3>2
      <4>3. reg[j].ref = Cardinality(On(tab, reg[j].id))
        BY <1>5, <4>2
      <4>4. On(new, reg[j].id) = On(tab, reg[j].id)
        BY <1>4, <4>1
      <4> QED
        BY <4>2, <4>3, <4>4
    <3> QED
      BY <3>1, <3>2
  <2>7. \A q \in Proc : \A k \in 1 .. Len(new[q]) : new[q][k] # None => Leads(r, new[q][k])
    <3>1. ASSUME NEW y, Leads(reg, y)
          PROVE  Leads(r, y)
      BY <1>a, <2>3, <2>4, <3>1 DEF Leads
    <3> QED
      BY <1>5, <3>1
  <2>8. RefInv(r, new)
    BY <1>4, <2>3, <2>5, <2>6, <2>7 DEF RefInv
  <2>9. Kept(r, reg)
    BY <1>a, <2>3, <2>4 DEF Kept
  <2> QED
    BY <2>1, <2>8, <2>9 DEF IsDropped, Returned
<1> QED
  BY <1>7, <1>8

\* A page is freed with its region.
LEMMA PagesKept ==
  ASSUME ShmemAssumption, PageCounts = {1}, NEW reg, RegInv(reg), NEW new, RegInv(new), Kept(new, reg),
         NEW pgs, Returned(pgs, new, reg), NEW fr, NEW ot, PageInv(reg, fr, ot)
  PROVE  PageInv(new, fr \cup (pgs \cap Page), ot)
<1>1. \A i \in 1 .. Len(reg) : PagesOf(reg[i]) = {reg[i].base}
  <2> SUFFICES ASSUME NEW i \in 1 .. Len(reg) PROVE PagesOf(reg[i]) = {reg[i].base}
    OBVIOUS
  <2>1. reg[i].count = 1 /\ reg[i].base \in Nat
    BY RegAre
  <2> QED
    BY <2>1 DEF PagesOf
<1>2. \A j \in 1 .. Len(new) : \E i \in 1 .. Len(reg) : new[j].id = reg[i].id /\ new[j].base = reg[i].base
  BY DEF Kept
<1>3. \A j, k \in 1 .. Len(new) : new[j].base = new[k].base => j = k
  BY <1>2 DEF PageInv, RegInv
<1>4. \A j \in 1 .. Len(new) : new[j].base \notin fr \cup ot
  BY <1>2 DEF PageInv
<1>5. CASE pgs = {}
  BY <1>3, <1>4, <1>5 DEF PageInv
<1>6. ASSUME NEW i \in 1 .. Len(reg), pgs = PagesOf(reg[i]), \A j \in 1 .. Len(new) : new[j].id # reg[i].id
      PROVE  PageInv(new, fr \cup (pgs \cap Page), ot)
  <2>1. pgs = {reg[i].base} /\ reg[i].base \notin ot
    BY <1>1, <1>6 DEF PageInv
  <2>2. \A j \in 1 .. Len(new) : new[j].base # reg[i].base
    BY <1>2, <1>6 DEF PageInv
  <2>3. fr \cup (pgs \cap Page) \subseteq Page /\ ot \subseteq Page /\ (fr \cup (pgs \cap Page)) \cap ot = {}
    BY <2>1 DEF PageInv
  <2>4. \A j \in 1 .. Len(new) : new[j].base \notin (fr \cup (pgs \cap Page)) \cup ot
    BY <1>4, <2>1, <2>2
  <2> QED
    BY <1>3, <2>3, <2>4 DEF PageInv
<1> QED
  BY <1>5, <1>6 DEF Returned

\* proc_alloc_shmem_slot finds an inactive slot or makes some.
LEMMA GrownIs ==
  ASSUME ShmemAssumption, NEW t \in Seq(Slots), NEW g, g = Grown(t)
  PROVE  /\ g \in Seq(Slots) /\ Len(g) \in Nat /\ Len(g) >= Len(t)
         /\ \A h \in 1 .. Len(t) : g[h] = t[h]
         /\ \A h \in 1 .. Len(g) : h > Len(t) => g[h] = None
         /\ \E h \in 1 .. Len(g) : g[h] = None
<1>1. DOMAIN t = 1 .. Len(t) /\ Len(t) \in Nat
  OBVIOUS
<1>2. CASE \E h \in DOMAIN t : t[h] = None
  <2>1. g = t
    BY <1>2 DEF Grown
  <2> QED
    BY <1>1, <1>2, <2>1
<1>3. CASE ~\E h \in DOMAIN t : t[h] = None
  <2>a. PICK m : m = IF t = << >> THEN InitCap ELSE Len(t)
    OBVIOUS
  <2>b. PICK w : w = [i \in 1 .. m |-> None]
    OBVIOUS
  <2>1. m \in Nat \ {0}
    <3>1. CASE t = << >>
      BY <2>a, <3>1 DEF ShmemAssumption
    <3>2. CASE t # << >>
      BY <1>1, <2>a, <3>2
    <3> QED
      BY <3>1, <3>2
  <2>2. None \in Slots
    BY DEF None, Slots
  <2>3. w \in Seq(Slots) /\ Len(w) = m /\ \A h \in 1 .. m : w[h] = None
    <3>1. w \in [1 .. m -> Slots]
      BY <2>b, <2>2
    <3>2. w \in Seq(Slots) /\ Len(w) = m
      BY <2>1, <3>1
    <3> QED
      BY <2>b, <3>2
  <2>4. g = t \o w
    BY <1>3, <2>a, <2>b DEF Grown
  <2>5. /\ t \o w \in Seq(Slots) /\ Len(t \o w) = Len(t) + Len(w)
        /\ \A j \in 1 .. Len(t) + Len(w) : (t \o w)[j] = IF j <= Len(t) THEN t[j] ELSE w[j - Len(t)]
    BY <2>3, ConcatProperties, Zenon
  <2>6. /\ g \in Seq(Slots) /\ Len(g) = Len(t) + m
        /\ \A j \in 1 .. Len(t) + m : g[j] = IF j <= Len(t) THEN t[j] ELSE w[j - Len(t)]
    BY <2>3, <2>4, <2>5
  <2>7. \A h \in 1 .. Len(t) : g[h] = t[h]
    BY <1>1, <2>1, <2>6
  <2>8. \A h \in 1 .. Len(g) : h > Len(t) => g[h] = None
    <3> SUFFICES ASSUME NEW h \in 1 .. Len(g), h > Len(t) PROVE g[h] = None
      OBVIOUS
    <3>1. ~(h <= Len(t)) /\ h - Len(t) \in 1 .. m /\ h \in 1 .. Len(t) + m
      BY <1>1, <2>1, <2>6
    <3> QED
      BY <2>3, <2>6, <3>1
  <2>9. Len(t) + 1 \in 1 .. Len(g) /\ Len(t) + 1 > Len(t) /\ Len(g) \in Nat /\ Len(g) >= Len(t)
    BY <1>1, <2>1, <2>6
  <2> QED
    BY <2>6, <2>7, <2>8, <2>9
<1> QED
  BY <1>2, <1>3

\* A handle more, on the region i.
IsMore(new, tab, p, h, e) ==
  /\ TabInv(new)
  /\ \A q \in Proc : \A k \in 1 .. Len(new[q]) :
       new[q][k] # None => new[q][k] = e \/ (k \in 1 .. Len(tab[q]) /\ tab[q][k] = new[q][k])
  /\ \A id : id # e.id => On(new, id) = On(tab, id)
  /\ Cardinality(On(new, e.id)) = Cardinality(On(tab, e.id)) + 1
LEMMA TableMore ==
  ASSUME ShmemAssumption, IsFiniteSet(Proc), NEW tab, TabInv(tab), NEW p \in Proc,
         NEW g, g = Grown(tab[p]), Len(g) <= MaxCap, NEW h \in 1 .. Len(g), g[h] = None,
         NEW e \in Slots, e # None, NEW new, new = [tab EXCEPT ![p] = [g EXCEPT ![h] = e]]
  PROVE  IsMore(new, tab, p, h, e)
<1>a. PICK t, n : t = tab[p] /\ n = [g EXCEPT ![h] = e]
  OBVIOUS
<1>1. /\ tab \in [Proc -> Seq(Slots)] /\ \A q \in Proc : Len(tab[q]) <= MaxCap
      /\ \A q \in Proc : Len(tab[q]) \in Nat
      /\ t \in Seq(Slots) /\ Len(t) \in Nat /\ MaxCap \in Nat
  BY <1>a DEF TabInv, ShmemAssumption
<1>2. /\ g \in Seq(Slots) /\ Len(g) \in Nat /\ Len(g) >= Len(t)
      /\ \A k \in 1 .. Len(t) : g[k] = t[k]
      /\ \A k \in 1 .. Len(g) : k > Len(t) => g[k] = None
  BY <1>1, <1>a, GrownIs
<1>3. n \in Seq(Slots) /\ Len(n) = Len(g) /\ n[h] = e /\ \A k \in 1 .. Len(g) : k # h => n[k] = g[k]
  BY <1>2, <1>a
<1>4. new \in [Proc -> Seq(Slots)] /\ new[p] = n /\ \A q \in Proc : q # p => new[q] = tab[q]
  BY <1>1, <1>3, <1>a
<1>5. \A k \in 1 .. Len(g) : k # h /\ n[k] # None => k \in 1 .. Len(t) /\ n[k] = t[k]
  <2> SUFFICES ASSUME NEW k \in 1 .. Len(g), k # h, n[k] # None PROVE k \in 1 .. Len(t) /\ n[k] = t[k]
    OBVIOUS
  <2>1. n[k] = g[k]
    BY <1>3
  <2>2. ~(k > Len(t))
    BY <1>2, <2>1
  <2>3. k \in 1 .. Len(t)
    BY <1>1, <2>2
  <2> QED
    BY <1>2, <2>1, <2>3
<1>6. \A k \in 1 .. Len(t) : t[k] # None => k # h /\ k \in 1 .. Len(g) /\ n[k] = t[k]
  <2> SUFFICES ASSUME NEW k \in 1 .. Len(t), t[k] # None PROVE k # h /\ k \in 1 .. Len(g) /\ n[k] = t[k]
    OBVIOUS
  <2>1. g[k] = t[k] /\ k \in 1 .. Len(g)
    BY <1>1, <1>2
  <2>2. k # h
    BY <2>1
  <2> QED
    BY <1>3, <2>1, <2>2
<1>7. TabInv(new)
  <2>1. \A q \in Proc : Len(new[q]) <= MaxCap
    BY <1>1, <1>3, <1>4
  <2> QED
    BY <1>4, <2>1 DEF TabInv
<1>8. ASSUME NEW q \in Proc, NEW k \in 1 .. Len(new[q]), new[q][k] # None
      PROVE  new[q][k] = e \/ (k \in 1 .. Len(tab[q]) /\ tab[q][k] = new[q][k])
  <2>1. CASE q # p
    <3>1. new[q] = tab[q]
      BY <1>4, <2>1
    <3> QED
      BY <3>1
  <2>2. CASE q = p
    <3>1. new[q] = n /\ tab[q] = t /\ k \in 1 .. Len(g)
      BY <1>3, <1>4, <1>a, <2>2
    <3>2. k = h => n[k] = e
      BY <1>3
    <3> QED
      BY <1>5, <1>8, <3>1, <3>2
  <2> QED
    BY <2>1, <2>2
<1>9. ASSUME NEW q \in Proc, NEW k \in 1 .. MaxCap, NEW id
      PROVE  Uses(new, q, k, id) <=> Uses(tab, q, k, id) \/ (q = p /\ k = h /\ id = e.id)
  <2>1. CASE q # p
    <3>1. new[q] = tab[q]
      BY <1>4, <2>1
    <3> QED
      BY <2>1, <3>1 DEF Uses
  <2>2. CASE q = p
    <3>1. Uses(new, p, k, id) <=> k \in 1 .. Len(g) /\ n[k] # None /\ n[k].id = id
      BY <1>3, <1>4 DEF Uses
    <3>2. Uses(tab, p, k, id) <=> k \in 1 .. Len(t) /\ t[k] # None /\ t[k].id = id
      BY <1>a DEF Uses
    <3>3. CASE k = h
      <4>1. ~Uses(tab, p, k, id)
        BY <1>6, <3>2, <3>3
      <4>2. Uses(new, p, k, id) <=> id = e.id
        BY <1>3, <3>1, <3>3
      <4> QED
        BY <2>2, <3>3, <4>1, <4>2
    <3>4. CASE k # h
      <4>1. k \in 1 .. Len(g) /\ n[k] # None => k \in 1 .. Len(t) /\ n[k] = t[k]
        BY <1>5, <3>4
      <4>2. k \in 1 .. Len(t) /\ t[k] # None => k \in 1 .. Len(g) /\ n[k] = t[k]
        BY <1>6
      <4>3. (k \in 1 .. Len(g) /\ n[k] # None /\ n[k].id = id) <=> (k \in 1 .. Len(t) /\ t[k] # None /\ t[k].id = id)
        BY <4>1, <4>2, Zenon
      <4> QED
        BY <2>2, <3>1, <3>2, <3>4, <4>3
    <3> QED
      BY <3>3, <3>4
  <2> QED
    BY <2>1, <2>2
<1>10. /\ \A id : id # e.id => On(new, id) = On(tab, id)
       /\ On(new, e.id) = On(tab, e.id) \cup {<<p, h>>} /\ <<p, h>> \notin On(tab, e.id)
  <2>1. h \in 1 .. MaxCap
    BY <1>1, <1>2
  <2>2. <<p, h>> \in Proc \X (1 .. MaxCap) /\ <<p, h>>[1] = p /\ <<p, h>>[2] = h
    BY <2>1
  <2>3. ASSUME NEW x \in Proc \X (1 .. MaxCap), NEW id
        PROVE  Uses(new, x[1], x[2], id) <=> Uses(tab, x[1], x[2], id) \/ (x = <<p, h>> /\ id = e.id)
    <3>a. PICK q, k : q \in Proc /\ k \in 1 .. MaxCap /\ x = <<q, k>> /\ q = x[1] /\ k = x[2]
      OBVIOUS
    <3>1. x = <<p, h>> <=> q = p /\ k = h
      BY <3>a
    <3>2. Uses(new, q, k, id) <=> Uses(tab, q, k, id) \/ (q = p /\ k = h /\ id = e.id)
      BY <3>a, <1>9
    <3>3. Uses(new, q, k, id) <=> Uses(tab, q, k, id) \/ (x = <<p, h>> /\ id = e.id)
      BY <3>1, <3>2
    <3> QED
      BY <3>3, <3>a, Zenon
  <2>4. ~Uses(tab, p, h, e.id)
    BY <1>6, <1>a DEF Uses
  <2>5. ASSUME NEW id, id # e.id
        PROVE  On(new, id) = On(tab, id)
    <3>1. \A x \in Proc \X (1 .. MaxCap) : Uses(new, x[1], x[2], id) <=> Uses(tab, x[1], x[2], id)
      BY <2>3, <2>5
    <3> QED
      BY <3>1 DEF On
  <2>6. On(new, e.id) = On(tab, e.id) \cup {<<p, h>>}
    BY <2>2, <2>3 DEF On
  <2>7. <<p, h>> \notin On(tab, e.id)
    BY <2>2, <2>4 DEF On
  <2> QED
    BY <2>5, <2>6, <2>7
<1>11. Cardinality(On(new, e.id)) = Cardinality(On(tab, e.id)) + 1
  <2>a. PICK S, x : S = On(tab, e.id) /\ x = <<p, h>>
    OBVIOUS
  <2>1. Cardinality(S \cup {x}) = Cardinality(S) + 1
    <3>1. IsFiniteSet(S) /\ x \notin S
      BY <1>10, <2>a, OnFinite
    <3> QED
      BY <3>1, FS_AddElement
  <2>2. On(new, e.id) = S \cup {x}
    BY <1>10, <2>a
  <2> QED
    BY <2>1, <2>2, <2>a
<1> QED
  BY <1>7, <1>8, <1>10, <1>11 DEF IsMore

\* shmem_attach_proc keeps the counts, and the regions but for these.
LEMMA AttachKeeps ==
  ASSUME ShmemAssumption, IsFiniteSet(Proc), RefInv(region, table), NEW p \in Proc, NEW id, AttachProc(p, id)
  PROVE  RefInv(region', table') /\ Kept(region', region)
<1>a. PICK i, g, Z, h, reg, n : /\ i = Find(region, id) /\ g = Grown(table[p]) /\ Z = {k \in DOMAIN g : g[k] = None}
                                /\ h = Min(Z) /\ reg = region /\ n = Len(region)
  OBVIOUS
<1>1. RegInv(reg) /\ TabInv(table)
  BY <1>a DEF RefInv
<1>2. /\ reg \in Seq(Regions) /\ n \in Nat
      /\ \A k \in 1 .. n : reg[k] \in Regions /\ reg[k].ref \in Nat /\ reg[k].id \in Nat \ {0} /\ reg[k].base \in Nat
                           /\ reg[k].count \in Nat
      /\ \A k, j \in 1 .. n : reg[k].id = reg[j].id => k = j
  BY <1>1, <1>a, RegAre DEF RegInv
<1>3. CASE region' = region /\ table' = table
  BY <1>3 DEF Kept
<1>4. CASE ~(region' = region /\ table' = table)
  <2>a. PICK e, x : /\ e = [id |-> id, base |-> region[i].base, count |-> region[i].count]
                    /\ x = [reg[i] EXCEPT !.ref = @ + 1]
    OBVIOUS
  <2>1. /\ i # 0 /\ Len(g) <= MaxCap /\ region' = [reg EXCEPT ![i] = x]
        /\ table' = [table EXCEPT ![p] = [g EXCEPT ![h] = e]]
    BY <1>4, <1>a, <2>a DEF AttachProc
  <2>2. i \in 1 .. n /\ reg[i].id = id
    BY <1>1, <1>a, <2>1, FindIs
  <2>3. e \in Slots /\ e # None /\ e.id = id /\ e.base = reg[i].base /\ e.count = reg[i].count
    <3>1. id \in Nat \ {0} /\ reg[i].base \in Nat /\ reg[i].count \in Nat
      BY <1>2, <2>2
    <3>2. e \in Slots /\ e.id = id /\ e.base = reg[i].base /\ e.count = reg[i].count /\ None.id = 0
      BY <1>a, <2>a, <3>1 DEF Slots, None
    <3> QED
      BY <3>1, <3>2
  <2>4. h \in 1 .. Len(g) /\ g[h] = None
    <3>1. table[p] \in Seq(Slots)
      BY <1>1 DEF TabInv
    <3>2. /\ Len(g) \in Nat /\ g \in Seq(Slots)
          /\ \E k \in 1 .. Len(g) : g[k] = None
      BY <1>a, <3>1, GrownIs
    <3>3. Z \subseteq Nat /\ Z # {} /\ Z = {k \in 1 .. Len(g) : g[k] = None}
      BY <1>a, <3>2
    <3>4. \E v \in Z : \A y \in Z : v <= y
      BY <3>3, SmallestOfNats
    <3>5. h \in Z
      BY <1>a, <3>4 DEF Min
    <3> QED
      BY <3>3, <3>5
  <2>b. PICK new : new = table'
    OBVIOUS
  <2>5. IsMore(new, table, p, h, e)
    BY <1>1, <1>a, <2>1, <2>3, <2>4, <2>b, TableMore
  <2>6. /\ TabInv(new)
        /\ \A q \in Proc : \A k \in 1 .. Len(new[q]) :
             new[q][k] # None => new[q][k] = e \/ (k \in 1 .. Len(table[q]) /\ table[q][k] = new[q][k])
        /\ \A jd : jd # id => On(new, jd) = On(table, jd)
        /\ Cardinality(On(new, id)) = Cardinality(On(table, id)) + 1
    BY <2>3, <2>5 DEF IsMore
  <2>7. x \in Regions /\ x.id = reg[i].id /\ x.base = reg[i].base /\ x.count = reg[i].count /\ x.ref = reg[i].ref + 1
    <3>1. reg[i] \in Regions /\ reg[i].ref + 1 \in Nat
      BY <1>2, <2>2
    <3> QED
      BY <2>a, <3>1 DEF Regions
  <2>c. PICK r : r = region'
    OBVIOUS
  <2>8. r \in Seq(Regions) /\ Len(r) = n /\ r[i] = x /\ \A j \in 1 .. n : j # i => r[j] = reg[j]
    BY <1>2, <1>a, <2>1, <2>2, <2>7, <2>c
  <2>9. \A j \in 1 .. n : r[j].id = reg[j].id /\ r[j].base = reg[j].base /\ r[j].count = reg[j].count
    BY <2>7, <2>8
  <2>10. RegInv(r)
    BY <1>2, <2>8, <2>9 DEF RegInv
  <2>11. \A j \in 1 .. n : r[j].ref = Cardinality(On(new, r[j].id))
    <3> SUFFICES ASSUME NEW j \in 1 .. n PROVE r[j].ref = Cardinality(On(new, r[j].id))
      OBVIOUS
    <3>1. reg[j].ref = Cardinality(On(table, reg[j].id))
      BY <1>a DEF RefInv
    <3>2. CASE j = i
      BY <2>2, <2>6, <2>7, <2>8, <3>1, <3>2
    <3>3. CASE j # i
      <4>1. reg[j].id # id
        BY <1>2, <2>2, <3>3
      <4> QED
        BY <2>6, <2>8, <3>1, <3>3, <4>1
    <3> QED
      BY <3>2, <3>3
  <2>12. \A q \in Proc : \A k \in 1 .. Len(new[q]) : new[q][k] # None => Leads(r, new[q][k])
    <3>1. Leads(r, e)
      BY <2>2, <2>3, <2>8, <2>9 DEF Leads
    <3>2. ASSUME NEW y, Leads(reg, y)
          PROVE  Leads(r, y)
      BY <1>a, <2>8, <2>9, <3>2 DEF Leads
    <3>3. \A q \in Proc : \A k \in 1 .. Len(table[q]) : table[q][k] # None => Leads(reg, table[q][k])
      BY <1>a DEF RefInv
    <3> QED
      BY <2>6, <3>1, <3>2, <3>3
  <2>13. RefInv(r, new)
    BY <2>6, <2>8, <2>10, <2>11, <2>12 DEF RefInv
  <2>14. Kept(r, reg)
    BY <1>a, <2>8, <2>9 DEF Kept
  <2> QED
    BY <1>a, <2>13, <2>14, <2>b, <2>c
<1> QED
  BY <1>3, <1>4

\* What ipc_process_cleanup has done after m entries of a table.
Cleaned(f, t, m) ==
  f = [h \in 0 .. m |-> IF h = 0 THEN [reg |-> region, pages |-> {}] ELSE AlsoDropped(f[h - 1], t[h])]

IsCleaned(f, t) ==
  f[0] = [reg |-> region, pages |-> {}] /\ \A h \in 1 .. Len(t) : f[h] = AlsoDropped(f[h - 1], t[h])

\* The recursion over the table exists: by a least entry at which it would be
\* undefined.
LEMMA AllDroppedIs ==
  ASSUME NEW t, Len(t) \in Nat
  PROVE  \E f : AllDropped(t) = f[Len(t)] /\ IsCleaned(f, t)
<1>a. PICK l, z : l = Len(t) /\ z = [reg |-> region, pages |-> {}]
  OBVIOUS
<1> DEFINE S == {m \in 0 .. l : ~\E f : Cleaned(f, t, m)}
<1>1. l \in Nat
  BY <1>a
<1>2. S = {}
  <2> SUFFICES ASSUME S # {} PROVE FALSE
    OBVIOUS
  <2>1. PICK m \in S : \A k \in S : m <= k
    <3>1. S \subseteq Nat
      BY <1>1
    <3> HIDE DEF S
    <3> QED
      BY <3>1, SmallestOfNats
  <2>2. m \in 0 .. l /\ ~\E f : Cleaned(f, t, m)
    OBVIOUS
  <2>3. CASE m = 0
    <3>1. Cleaned([k \in 0 .. 0 |-> z], t, 0)
      BY <1>a DEF Cleaned
    <3> QED
      BY <2>2, <2>3, <3>1
  <2>4. CASE m # 0
    <3>1. m - 1 \in 0 .. l /\ m - 1 \notin S
      BY <1>1, <2>1, <2>2, <2>4
    <3>2. PICK f : Cleaned(f, t, m - 1)
      BY <3>1
    <3> DEFINE One(d, k) == AlsoDropped(d, t[k])
               g == [k \in 0 .. m |-> IF k < m THEN f[k] ELSE One(f[m - 1], m)]
    <3>3. m \in Nat /\ m > 0
      BY <1>1, <2>2, <2>4
    <3> HIDE DEF One
    <3>4. \A k \in 0 .. m - 1 : f[k] = IF k = 0 THEN z ELSE One(f[k - 1], k)
      BY <1>a, <3>2, <3>3 DEF Cleaned, One
    <3>5. \A k \in 0 .. m : g[k] = IF k = 0 THEN z ELSE One(g[k - 1], k)
      <4> SUFFICES ASSUME NEW k \in 0 .. m PROVE g[k] = IF k = 0 THEN z ELSE One(g[k - 1], k)
        OBVIOUS
      <4>1. CASE k < m
        <5>1. k \in 0 .. m - 1 /\ g[k] = f[k] /\ (k # 0 => g[k - 1] = f[k - 1])
          BY <3>3, <4>1
        <5> QED
          BY <3>4, <5>1
      <4>2. CASE k = m
        <5>1. g[k - 1] = f[k - 1] /\ g[k] = One(f[m - 1], m)
          BY <3>3, <4>2
        <5>2. k # 0 /\ f[m - 1] = f[k - 1]
          BY <3>3, <4>2
        <5> HIDE DEF g
        <5> QED
          BY <4>2, <5>1, <5>2
      <4>3. k < m \/ k = m
        BY <3>3
      <4> HIDE DEF g
      <4> QED
        BY <4>1, <4>2, <4>3
    <3>6. Cleaned(g, t, m)
      BY <1>a, <3>5 DEF Cleaned, One
    <3> HIDE DEF g
    <3> QED
      BY <2>2, <3>6
  <2> QED
    BY <2>3, <2>4
<1>3. \E f : Cleaned(f, t, l)
  BY <1>1, <1>2
<1>b. PICK f : f = CHOOSE g : Cleaned(g, t, l)
  OBVIOUS
<1>4. AllDropped(t) = f[l]
  BY <1>a, <1>b, Zenon DEF AllDropped, Cleaned
<1>5. Cleaned(f, t, l)
  BY <1>3, <1>b
<1>6. f = [k \in 0 .. l |-> IF k = 0 THEN z ELSE AlsoDropped(f[k - 1], t[k])]
  BY <1>5, <1>a DEF Cleaned
<1>7. f[0] = z
  BY <1>1, <1>6
<1>8. ASSUME NEW k \in 1 .. l
      PROVE  f[k] = AlsoDropped(f[k - 1], t[k])
  <2>1. k \in 0 .. l /\ k # 0
    BY <1>1
  <2> QED
    BY <1>6, <2>1
<1>9. IsCleaned(f, t)
  BY <1>a, <1>7, <1>8 DEF IsCleaned
<1> QED
  BY <1>a, <1>4, <1>9

\* The table of p without its first m entries.
Wiped(tab, p, m) ==
  [tab EXCEPT ![p] = [k \in 1 .. Len(tab[p]) |-> IF k <= m THEN None ELSE tab[p][k]]]
LEMMA WipedIs ==
  ASSUME ShmemAssumption, NEW tab, TabInv(tab), NEW p \in Proc, NEW m \in 0 .. Len(tab[p])
  PROVE  /\ m = 0 => Wiped(tab, p, m) = tab
         /\ m # 0 /\ tab[p][m] = None => Wiped(tab, p, m) = Wiped(tab, p, m - 1)
         /\ m # 0 => /\ Wiped(tab, p, m) = [Wiped(tab, p, m - 1) EXCEPT ![p][m] = None]
                     /\ m \in 1 .. Len(Wiped(tab, p, m - 1)[p]) /\ Wiped(tab, p, m - 1)[p][m] = tab[p][m]
<1>a. PICK t, l, a, b : /\ t = tab[p] /\ l = Len(t)
                        /\ a = [k \in 1 .. l |-> IF k <= m THEN None ELSE t[k]]
                        /\ b = [k \in 1 .. l |-> IF k <= m - 1 THEN None ELSE t[k]]
  OBVIOUS
<1>1. tab \in [Proc -> Seq(Slots)] /\ t \in Seq(Slots) /\ l \in Nat /\ t = [k \in 1 .. l |-> t[k]] /\ m \in 0 .. l
  BY <1>a DEF TabInv
<1>2. Wiped(tab, p, m) = [tab EXCEPT ![p] = a] /\ Wiped(tab, p, m - 1) = [tab EXCEPT ![p] = b]
  BY <1>a DEF Wiped
<1>3. m = 0 => a = t
  <2> SUFFICES ASSUME m = 0 PROVE a = t
    OBVIOUS
  <2>1. a = [k \in 1 .. l |-> t[k]]
    BY <1>1, <1>a
  <2> QED
    BY <1>1, <2>1
<1>4. m # 0 /\ t[m] = None => a = b
  <2> SUFFICES ASSUME m # 0, t[m] = None PROVE a = b
    OBVIOUS
  <2>1. \A k \in 1 .. l : (IF k <= m THEN None ELSE t[k]) = (IF k <= m - 1 THEN None ELSE t[k])
    <3> SUFFICES ASSUME NEW k \in 1 .. l PROVE (IF k <= m THEN None ELSE t[k]) = (IF k <= m - 1 THEN None ELSE t[k])
      OBVIOUS
    <3>1. k = m \/ (k <= m <=> k <= m - 1)
      BY <1>1
    <3> QED
      BY <3>1
  <2> QED
    BY <1>a, <2>1
<1>5. m # 0 => a = [b EXCEPT ![m] = None] /\ b[m] = t[m] /\ m \in 1 .. Len(b)
  <2> SUFFICES ASSUME m # 0 PROVE a = [b EXCEPT ![m] = None] /\ b[m] = t[m] /\ m \in 1 .. Len(b)
    OBVIOUS
  <2>1. m \in 1 .. l /\ ~(m <= m - 1)
    BY <1>1
  <2>2. DOMAIN b = 1 .. l /\ b[m] = t[m]
    BY <1>a, <2>1
  <2>3. Len(b) = l
    BY <1>1, <1>a
  <2>4. \A k \in 1 .. l : a[k] = IF k = m THEN None ELSE b[k]
    <3> SUFFICES ASSUME NEW k \in 1 .. l PROVE a[k] = IF k = m THEN None ELSE b[k]
      OBVIOUS
    <3>1. k = m \/ (k <= m <=> k <= m - 1)
      BY <1>1
    <3> QED
      BY <1>a, <1>1, <2>1, <3>1
  <2>5. a = [b EXCEPT ![m] = None]
    BY <1>a, <2>2, <2>4
  <2> QED
    BY <2>1, <2>2, <2>3, <2>5
<1>6. \A x, y : [[tab EXCEPT ![p] = x] EXCEPT ![p] = y] = [tab EXCEPT ![p] = y] /\ [tab EXCEPT ![p] = x][p] = x
  BY <1>1
<1>7. m = 0 => Wiped(tab, p, m) = tab
  BY <1>1, <1>2, <1>3, <1>a
<1>8. m # 0 /\ tab[p][m] = None => Wiped(tab, p, m) = Wiped(tab, p, m - 1)
  BY <1>2, <1>4, <1>a
<1>9. ASSUME m # 0
      PROVE  /\ Wiped(tab, p, m) = [Wiped(tab, p, m - 1) EXCEPT ![p][m] = None]
             /\ m \in 1 .. Len(Wiped(tab, p, m - 1)[p]) /\ Wiped(tab, p, m - 1)[p][m] = tab[p][m]
  <2>a. PICK w : w = Wiped(tab, p, m - 1)
    OBVIOUS
  <2>1. w = [tab EXCEPT ![p] = b] /\ w[p] = b
    BY <1>2, <1>6, <2>a
  <2>2. [w EXCEPT ![p][m] = None] = [w EXCEPT ![p] = [b EXCEPT ![m] = None]]
    BY <2>1
  <2>3. [w EXCEPT ![p] = a] = [tab EXCEPT ![p] = a]
    BY <1>6, <2>1
  <2>4. Wiped(tab, p, m) = [w EXCEPT ![p][m] = None]
    BY <1>2, <1>5, <1>9, <2>2, <2>3
  <2> QED
    BY <1>5, <1>9, <1>a, <2>1, <2>4, <2>a
<1> QED
  BY <1>7, <1>8, <1>9

\* A table of inactive entries is as good as none.
LEMMA WipedOut ==
  ASSUME ShmemAssumption, NEW tab, TabInv(tab), NEW p \in Proc, NEW reg, RefInv(reg, Wiped(tab, p, Len(tab[p])))
  PROVE  RefInv(reg, [tab EXCEPT ![p] = << >>])
<1>a. PICK w, v : w = Wiped(tab, p, Len(tab[p])) /\ v = [tab EXCEPT ![p] = << >>]
  OBVIOUS
<1>1. tab \in [Proc -> Seq(Slots)] /\ Len(tab[p]) \in Nat /\ MaxCap \in Nat
  BY DEF TabInv, ShmemAssumption
<1>2. \A q \in Proc : q # p => w[q] = tab[q] /\ v[q] = tab[q]
  BY <1>1, <1>a DEF Wiped
<1>3. \A k \in 1 .. Len(w[p]) : w[p][k] = None
  <2>1. w[p] = [k \in 1 .. Len(tab[p]) |-> IF k <= Len(tab[p]) THEN None ELSE tab[p][k]]
    BY <1>1, <1>a DEF Wiped
  <2>2. Len(w[p]) = Len(tab[p])
    BY <1>1, <2>1
  <2> QED
    BY <1>1, <2>1, <2>2
<1>4. v[p] = << >> /\ Len(v[p]) = 0 /\ v \in [Proc -> Seq(Slots)]
  BY <1>1, <1>a
<1>5. \A q \in Proc : \A k, id : Uses(w, q, k, id) <=> Uses(v, q, k, id)
  <2> SUFFICES ASSUME NEW q \in Proc, NEW k, NEW id PROVE Uses(w, q, k, id) <=> Uses(v, q, k, id)
    OBVIOUS
  <2>1. CASE q = p
    BY <1>3, <1>4, <2>1 DEF Uses
  <2>2. CASE q # p
    <3>1. w[q] = v[q]
      BY <1>2, <2>2
    <3> QED
      BY <3>1 DEF Uses
  <2> QED
    BY <2>1, <2>2
<1>6. \A id : On(w, id) = On(v, id)
  BY <1>5 DEF On
<1>7. TabInv(v)
  <2>1. \A q \in Proc : Len(v[q]) <= MaxCap
    <3> SUFFICES ASSUME NEW q \in Proc PROVE Len(v[q]) <= MaxCap
      OBVIOUS
    <3>1. CASE q = p
      BY <1>1, <1>4, <3>1
    <3>2. CASE q # p
      <4>1. v[q] = tab[q]
        BY <1>2, <3>2
      <4> QED
        BY <4>1 DEF TabInv
    <3> QED
      BY <3>1, <3>2
  <2> QED
    BY <1>4, <2>1 DEF TabInv
<1>8. ASSUME NEW q \in Proc, NEW k \in 1 .. Len(v[q]), v[q][k] # None
      PROVE  Leads(reg, v[q][k])
  <2>1. q # p
    BY <1>4
  <2>2. w[q] = v[q]
    BY <1>2, <2>1
  <2> QED
    BY <1>8, <1>a, <2>2 DEF RefInv
<1>9. /\ RegInv(reg) /\ \A i \in 1 .. Len(reg) : reg[i].ref = Cardinality(On(w, reg[i].id))
  BY <1>a DEF RefInv
<1>10. RefInv(reg, v)
  BY <1>6, <1>7, <1>8, <1>9 DEF RefInv
<1> QED
  BY <1>10, <1>a

\* All of a process's handles dropped.
LEMMA CleanupKeeps ==
  ASSUME ShmemAssumption, IsFiniteSet(Proc), RefInv(region, table), NEW p \in Proc,
         NEW d, d = AllDropped(table[p])
  PROVE  /\ RefInv(d.reg, [table EXCEPT ![p] = << >>]) /\ Kept(d.reg, region)
         /\ PageCounts = {1} /\ PageInv(region, free, other) => PageInv(d.reg, free \cup (d.pages \cap Page), other)
<1>a. PICK t, l : t = table[p] /\ l = Len(t)
  OBVIOUS
<1>1. TabInv(table) /\ t \in Seq(Slots) /\ l \in Nat
  BY <1>a DEF RefInv, TabInv
<1>b. PICK f : /\ d = f[l] /\ f[0] = [reg |-> region, pages |-> {}]
               /\ \A h \in 1 .. l : f[h] = AlsoDropped(f[h - 1], t[h])
  <2>1. PICK f : AllDropped(t) = f[Len(t)] /\ IsCleaned(f, t)
    BY <1>1, <1>a, AllDroppedIs
  <2> QED
    BY <1>a, <2>1 DEF IsCleaned
<1> DEFINE Paged(h) == PageInv(f[h].reg, free \cup (f[h].pages \cap Page), other)
           Good(h) == /\ RefInv(f[h].reg, Wiped(table, p, h)) /\ Kept(f[h].reg, region)
                      /\ (PageCounts = {1} /\ PageInv(region, free, other) => Paged(h))
           S == {h \in 0 .. l : ~Good(h)}
<1>2. Good(0)
  <2>1. f[0].reg = region /\ f[0].pages = {}
    BY <1>b
  <2>2. Wiped(table, p, 0) = table
    <3>1. 0 \in 0 .. Len(table[p])
      BY <1>1, <1>a
    <3> QED
      BY <1>1, <3>1, WipedIs
  <2>3. Kept(region, region)
    BY DEF Kept
  <2>4. free \cup ({} \cap Page) = free
    OBVIOUS
  <2> QED
    BY <2>1, <2>2, <2>3, <2>4
<1>3. ASSUME NEW h \in 1 .. l, Good(h - 1)
      PROVE  Good(h)
  <2>a. PICK w, v, c, b : w = Wiped(table, p, h - 1) /\ v = Wiped(table, p, h) /\ c = f[h - 1] /\ b = f[h]
    OBVIOUS
  <2>1. /\ RefInv(c.reg, w) /\ Kept(c.reg, region)
        /\ (PageCounts = {1} /\ PageInv(region, free, other) => PageInv(c.reg, free \cup (c.pages \cap Page), other))
    BY <1>3, <2>a
  <2>2. b = AlsoDropped(c, t[h])
    BY <1>b, <2>a
  <2>3. h \in 0 .. Len(table[p]) /\ h # 0
    BY <1>1, <1>a
  <2>4. CASE t[h] = None
    <3>1. b = c
      BY <2>2, <2>4 DEF AlsoDropped
    <3>2. v = w
      BY <1>1, <1>a, <2>3, <2>4, <2>a, WipedIs
    <3> QED
      BY <2>1, <2>a, <3>1, <3>2
  <2>5. CASE t[h] # None
    <3>1. v = [w EXCEPT ![p][h] = None] /\ h \in 1 .. Len(w[p]) /\ w[p][h] = t[h]
      BY <1>1, <1>a, <2>3, <2>a, WipedIs
    <3>a. PICK e : e = Dropped(c.reg, t[h].id)
      OBVIOUS
    <3>2. b.reg = e.reg /\ b.pages = c.pages \cup e.pages
      BY <2>2, <2>5, <3>a DEF AlsoDropped
    <3>3. RefInv(e.reg, v) /\ Kept(e.reg, c.reg) /\ Returned(e.pages, e.reg, c.reg)
      <4>1. w[p][h] # None /\ e = Dropped(c.reg, w[p][h].id) /\ RefInv(c.reg, w)
        BY <2>1, <2>5, <3>1, <3>a
      <4>2. IsDropped(e, c.reg, v)
        BY <3>1, <4>1, DropKeeps
      <4> QED
        BY <4>2 DEF IsDropped
    <3>4. Kept(e.reg, region)
      <4> SUFFICES ASSUME NEW j \in 1 .. Len(e.reg)
                   PROVE  \E i \in 1 .. Len(region) : /\ e.reg[j].id = region[i].id /\ e.reg[j].base = region[i].base
                                                      /\ e.reg[j].count = region[i].count
        BY DEF Kept
      <4>1. PICK k \in 1 .. Len(c.reg) : /\ e.reg[j].id = c.reg[k].id /\ e.reg[j].base = c.reg[k].base
                                         /\ e.reg[j].count = c.reg[k].count
        BY <3>3 DEF Kept
      <4>2. PICK i \in 1 .. Len(region) : /\ c.reg[k].id = region[i].id /\ c.reg[k].base = region[i].base
                                          /\ c.reg[k].count = region[i].count
        BY <2>1 DEF Kept
      <4> QED
        BY <4>1, <4>2
    <3>5. ASSUME PageCounts = {1}, PageInv(region, free, other)
          PROVE  PageInv(e.reg, free \cup (b.pages \cap Page), other)
      <4>1. PageInv(e.reg, (free \cup (c.pages \cap Page)) \cup (e.pages \cap Page), other)
        <5>1. PageInv(c.reg, free \cup (c.pages \cap Page), other) /\ RegInv(c.reg) /\ RegInv(e.reg)
          BY <2>1, <3>3, <3>5 DEF RefInv
        <5> QED
          BY <3>3, <3>5, <5>1, PagesKept
      <4>2. (free \cup (c.pages \cap Page)) \cup (e.pages \cap Page) = free \cup (b.pages \cap Page)
        BY <3>2
      <4> QED
        BY <4>1, <4>2
    <3> QED
      BY <2>a, <3>2, <3>3, <3>4, <3>5
  <2> QED
    BY <2>4, <2>5
<1>4. S = {}
  <2> SUFFICES ASSUME S # {} PROVE FALSE
    OBVIOUS
  <2>1. PICK h \in S : \A m \in S : h <= m
    <3>1. S \subseteq Nat
      BY <1>1
    <3> HIDE DEF S
    <3> QED
      BY <3>1, SmallestOfNats
  <2>2. h \in 0 .. l /\ ~Good(h)
    OBVIOUS
  <2> HIDE DEF Good
  <2>3. h # 0
    BY <1>2, <2>2
  <2>4. h - 1 \in 0 .. l /\ h - 1 \notin S /\ h \in 1 .. l
    BY <1>1, <2>1, <2>2, <2>3
  <2> QED
    BY <1>3, <2>2, <2>4
<1>5. Good(l)
  <2>1. l \in 0 .. l
    BY <1>1
  <2> HIDE DEF Good
  <2> QED
    BY <1>4, <2>1
<1>6. RefInv(d.reg, [table EXCEPT ![p] = << >>])
  <2>1. RefInv(d.reg, Wiped(table, p, Len(table[p])))
    BY <1>5, <1>a, <1>b
  <2> QED
    BY <1>1, <2>1, WipedOut
<1> QED
  BY <1>5, <1>6, <1>b

\* shmem_create_region: an id that no region and no handle has.
LEMMA CreateKeeps ==
  ASSUME ShmemAssumption, MaxRegion <= IdSpace, IsFiniteSet(Proc), ShmInv, NEW n \in PageCounts, Create(n)
  PROVE  ShmInv' /\ (PageInv(region, free, other) => PageInv(region', free', other'))
<1>1. PICK g \in free :
         /\ free' = free \ {g}
         /\ region' = <<[id |-> g_next_shm_id, base |-> g, count |-> n, ref |-> 0]>> \o region
  BY DEF Create
<1>a. PICK x, reg, new, l : /\ x = [id |-> g_next_shm_id, base |-> g, count |-> n, ref |-> 0]
                            /\ reg = region /\ new = region' /\ l = Len(region)
  OBVIOUS
<1>2. /\ reg \in Seq(Regions) /\ l \in Nat /\ \A i \in 1 .. l : reg[i].id <= region_c /\ reg[i].id \in Nat
      /\ RegInv(reg) /\ region_c \in Nat /\ MaxRegion \in Nat /\ IdSpace \in Nat \ {0}
      /\ \A i, j \in 1 .. l : reg[i].id = reg[j].id => i = j
  BY <1>a, RegAre DEF ShmInv, RefInv, RegInv, ShmemAssumption
<1>3. /\ g_next_shm_id = region_c + 1 /\ region_c < IdSpace /\ region_c' = region_c + 1 /\ g_next_shm_id \in Ids
      /\ other' = other /\ table' = table /\ g_next_shm_id' = NextId(g_next_shm_id)
  BY <1>2 DEF ShmInv, Create
<1>4. /\ x \in Regions /\ x.id = region_c + 1 /\ x.base = g /\ x.ref = 0
  <2>1. g \in Page /\ g_next_shm_id \in Ids
    BY <1>3 DEF ShmInv
  <2> QED
    BY <1>3, <1>a, <2>1 DEF Regions
<1>5. new \in Seq(Regions) /\ Len(new) = l + 1 /\ new[1] = x /\ \A i \in 1 .. l : new[i + 1] = reg[i]
  <2>a. PICK s : s = <<x>>
    OBVIOUS
  <2>1. s \in Seq(Regions) /\ Len(s) = 1 /\ s[1] = x
    BY <1>4, <2>a
  <2>2. /\ s \o reg \in Seq(Regions) /\ Len(s \o reg) = Len(s) + Len(reg)
        /\ \A j \in 1 .. Len(s) + Len(reg) : (s \o reg)[j] = IF j <= Len(s) THEN s[j] ELSE reg[j - Len(s)]
    <3>1. s \in Seq(Regions) /\ reg \in Seq(Regions)
      BY <1>2, <2>1
    <3> QED
      BY <3>1, ConcatProperties, Zenon
  <2>3. new = s \o reg
    BY <1>1, <1>a, <2>a
  <2>4. new \in Seq(Regions) /\ Len(new) = 1 + l /\ \A j \in 1 .. 1 + l : new[j] = IF j <= 1 THEN x ELSE reg[j - 1]
    <3>1. \A j \in 1 .. 1 + l : j <= 1 => j = 1
      BY <1>2
    <3> QED
      BY <1>a, <2>1, <2>2, <2>3, <3>1
  <2>5. 1 \in 1 .. 1 + l /\ \A i \in 1 .. l : i + 1 \in 1 .. 1 + l /\ ~(i + 1 <= 1) /\ (i + 1) - 1 = i
    BY <1>2
  <2> QED
    BY <1>2, <2>4, <2>5
<1>6. \A j \in 1 .. l + 1 : j = 1 \/ (j - 1 \in 1 .. l /\ new[j] = reg[j - 1])
  <2> SUFFICES ASSUME NEW j \in 1 .. l + 1, j # 1 PROVE j - 1 \in 1 .. l /\ new[j] = reg[j - 1]
    OBVIOUS
  <2>1. j - 1 \in 1 .. l /\ (j - 1) + 1 = j
    BY <1>2
  <2> QED
    BY <1>5, <2>1
<1>7. \A i \in 1 .. l : reg[i].id # x.id
  BY <1>2, <1>4
<1>8. RegInv(new)
  <2> SUFFICES ASSUME NEW i \in 1 .. l + 1, NEW j \in 1 .. l + 1, new[i].id = new[j].id PROVE i = j
    BY <1>5 DEF RegInv
  <2>1. CASE i = 1 \/ j = 1
    BY <1>5, <1>6, <1>7, <2>1
  <2>2. CASE i # 1 /\ j # 1
    <3>1. i - 1 \in 1 .. l /\ j - 1 \in 1 .. l /\ reg[i - 1].id = reg[j - 1].id
      BY <1>6, <2>2
    <3>2. i - 1 = j - 1
      BY <1>2, <3>1
    <3> QED
      BY <1>2, <3>2
  <2> QED
    BY <2>1, <2>2
<1>9. On(table, x.id) = {}
  <2> SUFFICES ASSUME NEW s \in Proc \X (1 .. MaxCap), Uses(table, s[1], s[2], x.id) PROVE FALSE
    BY DEF On
  <2>1. s[1] \in Proc /\ s[2] \in 1 .. Len(table[s[1]]) /\ table[s[1]][s[2]] # None /\ table[s[1]][s[2]].id = x.id
    BY DEF Uses
  <2>2. Leads(reg, table[s[1]][s[2]])
    BY <1>a, <2>1 DEF ShmInv, RefInv
  <2> QED
    BY <1>7, <1>a, <2>1, <2>2 DEF Leads
<1>10. \A j \in 1 .. l + 1 : new[j].ref = Cardinality(On(table, new[j].id))
  <2> SUFFICES ASSUME NEW j \in 1 .. l + 1 PROVE new[j].ref = Cardinality(On(table, new[j].id))
    OBVIOUS
  <2>1. CASE j = 1
    BY <1>4, <1>5, <1>9, <2>1, FS_EmptySet
  <2>2. CASE j # 1
    <3>1. j - 1 \in 1 .. l /\ new[j] = reg[j - 1]
      BY <1>6, <2>2
    <3> QED
      BY <1>a, <3>1 DEF ShmInv, RefInv
  <2> QED
    BY <2>1, <2>2
<1>11. \A q \in Proc : \A k \in 1 .. Len(table[q]) : table[q][k] # None => Leads(new, table[q][k])
  <2>1. ASSUME NEW y, Leads(reg, y)
        PROVE  Leads(new, y)
    <3>1. PICK i \in 1 .. l : reg[i].id = y.id /\ reg[i].base = y.base /\ reg[i].count = y.count
      BY <1>a, <2>1 DEF Leads
    <3>2. i + 1 \in 1 .. Len(new) /\ new[i + 1] = reg[i]
      BY <1>2, <1>5
    <3> QED
      BY <3>1, <3>2 DEF Leads
  <2> QED
    BY <1>a, <2>1 DEF ShmInv, RefInv
<1>12. RefInv(new, table)
  BY <1>5, <1>8, <1>10, <1>11 DEF RefInv, ShmInv
<1>13. \A i \in 1 .. Len(new) : new[i].id <= region_c + 1
  <2> SUFFICES ASSUME NEW i \in 1 .. l + 1 PROVE new[i].id <= region_c + 1
    BY <1>5
  <2>1. CASE i = 1
    BY <1>2, <1>4, <1>5, <2>1
  <2>2. CASE i # 1
    <3>1. i - 1 \in 1 .. l /\ new[i] = reg[i - 1]
      BY <1>6, <2>2
    <3> QED
      BY <1>2, <3>1
  <2> QED
    BY <2>1, <2>2
<1>14. NextId(g_next_shm_id) \in Ids /\ (region_c + 1 < IdSpace => NextId(g_next_shm_id) = region_c + 1 + 1)
  BY <1>2, <1>3 DEF NextId, Ids
<1>b. PICK r, tb, rc, g2 : r = region' /\ tb = table' /\ rc = region_c' /\ g2 = g_next_shm_id'
  OBVIOUS
<1>15. /\ RefInv(r, tb) /\ rc \in Nat /\ \A i \in 1 .. Len(r) : r[i].id <= rc
       /\ (rc < IdSpace => g2 = rc + 1) /\ g2 \in Ids
  <2>1. r = new /\ tb = table /\ rc = region_c + 1 /\ g2 = NextId(g_next_shm_id)
    BY <1>3, <1>a, <1>b
  <2> QED
    BY <1>2, <1>12, <1>13, <1>14, <2>1
<1>16. ShmInv'
  BY <1>1, <1>3, <1>15, <1>b DEF ShmInv
<1>17. ASSUME PageInv(region, free, other)
       PROVE  PageInv(region', free', other')
  <2>1. /\ free' \subseteq Page /\ other' \subseteq Page /\ free' \cap other' = {} /\ g \notin other
        /\ g \notin free' /\ free' \subseteq free /\ other' = other
    BY <1>1, <1>3, <1>17 DEF PageInv
  <2>2. \A i \in 1 .. l : reg[i].base \notin free \cup other /\ reg[i].base # g
    BY <1>17, <1>a DEF PageInv
  <2>3. \A i \in 1 .. l + 1 : new[i].base \notin free' \cup other'
    <3> SUFFICES ASSUME NEW i \in 1 .. l + 1 PROVE new[i].base \notin free' \cup other'
      OBVIOUS
    <3>1. CASE i = 1
      BY <1>4, <1>5, <2>1, <3>1
    <3>2. CASE i # 1
      <4>1. i - 1 \in 1 .. l /\ new[i] = reg[i - 1]
        BY <1>6, <3>2
      <4> QED
        BY <2>1, <2>2, <4>1
    <3> QED
      BY <3>1, <3>2
  <2>4. \A i, j \in 1 .. l : reg[i].base = reg[j].base => i = j
    BY <1>17, <1>a DEF PageInv
  <2>5. ASSUME NEW i \in 1 .. l + 1, NEW j \in 1 .. l + 1, new[i].base = new[j].base
        PROVE  i = j
    <3>1. CASE i = 1 \/ j = 1
      BY <1>4, <1>5, <1>6, <2>2, <2>5, <3>1
    <3>2. CASE i # 1 /\ j # 1
      <4>1. i - 1 \in 1 .. l /\ j - 1 \in 1 .. l /\ reg[i - 1].base = reg[j - 1].base
        BY <1>6, <2>5, <3>2
      <4>2. i - 1 = j - 1
        BY <2>4, <4>1
      <4> QED
        BY <1>2, <4>2
    <3> QED
      BY <3>1, <3>2
  <2> QED
    BY <1>5, <1>a, <2>1, <2>3, <2>5 DEF PageInv
<1> QED
  BY <1>16, <1>17

LEMMA ShmInitOk ==
  ASSUME ShmemAssumption, IsFiniteSet(Proc), ShmInit
  PROVE  ShmInv /\ PageInv(region, free, other)
<1>1. region = << >> /\ Len(region) = 0 /\ region \in Seq(Regions)
  BY DEF ShmInit
<1>2. table \in [Proc -> Seq(Slots)] /\ \A p \in Proc : table[p] = << >> /\ Len(table[p]) = 0
  BY DEF ShmInit
<1>3. TabInv(table) /\ RegInv(region)
  BY <1>1, <1>2 DEF TabInv, RegInv, ShmemAssumption
<1>4. RefInv(region, table)
  BY <1>1, <1>2, <1>3 DEF RefInv
<1>5. free = Page /\ other = {} /\ region_c = 0 /\ g_next_shm_id = 1
  BY DEF ShmInit
<1>6. IdSpace \in Nat \ {0} /\ 1 \in Ids
  BY DEF ShmemAssumption, Ids
<1> QED
  BY <1>1, <1>4, <1>5, <1>6 DEF ShmInv, PageInv

\* What does not touch the tables and drops regions only.
LEMMA FewerKeep ==
  ASSUME ShmemAssumption, ShmInv, NEW reg, NEW tab, RefInv(reg, tab), Kept(reg, region)
  PROVE  \A i \in 1 .. Len(reg) : reg[i].id <= region_c
BY DEF ShmInv, Kept

PagedNow == PageCounts = {1} /\ PageInv(region, free, other)
LEMMA ShmStepKeeps ==
  ASSUME ShmemAssumption, MaxRegion <= IdSpace, IsFiniteSet(Proc), ShmInv, [ShmNext]_shmVars
  PROVE  ShmInv' /\ (PagedNow => PagedNow')
<1>0. RefInv(region, table)
  BY DEF ShmInv
<1>1. CASE UNCHANGED shmVars
  BY <1>1 DEF shmVars, ShmInv, PagedNow, PageInv
<1>2. CASE OtherAlloc
  <2>1. PICK g \in free : free' = free \ {g} /\ other' = other \cup {g}
    BY <1>2 DEF OtherAlloc
  <2>2. UNCHANGED <<region, region_c, g_next_shm_id, table>>
    BY <1>2 DEF OtherAlloc
  <2>3. free' \subseteq Page /\ other' \subseteq Page
    BY <2>1 DEF ShmInv
  <2>4. ShmInv'
    BY <2>2, <2>3 DEF ShmInv
  <2>5. free' \cup other' = free \cup other /\ (free \cap other = {} => free' \cap other' = {})
    BY <2>1
  <2> QED
    BY <2>2, <2>3, <2>4, <2>5 DEF PagedNow, PageInv
<1>3. CASE OtherFree
  <2>1. PICK g \in other : free' = free \cup {g} /\ other' = other \ {g}
    BY <1>3 DEF OtherFree
  <2>2. UNCHANGED <<region, region_c, g_next_shm_id, table>>
    BY <1>3 DEF OtherFree
  <2>3. free' \subseteq Page /\ other' \subseteq Page
    BY <2>1 DEF ShmInv
  <2>4. ShmInv'
    BY <2>2, <2>3 DEF ShmInv
  <2>5. free' \cup other' = free \cup other /\ (free \cap other = {} => free' \cap other' = {})
    BY <2>1
  <2> QED
    BY <2>2, <2>3, <2>4, <2>5 DEF PagedNow, PageInv
<1>4. ASSUME NEW n \in PageCounts, Create(n)
      PROVE  ShmInv' /\ (PagedNow => PagedNow')
  BY <1>4, CreateKeeps DEF PagedNow
<1>5. ASSUME NEW p \in Proc, NEW id, AttachProc(p, id), UNCHANGED <<free, other, region_c, g_next_shm_id>>
      PROVE  ShmInv' /\ (PagedNow => PagedNow')
  <2>a. PICK reg, tab : reg = region' /\ tab = table'
    OBVIOUS
  <2>1. RefInv(reg, tab) /\ Kept(reg, region)
    BY <1>0, <1>5, <2>a, AttachKeeps
  <2>2. \A i \in 1 .. Len(reg) : reg[i].id <= region_c
    BY <2>1, FewerKeep
  <2>3. ShmInv'
    BY <1>5, <2>1, <2>2, <2>a DEF ShmInv
  <2>4. ASSUME PagedNow
        PROVE  PagedNow'
    <3>1. PageInv(reg, free \cup ({} \cap Page), other)
      <4>1. RegInv(reg) /\ RegInv(region) /\ Returned({}, reg, region) /\ PageCounts = {1} /\ PageInv(region, free, other)
        BY <1>0, <2>1, <2>4 DEF RefInv, Returned, PagedNow
      <4> QED
        BY <2>1, <4>1, PagesKept
    <3>2. free \cup ({} \cap Page) = free
      OBVIOUS
    <3> QED
      BY <1>5, <2>4, <2>a, <3>1, <3>2 DEF PagedNow
  <2> QED
    BY <2>3, <2>4
<1>6. ASSUME NEW p \in Proc, ShmCreateAttach(p)
      PROVE  ShmInv' /\ (PagedNow => PagedNow')
  BY <1>5, <1>6 DEF ShmCreateAttach
<1>7. ASSUME NEW p \in Proc, NEW id \in Ids, ShmAttach(p, id)
      PROVE  ShmInv' /\ (PagedNow => PagedNow')
  BY <1>5, <1>7 DEF ShmAttach
<1>8. ASSUME NEW p \in Proc, NEW h \in Active(p), ShmDetach(p, h)
      PROVE  ShmInv' /\ (PagedNow => PagedNow')
  <2>a. PICK d, tab : d = Dropped(region, table[p][h].id) /\ tab = [table EXCEPT ![p][h] = None]
    OBVIOUS
  <2>1. /\ table' = tab /\ region' = d.reg /\ free' = free \cup (d.pages \cap Page)
        /\ UNCHANGED <<other, region_c, g_next_shm_id>>
    BY <1>8, <2>a DEF ShmDetach
  <2>2. h \in 1 .. Len(table[p]) /\ table[p][h] # None
    <3>1. table[p] \in Seq(Slots)
      BY <1>0 DEF RefInv, TabInv
    <3> QED
      BY <3>1 DEF Active
  <2>3. IsDropped(d, region, tab)
    BY <1>0, <2>2, <2>a, DropKeeps
  <2>4. RefInv(d.reg, tab) /\ Kept(d.reg, region) /\ Returned(d.pages, d.reg, region)
    BY <2>3 DEF IsDropped
  <2>5. \A i \in 1 .. Len(d.reg) : d.reg[i].id <= region_c
    BY <2>4, FewerKeep
  <2>6. free' \subseteq Page /\ other' \subseteq Page
    BY <2>1 DEF ShmInv
  <2>7. ShmInv'
    BY <2>1, <2>4, <2>5, <2>6 DEF ShmInv
  <2>8. ASSUME PagedNow
        PROVE  PagedNow'
    <3>1. PageInv(d.reg, free \cup (d.pages \cap Page), other)
      <4>1. RegInv(d.reg) /\ RegInv(region) /\ PageCounts = {1} /\ PageInv(region, free, other)
        BY <1>0, <2>4, <2>8 DEF RefInv, PagedNow
      <4> QED
        BY <2>4, <4>1, PagesKept
    <3> QED
      BY <2>1, <2>8, <3>1 DEF PagedNow
  <2> QED
    BY <2>7, <2>8
<1>9. ASSUME NEW p \in Proc, ProcessCleanup(p)
      PROVE  ShmInv' /\ (PagedNow => PagedNow')
  <2>a. PICK d, tab : d = AllDropped(table[p]) /\ tab = [table EXCEPT ![p] = << >>]
    OBVIOUS
  <2>1. /\ table' = tab /\ region' = d.reg /\ free' = free \cup (d.pages \cap Page)
        /\ UNCHANGED <<other, region_c, g_next_shm_id>>
    BY <1>9, <2>a DEF ProcessCleanup
  <2>2. /\ RefInv(d.reg, tab) /\ Kept(d.reg, region)
        /\ (PagedNow => PageInv(d.reg, free \cup (d.pages \cap Page), other))
    BY <1>0, <2>a, CleanupKeeps DEF PagedNow
  <2>3. \A i \in 1 .. Len(d.reg) : d.reg[i].id <= region_c
    BY <2>2, FewerKeep
  <2>4. free' \subseteq Page /\ other' \subseteq Page
    BY <2>1 DEF ShmInv
  <2>5. ShmInv'
    BY <2>1, <2>2, <2>3, <2>4 DEF ShmInv
  <2> QED
    BY <2>1, <2>2, <2>5 DEF PagedNow
<1>10. ASSUME NEW p \in Proc, Respawn(p)
       PROVE  ShmInv' /\ (PagedNow => PagedNow')
  BY <1>10 DEF Respawn, ShmInv, PagedNow
<1>11. ShmNext => \/ OtherAlloc \/ OtherFree \/ (\E n \in PageCounts : Create(n))
                  \/ \E p \in Proc : \/ ShmCreateAttach(p) \/ ProcessCleanup(p) \/ Respawn(p)
                                     \/ \E id \in Ids : ShmAttach(p, id)
                                     \/ \E h \in Active(p) : ShmDetach(p, h)
  BY DEF ShmNext, ShellCreate, ShmCreate
<1> QED
  BY <1>1, <1>2, <1>3, <1>4, <1>6, <1>7, <1>8, <1>9, <1>10, <1>11

\* What the counts and the pages say of the registry.
LEMMA ShmInvGives ==
  ASSUME ShmemAssumption, ShmInv
  PROVE  /\ RefCountExact /\ HandlesLive
         /\ PagedNow => PagesExclusive
<1>1. /\ RegInv(region) /\ TabInv(table) /\ DOMAIN region = 1 .. Len(region)
      /\ \A i \in 1 .. Len(region) : region[i].ref = Cardinality(On(table, region[i].id))
      /\ \A p \in Proc : \A h \in 1 .. Len(table[p]) : table[p][h] # None => Leads(region, table[p][h])
  BY RegAre DEF ShmInv, RefInv
<1>2. \A p \in Proc : Active(p) = {h \in 1 .. Len(table[p]) : table[p][h] # None}
  BY <1>1 DEF Active, TabInv
<1>3. RefCountExact
  <2>1. ASSUME NEW id
        PROVE  On(table, id) = {s \in Proc \X (1 .. MaxCap) : s[2] \in Active(s[1]) /\ table[s[1]][s[2]].id = id}
    <3>1. \A s \in Proc \X (1 .. MaxCap) :
            Uses(table, s[1], s[2], id) <=> s[2] \in Active(s[1]) /\ table[s[1]][s[2]].id = id
      BY <1>2 DEF Uses
    <3> QED
      BY <3>1 DEF On
  <2>2. ASSUME NEW i \in DOMAIN region
        PROVE  region[i].ref = Cardinality({s \in Proc \X (1 .. MaxCap) :
                                             s[2] \in Active(s[1]) /\ table[s[1]][s[2]].id = region[i].id})
    <3>1. region[i].ref = Cardinality(On(table, region[i].id))
      BY <1>1
    <3>2. On(table, region[i].id) = {s \in Proc \X (1 .. MaxCap) :
                                       s[2] \in Active(s[1]) /\ table[s[1]][s[2]].id = region[i].id}
      BY <2>1
    <3> QED
      BY <3>1, <3>2, Zenon
  <2> QED
    BY <2>2, Zenon DEF RefCountExact
<1>4. ASSUME NEW p \in Proc, NEW h \in Active(p)
      PROVE  \E i \in 1 .. Len(region) : /\ i = Find(region, table[p][h].id) /\ region[i].base = table[p][h].base
                                         /\ region[i].count = table[p][h].count
  <2>1. PICK i \in 1 .. Len(region) : /\ region[i].id = table[p][h].id /\ region[i].base = table[p][h].base
                                      /\ region[i].count = table[p][h].count
    BY <1>1, <1>2 DEF Leads
  <2>2. i = Find(region, table[p][h].id)
    BY <1>1, <2>1, FindIs
  <2> QED
    BY <2>1, <2>2
<1>5. HandlesLive
  <2>1. \A i \in 1 .. Len(region) : i # 0
    OBVIOUS
  <2> QED
    BY <1>4, <2>1 DEF HandlesLive
<1>6. ASSUME PagedNow
      PROVE  PagesExclusive
  <2>1. ASSUME NEW p \in Proc, NEW h \in Active(p)
        PROVE  PagesOf(table[p][h]) \cap (free \cup other) = {}
    <3>1. PICK i \in 1 .. Len(region) : region[i].base = table[p][h].base /\ region[i].count = table[p][h].count
      BY <1>4
    <3>2. region[i].count = 1 /\ region[i].base \in Nat /\ region[i].base \notin free \cup other
      BY <1>1, <1>6, RegAre DEF PagedNow, PageInv
    <3>3. PagesOf(table[p][h]) = {region[i].base}
      BY <3>1, <3>2 DEF PagesOf
    <3> QED
      BY <3>2, <3>3
  <2> QED
    BY <1>1, <1>6, <2>1 DEF PagesExclusive, PagedNow, PageInv
<1> QED
  BY <1>3, <1>5, <1>6

\* Before the ids wrap, a region counts exactly the handles on it and every handle
\* leads to its region, for any number of processes, whatever the page counts.
THEOREM CountsKept ==
  ASSUME MaxRegion <= IdSpace, IsFiniteSet(Proc)
  PROVE  ShmSpec => [](RefCountExact /\ HandlesLive)
<1>1. ShmInit => ShmInv
  BY ShmInitOk, ShmemAssumption
<1>2. ShmInv /\ [ShmNext]_shmVars => ShmInv'
  BY ShmStepKeeps, ShmemAssumption
<1>3. ShmInv => RefCountExact /\ HandlesLive
  BY ShmInvGives, ShmemAssumption
<1> QED
  BY <1>1, <1>2, <1>3, PTL DEF ShmSpec

\* With regions of one page, the page of a region is also nobody else's.  With
\* more pages it is not: shmem_create_region takes one from the pool.
THEOREM RegionsKept ==
  ASSUME MaxRegion <= IdSpace, IsFiniteSet(Proc), PageCounts = {1}
  PROVE  ShmSpec => []RegionsCounted
<1>1. ShmInit => ShmInv /\ PagedNow
  BY ShmInitOk, ShmemAssumption DEF PagedNow
<1>2. (ShmInv /\ PagedNow) /\ [ShmNext]_shmVars => (ShmInv /\ PagedNow)'
  BY ShmStepKeeps, ShmemAssumption
<1>3. ShmInv /\ PagedNow => RegionsCounted
  BY ShmInvGives, ShmemAssumption DEF RegionsCounted
<1> QED
  BY <1>1, <1>2, <1>3, PTL DEF ShmSpec
==============================================================================

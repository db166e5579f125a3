------------------------------ MODULE KernWasm ------------------------------
(* How a WASM program is loaded, run and taken down: wasm_spawn,             *)
(* wasm_thread_entry, the parse cache and the clean-up hook                  *)
(* wasm_proc_cleanup of wasm_spawn.c.  The threads run with interrupts       *)
(* enabled, so a thread is preempted, or killed by another task, between any *)
(* two of its steps; the reaper runs the hook with interrupts masked.        *)
(*                                                                           *)
(* An object of the kernel heap is named by its kind and the spawn it was    *)
(* made for, and heap says whether it is live, freed or freed twice.  What   *)
(* a module contains is reduced to its names: the strings m3_FreeModule      *)
(* frees with it.                                                            *)
EXTENDS Naturals, Sequences, FiniteSets

CONSTANTS
  Spawns,      \* calls of wasm_spawn, each made at most once
  Files,       \* contents of .wasm files; equal contents have equal hashes
  Null,
  MaxOpen,     \* bound: spawns that are under way at once
  MaxFaults    \* bound: allocations that fail and threads that are killed

Fields == {"runtime", "env", "data", "path"}
Kinds == Fields \cup {"args", "master", "clone", "masterNames", "cloneNames", "entry"}

ASSUME NullAssumption == Null \notin Spawns /\ Null \notin Kinds

Objects == Kinds \X Spawns

VARIABLES
  serial,      \* whether each spawn waits for the previous one to be gone
  faults,      \* allocations that failed and threads that were killed
  pc,          \* where the thread of a spawn is
  file,        \* what the spawn loads
  heap,        \* state of every object
  ra,          \* per spawn, the fields of wasm_run_args_t that are not null
  loc,         \* per spawn, the local copies of wasm_thread_entry that are not null
  module,      \* per spawn, the kind of the module it loads, or Null
  loaded,      \* spawns whose module the runtime owns
  from,        \* per spawn, the cache entry its clone was made of, or Null
  cache,       \* g_wasm_parse_cache, the spawns that made its entries in list order
  tail,        \* per spawn, the entries that follow the one it made
  killed,      \* spawns killed by another task
  cut          \* spawns killed between releasing something and forgetting it
wasmVars == <<serial, faults, pc, file, heap, ra, loc, module, loaded, from, cache, tail, killed, cut>>

WasmInit ==
  /\ serial \in BOOLEAN
  /\ faults = 0
  /\ pc = [p \in Spawns |-> "unborn"]
  /\ file = [p \in Spawns |-> Null]
  /\ heap = [o \in Objects |-> "none"]
  /\ ra = [p \in Spawns |-> {}]
  /\ loc = [p \in Spawns |-> {}]
  /\ module = [p \in Spawns |-> Null]
  /\ loaded = {}
  /\ from = [p \in Spawns |-> Null]
  /\ cache = <<>>
  /\ tail = [p \in Spawns |-> <<>>]
  /\ killed = {}
  /\ cut = {}

(* The heap with the objects objs allocated, or freed.                       *)
New(objs) == [o \in Objects |-> IF o \in objs THEN "live" ELSE heap[o]]
Free(objs) == [o \in Objects |->
                 IF o \notin objs THEN heap[o]
                 ELSE IF heap[o] = "live" THEN "freed" ELSE "twice"]

Fault == faults < MaxFaults /\ faults' = faults + 1
Goto(p, l) == pc' = [pc EXCEPT ![p] = l]

(* Where a thread has released something that ra, or its locals, still name. *)
Windows == {"envNull", "hitNull", "handOver"}
             \cup {"null_runtime", "null_env", "null_data", "null_path"}

Gone(p) == pc[p] = "gone"

(* The entries wasm_parse_cache_lookup can reach.                            *)
Cached == {cache[i] : i \in DOMAIN cache}
Hit(f) == \E e \in Cached : file[e] = f
First(f) == CHOOSE e \in Cached :
  \E i \in DOMAIN cache : /\ cache[i] = e /\ file[e] = f
                         /\ \A j \in 1..(i-1) : file[cache[j]] # f

-----------------------------------------------------------------------------
(* wasm_spawn: the arguments and the copy of the path; on failure of the     *)
(* thread process_exit runs the hook at once.                                *)
SpawnBegin(p, f) ==
  /\ pc[p] = "unborn"
  /\ Cardinality({q \in Spawns : pc[q] \notin {"unborn", "gone"}}) < IF serial THEN 1 ELSE MaxOpen
  /\ file' = [file EXCEPT ![p] = f]
  /\ \/ /\ Goto(p, "open")
        /\ heap' = New({<<"args", p>>, <<"path", p>>})
        /\ ra' = [ra EXCEPT ![p] = {"path"}]
        /\ UNCHANGED faults
     \/ /\ Fault
        /\ Goto(p, "dead")
        /\ heap' = New({<<"args", p>>, <<"path", p>>})
        /\ ra' = [ra EXCEPT ![p] = {"path"}]
     \/ /\ Fault
        /\ Goto(p, "gone")
        /\ UNCHANGED <<heap, ra>>
  /\ UNCHANGED <<serial, loc, module, loaded, from, cache, tail, killed, cut>>

(* Opening and reading the file.                                             *)
LoadFile(p) ==
  /\ pc[p] = "open"
  /\ \/ /\ Goto(p, "env")
        /\ heap' = New({<<"data", p>>})
        /\ ra' = [ra EXCEPT ![p] = @ \cup {"data"}]
        /\ loc' = [loc EXCEPT ![p] = @ \cup {"data"}]
     \/ /\ Goto(p, "free_runtime")
        /\ UNCHANGED <<heap, ra, loc>>
  /\ UNCHANGED <<serial, faults, file, module, loaded, from, cache, tail, killed, cut>>

(* The environment of this runtime.  The shared one for parsing is made on   *)
(* first use and never freed; that two threads may each make one is left out.*)
NewEnvironment(p) ==
  /\ pc[p] = "env"
  /\ \/ /\ Goto(p, "runtime")
        /\ heap' = New({<<"env", p>>})
        /\ ra' = [ra EXCEPT ![p] = @ \cup {"env"}]
        /\ loc' = [loc EXCEPT ![p] = @ \cup {"env"}]
        /\ UNCHANGED faults
     \/ /\ Fault
        /\ Goto(p, "free_runtime")
        /\ UNCHANGED <<heap, ra, loc>>
  /\ UNCHANGED <<serial, file, module, loaded, from, cache, tail, killed, cut>>

NewRuntime(p) ==
  /\ pc[p] = "runtime"
  /\ Goto(p, "lookup")
  /\ heap' = New({<<"runtime", p>>})
  /\ ra' = [ra EXCEPT ![p] = @ \cup {"runtime"}]
  /\ loc' = [loc EXCEPT ![p] = @ \cup {"runtime"}]
  /\ UNCHANGED <<serial, faults, file, module, loaded, from, cache, tail, killed, cut>>

(* Without memory for the runtime the environment is freed here, but the     *)
(* local env keeps it.                                                       *)
NewRuntimeFails(p) ==
  /\ pc[p] = "runtime" /\ Fault
  /\ Goto(p, "envNull")
  /\ heap' = Free({<<"env", p>>})
  /\ UNCHANGED <<serial, file, ra, loc, module, loaded, from, cache, tail, killed, cut>>

EnvNull(p) ==
  /\ pc[p] = "envNull"
  /\ Goto(p, "free_runtime")
  /\ ra' = [ra EXCEPT ![p] = @ \ {"env"}]
  /\ UNCHANGED <<serial, faults, file, heap, loc, module, loaded, from, cache, tail, killed, cut>>

-----------------------------------------------------------------------------
(* A faulty variant: the lookup compares nothing but the head's hash.        *)
LookupHead(p) ==
  /\ pc[p] = "lookup"
  /\ IF cache # <<>> /\ file[Head(cache)] = file[p]
     THEN Goto(p, "hit") /\ from' = [from EXCEPT ![p] = Head(cache)]
     ELSE Goto(p, "parse") /\ UNCHANGED from
  /\ UNCHANGED <<serial, faults, file, heap, ra, loc, module, loaded, cache, tail, killed, cut>>

(* wasm_parse_cache_lookup: the first entry with this hash.                  *)
Lookup(p) ==
  /\ pc[p] = "lookup"
  /\ IF Hit(file[p])
     THEN Goto(p, "hit") /\ from' = [from EXCEPT ![p] = First(file[p])]
     ELSE Goto(p, "parse") /\ UNCHANGED from
  /\ UNCHANGED <<serial, faults, file, heap, ra, loc, module, loaded, cache, tail, killed, cut>>

HitFree(p) ==
  /\ pc[p] = "hit"
  /\ Goto(p, "hitNull")
  /\ heap' = Free({<<"data", p>>})
  /\ UNCHANGED <<serial, faults, file, ra, loc, module, loaded, from, cache, tail, killed, cut>>

HitNull(p) ==
  /\ pc[p] = "hitNull"
  /\ Goto(p, "clone")
  /\ ra' = [ra EXCEPT ![p] = @ \ {"data"}]
  /\ loc' = [loc EXCEPT ![p] = @ \ {"data"}]
  /\ UNCHANGED <<serial, faults, file, heap, module, loaded, from, cache, tail, killed, cut>>

ParseModule(p) ==
  /\ pc[p] = "parse"
  /\ \/ /\ Goto(p, "insert")
        /\ heap' = New({<<"master", p>>, <<"masterNames", p>>})
     \/ Goto(p, "free_runtime") /\ UNCHANGED heap     \* parse error
  /\ UNCHANGED <<serial, faults, file, ra, loc, module, loaded, from, cache, tail, killed, cut>>

(* wasm_parse_cache_insert up to e->next = g_wasm_parse_cache.               *)
InsertFill(p) ==
  /\ pc[p] = "insert"
  /\ \/ /\ Goto(p, "link")
        /\ heap' = New({<<"entry", p>>})
        /\ tail' = [tail EXCEPT ![p] = cache]
        /\ UNCHANGED module
        /\ UNCHANGED faults
     \/ /\ Fault
        /\ Goto(p, "load")
        /\ module' = [module EXCEPT ![p] = "master"]
        /\ UNCHANGED <<heap, tail>>
  /\ UNCHANGED <<serial, file, ra, loc, loaded, from, cache, killed, cut>>

InsertLink(p) ==
  /\ pc[p] = "link"
  /\ Goto(p, "handOver")
  /\ cache' = <<p>> \o tail[p]
  /\ tail' = [tail EXCEPT ![p] = <<>>]     \* in the cache now
  /\ from' = [from EXCEPT ![p] = p]
  /\ UNCHANGED <<serial, faults, file, heap, ra, loc, module, loaded, killed, cut>>

(* The bytes belong to the cache now.                                        *)
HandOver(p) ==
  /\ pc[p] = "handOver"
  /\ Goto(p, "clone")
  /\ ra' = [ra EXCEPT ![p] = @ \ {"data"}]
  /\ loc' = [loc EXCEPT ![p] = @ \ {"data"}]
  /\ UNCHANGED <<serial, faults, file, heap, module, loaded, from, cache, tail, killed, cut>>

-----------------------------------------------------------------------------
(* The strings m3_FreeModule frees with the module of p: wasm_clone_module   *)
(* copies every string of the master.                                        *)
NamesOf(p) == IF module[p] = "master" THEN <<"masterNames", p>> ELSE <<"cloneNames", p>>
Loaded(p) == {<<module[p], p>>, NamesOf(p)}

CloneModule(p) ==
  /\ pc[p] = "clone"
  /\ \/ /\ Goto(p, "load")
        /\ heap' = New({<<"clone", p>>, <<"cloneNames", p>>})
        /\ module' = [module EXCEPT ![p] = "clone"]
        /\ UNCHANGED faults
     \/ Fault /\ Goto(p, "free_runtime") /\ UNCHANGED <<heap, module>>
  /\ UNCHANGED <<serial, file, ra, loc, loaded, from, cache, tail, killed, cut>>

(* m3_LoadModule gives the module to the runtime, or it is freed.            *)
LoadModule(p) ==
  /\ pc[p] = "load"
  /\ \/ Goto(p, "run") /\ loaded' = loaded \cup {p} /\ UNCHANGED <<heap, module>>
     \/ /\ Goto(p, "free_runtime")
        /\ heap' = Free(Loaded(p))
        /\ module' = [module EXCEPT ![p] = Null]
        /\ UNCHANGED loaded
  /\ UNCHANGED <<serial, faults, file, ra, loc, from, cache, tail, killed, cut>>

(* Linking the imports, _start, and its return, trap or proc_exit.           *)
Start(p) ==
  /\ pc[p] = "run"
  /\ Goto(p, "free_runtime")
  /\ UNCHANGED <<serial, faults, file, heap, ra, loc, module, loaded, from, cache, tail, killed, cut>>

-----------------------------------------------------------------------------
(* A faulty variant: a freed runtime leaves its modules.                     *)
WithAlone(p, f) == {<<f, p>>}

(* What freeing one field of ra frees: m3_FreeRuntime takes the modules it   *)
(* was given with it.                                                        *)
With(p, f) ==
  {<<f, p>>} \cup (IF f = "runtime" /\ p \in loaded THEN Loaded(p) ELSE {})

(* The label that follows each of the four tests at Label_Done.              *)
After == [runtime |-> "free_env", env |-> "free_data", data |-> "free_path", path |-> "done"]
FreeAt == [runtime |-> "free_runtime", env |-> "free_env", data |-> "free_data", path |-> "free_path"]
NullAt == [runtime |-> "null_runtime", env |-> "null_env", data |-> "null_data", path |-> "null_path"]

(* What Label_Done tests: a local, and for the path the field itself.        *)
Held(p, f) == IF f = "path" THEN f \in ra[p] ELSE f \in loc[p]

DoneFree(p) ==
  \E f \in Fields :
    /\ pc[p] = FreeAt[f]
    /\ IF Held(p, f)
       THEN Goto(p, NullAt[f]) /\ heap' = Free(With(p, f))
       ELSE Goto(p, After[f]) /\ UNCHANGED heap
    /\ UNCHANGED <<serial, faults, file, ra, loc, module, loaded, from, cache, tail, killed, cut>>

(* Each slot is nulled after it is freed, for the hook.                     *)
DoneNull(p) ==
  \E f \in Fields :
    /\ pc[p] = NullAt[f]
    /\ Goto(p, After[f])
    /\ ra' = [ra EXCEPT ![p] = @ \ {f}]
    /\ UNCHANGED <<serial, faults, file, heap, loc, module, loaded, from, cache, tail, killed, cut>>

(* sched_kill_process by another task, Ctrl+C among them.                    *)
Kill(p) ==
  /\ pc[p] \notin {"unborn", "dead", "done", "gone"}
  /\ Fault
  /\ Goto(p, "dead")
  /\ killed' = killed \cup {p}
  /\ cut' = IF pc[p] \in Windows THEN cut \cup {p} ELSE cut
  /\ UNCHANGED <<serial, file, heap, ra, loc, module, loaded, from, cache, tail>>

(* process_exit: wasm_proc_cleanup frees what ra still names, and ra itself. *)
Named(p) == (UNION {With(p, f) : f \in ra[p]}) \cup {<<"args", p>>}

Cleanup(p) ==
  /\ pc[p] \in {"done", "dead"}
  /\ Goto(p, "gone")
  /\ heap' = Free(Named(p))
  /\ ra' = [ra EXCEPT ![p] = {}]          \* freed, like the stack
  /\ loc' = [loc EXCEPT ![p] = {}]
  /\ module' = [module EXCEPT ![p] = Null]
  /\ from' = [from EXCEPT ![p] = Null]
  /\ loaded' = loaded \ {p}
  /\ UNCHANGED <<serial, faults, file, cache, tail, killed, cut>>

Step(p) ==
  \/ \E f \in Files : SpawnBegin(p, f)
  \/ LoadFile(p) \/ NewEnvironment(p) \/ NewRuntime(p) \/ NewRuntimeFails(p) \/ EnvNull(p)
  \/ Lookup(p) \/ HitFree(p) \/ HitNull(p)
  \/ ParseModule(p) \/ InsertFill(p) \/ InsertLink(p) \/ HandOver(p)
  \/ CloneModule(p) \/ LoadModule(p) \/ Start(p)
  \/ DoneFree(p) \/ DoneNull(p) \/ Kill(p) \/ Cleanup(p)

WasmNext == \E p \in Spawns : Step(p)

WasmSpec == WasmInit /\ [][WasmNext]_wasmVars

-----------------------------------------------------------------------------
(* No object of the heap is freed twice: not by the code at Label_Done and   *)
(* the hook together, whenever the thread is killed (wasm_proc_cleanup: "all *)
(* those pointers are null, so the if-guards skip them").  Two cases are     *)
(* excepted: a kill between a release and the assignment that forgets it     *)
(* (cut), and an environment whose runtime could not be made: it is freed at  *)
(* once and again at Label_Done, which tests a local that still names it.    *)
FreedOnce ==
  \A p \in Spawns : \A k \in Kinds :
    heap[<<k, p>>] = "twice" => p \in cut \/ (k = "env" /\ heap[<<"runtime", p>>] = "none")

(* What the cache can return, and what a running program runs from, is live: *)
(* the bytes of an entry, its master and the master's strings outlive every  *)
(* clone, and freeing a clone never takes the strings of the master.  Only a *)
(* kill between the insertion and the hand-over of the bytes breaks this.    *)
Live(objs) == \A o \in objs : heap[o] = "live"
UsesLive ==
  /\ \A e \in Cached \ cut :
       Live({<<"entry", e>>, <<"data", e>>, <<"master", e>>, <<"masterNames", e>>})
  /\ \A p \in Spawns : pc[p] = "run" =>
       /\ Live({<<"env", p>>, <<"runtime", p>>} \cup Loaded(p))
       /\ IF module[p] = "master" THEN Live({<<"data", p>>})
          ELSE from[p] \in cut \/ Live({<<"data", from[p]>>})

(* Over every failure, kill and later spawn, nothing is freed twice and       *)
(* nothing that a program or the cache uses is freed.                        *)
ModulesSafe == FreedOnce /\ UsesLive

(* A program that was not killed leaves nothing behind but what it gave to   *)
(* the cache, whichever of its steps failed.                                 *)
NothingLeaked ==
  \A p \in Spawns \ killed : Gone(p) =>
    \A k \in Kinds : heap[<<k, p>>] = "live" =>
      /\ heap[<<"entry", p>>] = "live"
      /\ k \in {"entry", "data", "master", "masterNames"}

(* The objects of programs: each is freed once, by its owner, and not before *)
(* its last use (wasm_thread_entry, proc_wasm_cleanup and the parse cache).  *)
ObjectsKept == ModulesSafe /\ NothingLeaked

(* "Each unique .wasm is parsed ONCE per boot": when each spawn waits for    *)
(* the one before, and memory lasts, no two entries have one hash, and a     *)
(* file that was parsed stays found unless its thread was killed before.     *)
ParsedOnce ==
  serial =>
    /\ \A i, j \in DOMAIN cache : file[cache[i]] = file[cache[j]] => i = j
    /\ \A p \in Spawns : heap[<<"entry", p>>] = "live" /\ p \notin killed /\ Gone(p)
                           => p \in Cached
==============================================================================

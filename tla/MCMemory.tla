------------------------------ MODULE MCMemory -------------------------------
(* What owns memory: the kernel heap, the shared memory regions, the address  *)
(* spaces, and the objects of a WASM program, each on an instance of its own. *)
(* They share no state here; each behaviour is one of one part.               *)
EXTENDS KernHeap, KernShmem, KernPaging, KernWasm, TLC
CONSTANTS f1, f2, u1, u2
VARIABLE part

(* Spawns and files are interchangeable: the spawns are made in the order of  *)
(* their numbers, the first one loads f1, and so does the third, which may    *)
(* find its file behind another one in the cache.                             *)
InOrder ==
  /\ \A p, q \in Spawns : p < q /\ pc[q] # "unborn" => pc[p] # "unborn"
  /\ {file[1], file[3]} \subseteq {f1, Null}

(* The two processes are interchangeable, and the second one gets one page,   *)
(* its own or the shared one.  One page of the screen is enough.              *)
SpacesInOrder ==
  /\ u2 \in live => u1 \in live
  /\ wc_virt_next <= WcBase + 1
  /\ heap_vptr[u2] <= HeapVirt + 1

MemoryInit == /\ HeapInit /\ ShmInit /\ PagingInit /\ WasmInit
              /\ part \in {"heap", "regions", "spaces", "programs"}
\* SpacesKept is evaluated where it can change: it walks all the tables.
EachSpaceKept == part = "spaces" => SpacesKept

MemoryNext ==
  /\ UNCHANGED part
  /\ \/ part = "heap" /\ HeapNext /\ UNCHANGED <<shmVars, pagingVars, wasmVars>>
     \/ part = "regions" /\ ShmNext /\ UNCHANGED <<heapVars, pagingVars, wasmVars>>
     \/ part = "spaces" /\ PagingNext /\ UNCHANGED <<heapVars, shmVars, wasmVars>>
     \/ part = "programs" /\ WasmNext /\ UNCHANGED <<heapVars, shmVars, pagingVars>>
MemorySpec == MemoryInit /\ [][MemoryNext]_<<heapVars, shmVars, pagingVars, wasmVars, part>>
==============================================================================

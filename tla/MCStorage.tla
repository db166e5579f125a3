------------------------------ MODULE MCStorage ------------------------------
(* The storage: the block cache, and the files of one directory on a disk of  *)
(* seven blocks of two words, each on an instance of its own.  They share no  *)
(* state here; each behaviour is one of one part.                             *)
EXTENDS BlockCache, KernFs
CONSTANT n1
VARIABLE part

(* Names are interchangeable: the first file created is n1.  A link is made   *)
(* beside that file, and there is one link.                                   *)
InOrder ==
  \A t \in Task : "name" \in DOMAIN op[t] =>
    IF op[t].name = n1 THEN op[t].kind = "file"
    ELSE /\ \E k \in DOMAIN dir : dir[k].name = n1
         /\ op[t].kind # "file" => Len(dir) = 1 \/ dir[2].ino = op[t].ino

StorageInit == /\ CacheInit /\ FsInit
               /\ part \in {"cache", "files"}
               /\ part # "cache" => \A b \in BlockNo : disk[b] = 0 /\ hash[b] = 0 /\ g_bc_target = 2
StorageNext ==
  /\ UNCHANGED part
  /\ \/ part = "cache" /\ CacheNext /\ UNCHANGED fsVars
     \/ part = "files" /\ FsNext /\ UNCHANGED cacheVars
StorageSpec == StorageInit /\ [][StorageNext]_<<cacheVars, fsVars, part>>
==============================================================================

-------------------------------- MODULE KernFs -------------------------------
(***************************************************************************)
(* Files: fs_create, fs_open, fs_close, fs_read, fs_write and fs_seek of   *)
(* kern_fs.c, and the creation of symbolic links, over the inodes,         *)
(* bitmaps, block maps and the directory of kern_ext2.c.  Every block goes to the disk when it is written, so a     *)
(* step ends with each disk write, and the machine may stop, or the        *)
(* process be killed, between any two of them.  Nothing is ever unlinked.  *)
(*                                                                         *)
(* A block is N words of 32 bits: data words, or pointers to blocks (0 for *)
(* none) in the tables of a block map.                                     *)
(***************************************************************************)
EXTENDS Integers, Sequences, SequencesExt, FiniteSets, FiniteSetsExt

CONSTANTS
  Task,      \* the processes using files
  Name,      \* file names
  Inode,     \* the inodes that are free at the start
  Block,     \* the blocks that are free at the start
  N,         \* words in a block
  Direct,    \* direct pointers of an inode (12)
  DirRoom,   \* entries that fit the block of the directory
  Fds,       \* file descriptors from 3
  Data,      \* what a write fills its words with
  Targets,   \* the targets of symbolic links
  Lens,      \* lengths of writes and reads, in words
  Seeks,     \* offsets sought
  MaxFile,   \* bound on the length of a file, in words
  MaxStops   \* bound on the deaths of processes and stops of the machine

ASSUME FsAssumption ==
  /\ Inode \subseteq Nat \ {0} /\ Block \subseteq Nat \ {0} /\ Fds \subseteq Nat
  /\ N \in Nat \ {0} /\ Direct \in Nat \ {0} /\ DirRoom \in Nat
  /\ Data \subseteq Nat /\ Targets \subseteq Nat \ {0} /\ Lens \subseteq Nat \ {0} /\ Seeks \subseteq Nat /\ MaxFile \in Nat
  /\ MaxStops \in Nat

VARIABLES
  ibm, bbm,   \* on disk: the inodes and the blocks marked as used
  itab,       \* on disk: the inode table
  dir,        \* on disk: the entries of the directory
  store,      \* on disk: the contents of the blocks
  fd,         \* kern_process_t.fd_table
  op,         \* where each process is, with its locals
  file,       \* history: what the completed part of all writes has put into a file; the target of a link
  returned,   \* history: the same for the writes that have returned
  spoiled,    \* history: inodes that were open twice, or whose map found the disk full
  stops       \* history: deaths and stops so far

diskVars == <<ibm, bbm, itab, dir, store>>
ghostVars == <<file, returned, spoiled, stops>>
fsVars == <<diskVars, fd, op, ghostVars>>

Words == 0 .. N - 1
Slots == 0 .. Direct + 2
Zeros == [w \in Words |-> 0]
NoInode == [kind |-> "file", size |-> 0, block |-> [s \in Slots |-> 0]]
NoFile == [ino |-> 0, inode |-> NoInode, pos |-> 0]
Idle == [at |-> "idle"]

FsInit ==
  /\ ibm = {} /\ bbm = {} /\ dir = << >>
  /\ itab = [i \in Inode |-> NoInode]
  /\ store = [b \in Block |-> [w \in Words |-> Min(Block)]]   \* old contents
  /\ fd = [t \in Task |-> [f \in Fds |-> NoFile]]
  /\ op = [t \in Task |-> Idle]
  /\ file = [i \in Inode |-> << >>] /\ returned = file /\ spoiled = {} /\ stops = 0

------------------------------------------------------------------------------
(* Block maps *)

\* The way to a logical block: a slot of the inode, then an index into each
\* table on the way; empty beyond the triple indirect range.
Route(l) ==
  LET d == l - Direct
      s == d - N
      r == s - N * N
  IN IF l < Direct THEN <<l>>
     ELSE IF d < N THEN <<Direct, d>>
     ELSE IF s < N * N THEN <<Direct + 1, s \div N, s % N>>
     ELSE IF r < N * N * N THEN <<Direct + 2, r \div (N * N), (r \div N) % N, r % N>>
     ELSE << >>

\* The block a way leads to from an inode, 0 if a pointer on it is missing.
At(inode, route) ==
  FoldLeft(LAMBDA b, i : IF b = 0 THEN 0 ELSE store[b][i], inode.block[Head(route)], Tail(route))

\* ext2_get_bmap
GetBmap(inode, l) == IF Route(l) = << >> THEN 0 ELSE At(inode, Route(l))

\* The first n words of a file as a reader with this inode sees them; a block
\* that is not mapped reads as zeros.
Contents(inode, n) ==
  [p \in 1 .. n |->
     LET b == GetBmap(inode, (p - 1) \div N) IN IF b = 0 THEN 0 ELSE store[b][(p - 1) % N]]

------------------------------------------------------------------------------
(* ext2_alloc_inode and ext2_alloc_block: the bitmap is read and its lowest  *)
(* clear bit found, then the bitmap as it was read is written with the bit.  *)

\* The steps of an operation that allocate: what they scan, and where the
\* operation goes on with the bit or without one.
Scan(t, from, found, none) ==
  LET used == IF from = "iscan" THEN ibm ELSE bbm
      all  == IF from = "iscan" THEN Inode ELSE Block
  IN /\ op[t].at = from
     /\ op' = [op EXCEPT ![t] =
          IF all \ used = {} THEN [@ EXCEPT !.at = none]
          ELSE [@ EXCEPT !.at = found, !.seen = used, !.bit = Min(all \ used)]]
     /\ UNCHANGED <<diskVars, fd, file, returned, stops>>

\* The bitmap as it was read goes back with the bit.
MarkBlock(t, from, then) ==
  /\ op[t].at = from
  /\ bbm' = op[t].seen \cup {op[t].bit}
  /\ op' = [op EXCEPT ![t].at = then, ![t].seen = {}]
  /\ UNCHANGED <<ibm, itab, dir, store, fd, ghostVars>>

------------------------------------------------------------------------------
(* fs_create *)

\* allocate_fd, 0 if the table is full.
FreeFd(t) == LET f == {x \in Fds : fd[t][x] = NoFile} IN IF f = {} THEN 0 ELSE Min(f)

\* Handles on an inode, in every process.
Handles(i) == {<<t, f>> \in Task \X Fds : fd[t][f].ino = i}

\* A new handle on inode i with a private copy of it.
Opened(t, i) ==
  /\ fd' = IF FreeFd(t) = 0 THEN fd
           ELSE [fd EXCEPT ![t][FreeFd(t)] = [ino |-> i, inode |-> itab[i], pos |-> 0]]
  /\ spoiled' = IF Handles(i) = {} THEN spoiled ELSE spoiled \cup {i}

CreateBegin(t, name) ==
  /\ op[t] = Idle
  /\ op' = [op EXCEPT ![t] = [at |-> "iscan", name |-> name, kind |-> "file", to |-> 0,
                              seen |-> {}, bit |-> 0, ino |-> 0]]
  /\ UNCHANGED <<diskVars, fd, ghostVars>>

\* ext2_create_symlink: a short target goes into the inode, a long one into a block.
SymlinkBegin(t, name, kind, to) ==
  /\ op[t] = Idle
  /\ op' = [op EXCEPT ![t] = [at |-> "iscan", name |-> name, kind |-> kind, to |-> to,
                              seen |-> {}, bit |-> 0, ino |-> 0]]
  /\ UNCHANGED <<diskVars, fd, ghostVars>>

\* The inode is marked as used.  A fast link needs no block.
CreateMarkInode(t) ==
  /\ op[t].at = "imark"
  /\ ibm' = op[t].seen \cup {op[t].bit}
  /\ op' = [op EXCEPT ![t].at = IF op[t].kind = "fast" THEN "cinode" ELSE "cscan", ![t].ino = op[t].bit, ![t].seen = {}]
  /\ UNCHANGED <<bbm, itab, dir, store, fd, ghostVars>>

\* No block is left: ext2_release_inode.
CreateRelease(t) ==
  /\ op[t].at = "release"
  /\ ibm' = ibm \ {op[t].ino}
  /\ op' = [op EXCEPT ![t] = Idle]
  /\ UNCHANGED <<bbm, itab, dir, store, fd, ghostVars>>

\* The new inode is written: an empty file with its first block.
CreateInode(t) ==
  /\ op[t].at = "cinode" /\ op[t].kind = "file"
  /\ itab' = [itab EXCEPT ![op[t].ino] = [NoInode EXCEPT !.block[0] = op[t].bit]]
  /\ op' = [op EXCEPT ![t].at = "centry"]
  /\ UNCHANGED <<ibm, bbm, dir, store, fd, ghostVars>>

\* That of a link: with its target in the place of the block pointers, or a block.
SymlinkInode(t) ==
  LET o == op[t]
  IN /\ o.at = "cinode" /\ o.kind # "file"
     /\ itab' = [itab EXCEPT ![o.ino] = [NoInode EXCEPT !.kind = o.kind, !.size = 1,
                                          !.block[0] = IF o.kind = "fast" THEN o.to ELSE o.bit]]
     /\ op' = [op EXCEPT ![t].at = IF o.kind = "fast" THEN "centry" ELSE "ctext"]
     /\ file' = [file EXCEPT ![o.ino] = <<o.to>>]
     /\ UNCHANGED <<ibm, bbm, dir, store, fd, returned, spoiled, stops>>

\* The block of a slow link is written, before the entry.
SymlinkText(t) ==
  /\ op[t].at = "ctext"
  /\ store' = [store EXCEPT ![op[t].bit] = [Zeros EXCEPT ![0] = op[t].to]]
  /\ op' = [op EXCEPT ![t].at = "centry"]
  /\ UNCHANGED <<ibm, bbm, itab, dir, fd, ghostVars>>

\* ext2_add_dir_entry: fails when the last block of the directory has no room.
\* The inode and its block then stay allocated.
CreateEntry(t) ==
  /\ op[t].at = "centry"
  /\ IF Len(dir) < DirRoom
     THEN /\ dir' = Append(dir, [name |-> op[t].name, ino |-> op[t].ino])
          /\ op' = IF op[t].kind = "file" THEN [op EXCEPT ![t].at = "copen"] ELSE [op EXCEPT ![t] = Idle]
     ELSE op' = [op EXCEPT ![t] = Idle] /\ UNCHANGED dir
  /\ UNCHANGED <<ibm, bbm, itab, store, fd, ghostVars>>

CreateOpen(t) ==
  /\ op[t].at = "copen"
  /\ Opened(t, op[t].ino)
  /\ op' = [op EXCEPT ![t] = Idle]
  /\ UNCHANGED <<diskVars, file, returned, stops>>

Create(t) ==
  \/ Scan(t, "iscan", "imark", "fail") /\ UNCHANGED spoiled
  \/ CreateMarkInode(t)
  \/ Scan(t, "cscan", "cmark", "release") /\ UNCHANGED spoiled
  \/ MarkBlock(t, "cmark", "cinode")
  \/ CreateRelease(t) \/ CreateInode(t) \/ CreateEntry(t) \/ CreateOpen(t)
  \/ SymlinkInode(t) \/ SymlinkText(t)

\* fs_create returns -1, or ext2_create_symlink 0.
CreateFail(t) ==
  /\ op[t].at = "fail"
  /\ op' = [op EXCEPT ![t] = Idle]
  /\ UNCHANGED <<diskVars, fd, ghostVars>>

------------------------------------------------------------------------------
(* fs_open, fs_close, fs_seek, fs_read *)

\* ext2_find_path in this one directory: the first entry of the name.
FindPath(name) ==
  LET i == SelectInSeq(dir, LAMBDA e : e.name = name) IN IF i = 0 THEN 0 ELSE dir[i].ino

\* The name of a link would be walked on from its target (KernPaths).
FsOpen(t, name) ==
  /\ op[t] = Idle /\ FindPath(name) # 0 /\ FreeFd(t) # 0
  /\ itab[FindPath(name)].kind = "file"
  /\ Opened(t, FindPath(name))
  /\ UNCHANGED <<diskVars, op, file, returned, stops>>

\* ext2_read_symlink_target: i_blocks says where the target is.
ReadLink(inode) == IF inode.kind = "fast" THEN inode.block[0] ELSE store[GetBmap(inode, 0)][0]

FsClose(t, f) ==
  /\ op[t] = Idle /\ fd[t][f] # NoFile
  /\ fd' = [fd EXCEPT ![t][f] = NoFile]
  /\ UNCHANGED <<diskVars, op, ghostVars>>

\* Positions beyond the end are cut back to it.
FsSeek(t, f, p) ==
  /\ op[t] = Idle /\ fd[t][f] # NoFile
  /\ fd' = [fd EXCEPT ![t][f].pos = Min({p, fd[t][f].inode.size})]
  /\ UNCHANGED <<diskVars, op, ghostVars>>

\* Where fs_read(f, n) leaves the position: at the end of the file or of the
\* request, or in front of the first block that is not mapped, except that an
\* unmapped block it starts inside of is skipped with all the rest.
ReadEnd(h, n) ==
  LET end   == Min({h.pos + n, h.inode.size})
      holes == {p \in h.pos .. end - 1 : GetBmap(h.inode, p \div N) = 0}
  IN IF h.pos >= h.inode.size THEN h.pos
     ELSE IF holes = {} \/ (Min(holes) = h.pos /\ h.pos % N # 0) THEN end
     ELSE Min(holes)

FsRead(t, f, n) ==
  /\ op[t] = Idle /\ fd[t][f] # NoFile
  /\ fd' = [fd EXCEPT ![t][f].pos = ReadEnd(fd[t][f], n)]
  /\ UNCHANGED <<diskVars, op, ghostVars>>

------------------------------------------------------------------------------
(* fs_write *)

WriteBegin(t, f, n, v) ==
  /\ op[t] = Idle /\ fd[t][f] # NoFile
  /\ fd[t][f].pos + n <= MaxFile
  /\ op' = [op EXCEPT ![t] = [at |-> "loop", f |-> f, left |-> n, v |-> v, start |-> fd[t][f].pos,
                              phys |-> 0, fresh |-> FALSE, seen |-> {}, bit |-> 0, tabs |-> << >>]]
  /\ UNCHANGED <<diskVars, fd, ghostVars>>

\* The head of the loop: find the block to write, or allocate one.
WriteLoop(t) ==
  LET h == fd[t][op[t].f]
      b == GetBmap(h.inode, h.pos \div N)
  IN /\ op[t].at = "loop"
     /\ op' = [op EXCEPT ![t] =
          IF op[t].left = 0 THEN [@ EXCEPT !.at = "winode"]
          ELSE IF b = 0 THEN [@ EXCEPT !.at = "wscan"]
          ELSE [@ EXCEPT !.at = "data", !.phys = b, !.fresh = FALSE]]
     /\ UNCHANGED <<diskVars, fd, ghostVars>>

\* ext2_set_bmap of op.phys.  tabs are the tables on the way that it has in its
\* buffers.  A direct slot of the handle's inode is set at once; otherwise the
\* next table is read, and the last one gets the pointer.
WriteMap(t) ==
  LET o     == op[t]
      h     == fd[t][o.f]
      route == Route(h.pos \div N)
      depth == Len(o.tabs)
      ptr   == IF depth = 0 THEN h.inode.block[route[1]] ELSE Last(o.tabs).buf[route[depth + 1]]
  IN /\ o.at = "map"
     /\ \/ /\ Len(route) = 1
           /\ fd' = [fd EXCEPT ![t][o.f].inode.block[route[1]] = o.phys]
           /\ op' = [op EXCEPT ![t].at = "data"]
        \/ /\ Len(route) > 1 /\ ptr = 0
           /\ op' = [op EXCEPT ![t].at = "tscan"]
           /\ UNCHANGED fd
        \/ /\ Len(route) > 1 /\ ptr # 0
           /\ op' = [op EXCEPT ![t] =
                IF depth + 2 < Len(route)
                THEN [@ EXCEPT !.tabs = Append(@, [blk |-> ptr, buf |-> store[ptr]])]
                ELSE [@ EXCEPT !.tabs = Append(@, [blk |-> ptr,
                                          buf |-> [store[ptr] EXCEPT ![Last(route)] = o.phys]]),
                               !.at = "back"]]
           /\ UNCHANGED fd
     /\ UNCHANGED <<diskVars, ghostVars>>

\* A new table: where the pointer to it goes.
TableSet(t) ==
  LET o     == op[t]
      route == Route(fd[t][o.f].pos \div N)
      depth == Len(o.tabs)
  IN IF depth = 0
     THEN /\ fd' = [fd EXCEPT ![t][o.f].inode.block[route[1]] = o.bit]
          /\ op' = [op EXCEPT ![t].at = "map"]
     ELSE /\ op' = [op EXCEPT ![t].at = "map", ![t].tabs[depth].buf[route[depth + 1]] = o.bit]
          /\ UNCHANGED fd

\* A faulty variant of WriteClear that leaves the old contents in a new table.
WriteClearNot(t) ==
  /\ op[t].at = "clear"
  /\ TableSet(t)
  /\ UNCHANGED <<diskVars, ghostVars>>

\* The new table is cleared on the disk.
WriteClear(t) ==
  /\ op[t].at = "clear"
  /\ store' = [store EXCEPT ![op[t].bit] = Zeros]
  /\ TableSet(t)
  /\ UNCHANGED <<ibm, bbm, itab, dir, ghostVars>>

\* The tables are written back, the last one first.
WriteBack(t) ==
  LET last == Last(op[t].tabs)
  IN /\ op[t].at = "back"
     /\ store' = [store EXCEPT ![last.blk] = last.buf]
     /\ op' = [op EXCEPT ![t].tabs = Front(@),
                         ![t].at = IF Len(op[t].tabs) = 1 THEN "data" ELSE "back"]
     /\ UNCHANGED <<ibm, bbm, itab, dir, fd, ghostVars>>

\* The words of this turn, within one block.
Turn(t) ==
  LET h == fd[t][op[t].f]
  IN h.pos .. h.pos + Min({N - (h.pos % N), op[t].left}) - 1

\* The block with them: a new one starts with zeros.
Filled(t) ==
  [w \in Words |-> IF \E p \in Turn(t) : p % N = w THEN op[t].v
                   ELSE IF op[t].fresh THEN 0 ELSE store[op[t].phys][w]]

\* s with the words of this turn in it.
Overlaid(s, t) ==
  LET end == Max(Turn(t)) + 1
  IN [p \in 1 .. Max({Len(s), end}) |-> IF p - 1 \in Turn(t) THEN op[t].v ELSE s[p]]

\* A faulty variant: the size follows the position also when it moves back.
GrownAlways(size, end) == end

\* The size after a turn that ended at end.
Grown(size, end) == Max({size, end})

\* The block is written; position and size move on in the handle.
WriteData(t) ==
  LET h   == fd[t][op[t].f]
      end == Max(Turn(t)) + 1
  IN /\ op[t].at = "data"
     /\ store' = [store EXCEPT ![op[t].phys] = Filled(t)]
     /\ fd' = [fd EXCEPT ![t][op[t].f].pos = end,
                         ![t][op[t].f].inode.size = Grown(@, end)]
     /\ op' = [op EXCEPT ![t].at = "loop", ![t].left = @ - Cardinality(Turn(t))]
     /\ file' = [file EXCEPT ![h.ino] = Overlaid(@, t)]
     /\ UNCHANGED <<ibm, bbm, itab, dir, returned, spoiled, stops>>

\* The inode goes to the disk and fs_write returns.
WriteInode(t) ==
  LET h == fd[t][op[t].f]
  IN /\ op[t].at = "winode"
     /\ itab' = [itab EXCEPT ![h.ino] = h.inode]
     /\ op' = [op EXCEPT ![t] = Idle]
     /\ returned' = [returned EXCEPT ![h.ino] = file[h.ino]]
     /\ UNCHANGED <<ibm, bbm, dir, store, fd, file, spoiled, stops>>

\* With no block left for data the loop ends; with none left for a table
\* ext2_set_bmap returns and the loop goes on as if the block were mapped.
Write(t) ==
  \/ WriteLoop(t)
  \/ Scan(t, "wscan", "wmark", "winode") /\ UNCHANGED spoiled
  \/ MarkBlock(t, "wmark", "wnew")
  \/ WriteMap(t)
  \/ /\ Scan(t, "tscan", "tmark", "data")
     /\ spoiled' = IF Block \ bbm = {} THEN spoiled \cup {fd[t][op[t].f].ino} ELSE spoiled
  \/ MarkBlock(t, "tmark", "clear")
  \/ WriteClear(t) \/ WriteBack(t) \/ WriteData(t) \/ WriteInode(t)

\* The block ext2_alloc_block returned is the one to map.
WriteNew(t) ==
  /\ op[t].at = "wnew"
  /\ op' = [op EXCEPT ![t].at = "map", ![t].phys = op[t].bit, ![t].fresh = TRUE, ![t].tabs = << >>]
  /\ UNCHANGED <<diskVars, fd, ghostVars>>

------------------------------------------------------------------------------
(* Processes die and the machine stops at any point.  What is on the disk is *)
(* the content of the files from then on.                                    *)

Gone(T) ==
  /\ stops < MaxStops /\ stops' = stops + 1
  /\ fd' = [t \in Task |-> IF t \in T THEN [f \in Fds |-> NoFile] ELSE fd[t]]
  /\ op' = [t \in Task |-> IF t \in T THEN Idle ELSE op[t]]
  /\ LET lost == spoiled \cup {h.ino : h \in {fd[t][f] : t \in T, f \in Fds}}
     IN /\ file' = [i \in Inode |-> IF i \in lost THEN Contents(itab[i], itab[i].size) ELSE file[i]]
        /\ returned' = [i \in Inode |-> IF i \in lost THEN file'[i] ELSE returned[i]]
        /\ spoiled' = IF T = Task THEN {} ELSE spoiled
  /\ UNCHANGED diskVars

\* process_exit frees the handles of a killed process.
ProcessExit(t) == (\E f \in Fds : fd[t][f] # NoFile) /\ Gone({t})

Crash == Gone(Task)

FsNext ==
  \/ \E t \in Task :
       \/ \E name \in Name : CreateBegin(t, name) \/ FsOpen(t, name)
       \/ \E name \in Name, kind \in {"fast", "slow"}, to \in Targets : SymlinkBegin(t, name, kind, to)
       \/ Create(t) \/ CreateFail(t)
       \/ \E f \in Fds :
            \/ FsClose(t, f)
            \/ \E p \in Seeks : FsSeek(t, f, p)
            \/ \E n \in Lens : FsRead(t, f, n) \/ \E v \in Data : WriteBegin(t, f, n, v)
       \/ Write(t) \/ WriteNew(t)
       \/ ProcessExit(t)
  \/ Crash

FsSpec == FsInit /\ [][FsNext]_fsVars

------------------------------------------------------------------------------
(* Properties *)

\* The ways to every block and table of a file.
Ways ==
  UNION {{SubSeq(Route(l), 1, k) : k \in 1 .. Len(Route(l))} : l \in 0 .. (MaxFile - 1) \div N}

\* The blocks and tables an inode holds, each with the way to it.
Held(inode) ==
  IF inode.kind = "fast" THEN {} ELSE {<<w, At(inode, w)>> : w \in Ways} \ (Ways \X {0})
Files == {i \in Inode : itab[i].kind = "file"}

\* Whatever the disk holds when the machine stops, no block or table belongs
\* to two places of the files in the inode table, and every one is marked as
\* used: the next allocation cannot hand out a block that holds data
\* (ext2_alloc_block, ext2_set_bmap and fs_write's order of writes).
BlocksOwned ==
  LET all == UNION {{<<i, h[1], h[2]>> : h \in Held(itab[i])} : i \in Inode}
  IN /\ \A x \in all : x[3] \in bbm
     /\ \A x, y \in all : x[3] = y[3] => x = y

\* Every entry of the directory names an inode of its own that is marked as
\* used and has been written with its first block, or leads where the link was
\* made to lead, also when the machine stops in the middle of fs_create or
\* ext2_create_symlink (the order of their writes).
EntriesValid ==
  /\ \A k \in DOMAIN dir : dir[k].ino \in ibm /\ itab[dir[k].ino].block[0] # 0
  /\ \A k \in DOMAIN dir : dir[k].ino \notin Files => ReadLink(itab[dir[k].ino]) = file[dir[k].ino][1]
  /\ \A j, k \in DOMAIN dir : dir[j].ino = dir[k].ino => j = k

\* Blocks and inodes on the disk are never shared or lost to the bitmaps,
\* wherever a process dies or the machine stops.
DiskConsistent == BlocksOwned /\ EntriesValid

\* What a handle reaches is what was written through it, in the middle of a
\* write too and whatever other files do; a file nobody has open reads as it
\* was left.  Files open twice and files whose write met a full disk are
\* excepted: there the code loses data (see the hazards).
ReadBack ==
  /\ \A t \in Task, f \in Fds :
       LET h == fd[t][f]
       IN h.ino \notin spoiled \cup {0} => Contents(h.inode, h.inode.size) = file[h.ino]
  /\ \A i \in Files \ spoiled :
       Handles(i) = {} => Contents(itab[i], itab[i].size) = file[i]

\* The words a write in progress has touched so far in inode i.
Touched(i) ==
  UNION {LET h == fd[t][op[t].f] IN IF h.ino = i THEN op[t].start .. h.pos - 1 ELSE {} :
         t \in {u \in Task : "start" \in DOMAIN op[u]}}

\* When fs_write has returned, what it wrote survives a stop of the machine at
\* any later moment, and also in the middle of the next write, except the
\* words which that write replaces (fs_write persists the inode last).
Durable ==
  \A i \in Files \ spoiled :
    /\ itab[i].size = Len(returned[i])
    /\ \A p \in 1 .. itab[i].size :
         p - 1 \notin Touched(i) => Contents(itab[i], itab[i].size)[p] = returned[i][p]

\* What was written is what is read: by the writer at once, by the next reader
\* and after a stop of the machine.
ContentsKept == ReadBack /\ Durable
==============================================================================

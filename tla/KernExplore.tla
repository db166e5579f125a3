----------------------------- MODULE KernExplore -----------------------------
(* Listing directories: ext2_explorer_next of kern_ext2.c with its stack of  *)
(* directories and its one block, as lsr and the program lsr.wasm call it,   *)
(* and the flat listing of ls.wasm.  A task lists by turns with others, and  *)
(* all read the drive that is active (KernPaths).  One action is one turn of *)
(* the loop in ext2_explorer_next.  The directories do not change meanwhile. *)
EXTENDS Naturals, Sequences, SequencesExt, FiniteSets

CONSTANTS
  Listers,      \* the tasks that list
  Volumes,      \* what the drives may hold; per drive, its inodes and blocks
  Paths,        \* where ext2_find_path leads: a drive and an inode number, 0 for nowhere
  MaxStack      \* the frames of an explorer, 16

ASSUME ExploreAssumption == MaxStack \in Nat \ {0} /\ Volumes # {}

VARIABLES
  volume,       \* the contents of the drives
  active_drive,
  listing,      \* per task: the listing under way
  disturbed     \* per task: another task switched the drive during its listing
exploreVars == <<volume, active_drive, listing, disturbed>>

NoCall == [pc |-> "idle"]

ExploreInit ==
  /\ volume \in Volumes
  /\ active_drive = CHOOSE d \in DOMAIN volume : TRUE
  /\ listing = [t \in Listers |-> NoCall]
  /\ disturbed = [t \in Listers |-> FALSE]

(* ext2_switch_drive                                                         *)
SwitchTo(t, d) ==
  /\ active_drive' = d
  /\ disturbed' = [u \in Listers |-> u # t /\ listing'[u] # NoCall /\ (disturbed[u] \/ d # active_drive)]

(* ext2_get_inode: nothing for a number beyond the inodes of the drive.      *)
Inodes == volume[active_drive].inodes
KindOf(n) == IF n \in DOMAIN Inodes THEN Inodes[n].kind ELSE "none"

(* The explorer starts at the inode the path led to, whatever it is.         *)
Frame(n) == [ino |-> n, blk |-> 1, off |-> 1]

(* lsr, lsr.wasm and ls.wasm.  The programs remember the active drive and    *)
(* switch back; the command does not.                                        *)
Begin(t, how, p) ==
  LET c == [pc |-> IF p.ino = 0 THEN "over" ELSE "list", how |-> how, from |-> p, saved |-> active_drive,
            stack |-> <<Frame(p.ino)>>, last |-> 0, buf |-> << >>, shown |-> << >>]
  IN /\ listing[t] = NoCall
     /\ listing' = [listing EXCEPT ![t] =
          IF how = "ls" /\ p.ino # 0 /\ volume[p.drive].inodes[p.ino].kind # "dir"
          THEN [c EXCEPT !.pc = "over", !.shown = <<[ino |-> p.ino, depth |-> 0]>>] ELSE c]
     /\ SwitchTo(t, p.drive)
     /\ UNCHANGED volume

-----------------------------------------------------------------------------
Top(c) == Last(c.stack)
MapOf(c) == IF Top(c).ino \in DOMAIN Inodes THEN Inodes[Top(c).ino].map ELSE << >>
WithTop(c, f) == [c EXCEPT !.stack = Append(Front(@), f)]
NextBlock(c) == WithTop(c, [Top(c) EXCEPT !.blk = @ + 1, !.off = 1])

Underway(t) == listing[t].pc = "list" /\ listing[t].stack # << >>
Becomes(t, c) == listing' = [listing EXCEPT ![t] = c] /\ UNCHANGED <<volume, active_drive, disturbed>>

(* The inode cannot be read or all its blocks are done: back to the parent.  *)
Leave(t) ==
  LET c == listing[t]
  IN /\ Underway(t) /\ Top(c).blk > Len(MapOf(c))
     /\ Becomes(t, [c EXCEPT !.stack = Front(@)])

(* A block that is not mapped.                                               *)
Hole(t) ==
  LET c == listing[t]
  IN /\ Underway(t) /\ Top(c).blk <= Len(MapOf(c)) /\ MapOf(c)[Top(c).blk] = 0
     /\ Becomes(t, NextBlock(c))

(* A faulty variant: the block that is in the buffer stays there.            *)
BufferedOnce(c, b) == IF c.last # 0 THEN c ELSE [c EXCEPT !.last = b, !.buf = volume[active_drive].blocks[b]]

(* The block is read unless it is the one in the buffer.                     *)
Buffered(c, b) == IF c.last = b THEN c ELSE [c EXCEPT !.last = b, !.buf = volume[active_drive].blocks[b]]

AtBlock(t) == Underway(t) /\ Top(listing[t]).blk <= Len(MapOf(listing[t])) /\ MapOf(listing[t])[Top(listing[t]).blk] # 0
Loaded(t) == Buffered(listing[t], MapOf(listing[t])[Top(listing[t]).blk])

BlockEnd(t) ==
  /\ AtBlock(t) /\ Top(listing[t]).off > Len(Loaded(t).buf)
  /\ Becomes(t, NextBlock(Loaded(t)))

AtEntry(t) == AtBlock(t) /\ Top(listing[t]).off <= Len(Loaded(t).buf)
Entry(t) == Loaded(t).buf[Top(listing[t]).off]
Passed(c) == WithTop(c, [Top(c) EXCEPT !.off = @ + 1])

(* An entry shorter than its header: the explorer gives the directory up,    *)
(* the flat listing only the block.                                          *)
Damaged(t) ==
  /\ AtEntry(t) /\ Entry(t).damaged
  /\ Becomes(t, IF listing[t].how = "ls" THEN NextBlock(Loaded(t))
                ELSE WithTop(Loaded(t), [Top(listing[t]) EXCEPT !.blk = Len(MapOf(listing[t])) + 1]))

(* A removed entry, "." and "..", and a directory that is being listed.      *)
Skipped(c, e) ==
  \/ e.ino = 0 \/ e.dots
  \/ c.how # "ls" /\ \E k \in DOMAIN c.stack : c.stack[k].ino = e.ino
Skip(t) ==
  /\ AtEntry(t) /\ ~Entry(t).damaged /\ Skipped(Loaded(t), Entry(t))
  /\ Becomes(t, Passed(Loaded(t)))

(* The type in the entry, or that of its inode on drives that have none.     *)
TypeOf(e) == IF e.type = "unknown" THEN KindOf(e.ino) ELSE e.type

(* An entry is shown; a directory is entered as long as there is a frame.    *)
Show(t) ==
  LET c == Passed([Loaded(t) EXCEPT !.shown = Append(@, [ino |-> Entry(t).ino, depth |-> Len(listing[t].stack) - 1])])
  IN /\ AtEntry(t) /\ ~Entry(t).damaged /\ ~Skipped(Loaded(t), Entry(t))
     /\ Becomes(t, IF TypeOf(Entry(t)) = "dir" /\ c.how # "ls" /\ Len(c.stack) < MaxStack
                   THEN [c EXCEPT !.stack = Append(@, Frame(Entry(t).ino))] ELSE c)

Done(t) == listing[t].pc = "over" \/ (listing[t].pc = "list" /\ listing[t].stack = << >>)

(* The listing is over; the programs switch to the drive they found.         *)
End(t) ==
  /\ Done(t)
  /\ listing' = [listing EXCEPT ![t] = NoCall]
  /\ SwitchTo(t, IF listing[t].how = "shell" THEN active_drive ELSE listing[t].saved)
  /\ UNCHANGED volume

ExploreNext ==
  \E t \in Listers :
    \/ \E how \in {"shell", "lsr", "ls"}, p \in Paths : Begin(t, how, p)
    \/ Leave(t) \/ Hole(t) \/ BlockEnd(t) \/ Damaged(t) \/ Skip(t) \/ Show(t) \/ End(t)

ExploreSpec == ExploreInit /\ [][ExploreNext]_exploreVars

-----------------------------------------------------------------------------
(* What a directory on drive d holds: its entries in order, up to the first  *)
(* damaged one; a flat listing goes on with the next block.                  *)
Sound(entries) ==
  LET bad == SelectInSeq(entries, LAMBDA e : e.damaged)
  IN IF bad = 0 THEN entries ELSE SubSeq(entries, 1, bad - 1)
Listed(d, n, flat) ==
  LET blocks == [k \in DOMAIN volume[d].inodes[n].map |->
                   LET b == volume[d].inodes[n].map[k]
                   IN IF b = 0 THEN << >> ELSE volume[d].blocks[b]]
      all == IF flat THEN FlattenSeq([k \in DOMAIN blocks |-> Sound(blocks[k])])
             ELSE Sound(FlattenSeq(blocks))
  IN SelectSeq(all, LAMBDA e : e.ino # 0 /\ ~e.dots)

(* The entries below a directory in preorder, with their depth: each entry   *)
(* once for each way to it that enters no directory twice.                   *)
RECURSIVE Below(_, _, _)
Below(d, n, trail) ==
  IF n \notin DOMAIN volume[d].inodes THEN << >>
  ELSE LET way == Append(trail, n)
           new == SelectSeq(Listed(d, n, FALSE), LAMBDA e : \A k \in DOMAIN way : way[k] # e.ino)
           isDir(e) == \/ e.type = "dir"
                       \/ /\ e.type = "unknown" /\ e.ino \in DOMAIN volume[d].inodes
                          /\ volume[d].inodes[e.ino].kind = "dir"
       IN FlattenSeq([k \in DOMAIN new |->
            <<[ino |-> new[k].ino, depth |-> Len(trail)]>>
            \o IF isDir(new[k]) /\ Len(way) < MaxStack THEN Below(d, new[k].ino, way) ELSE << >>])

Expected(c) ==
  LET d == c.from.drive
      n == c.from.ino
  IN IF n = 0 THEN << >>
     ELSE IF c.how # "ls" THEN Below(d, n, << >>)
     ELSE IF volume[d].inodes[n].kind # "dir" THEN <<[ino |-> n, depth |-> 0]>>
     ELSE [k \in DOMAIN Listed(d, n, TRUE) |-> [ino |-> Listed(d, n, TRUE)[k].ino, depth |-> 0]]

(* A listing during which no other task switched the drive shows each entry  *)
(* once, below its directory and in order, over holes, removed and damaged   *)
(* entries, links that lead back and directories deeper than its stack, and  *)
(* "should not change the user's working drive".                             *)
ListsAll ==
  [][\A t \in Listers :
       Done(t) /\ listing'[t] = NoCall /\ ~disturbed[t] =>
         /\ listing[t].shown = Expected(listing[t])
         /\ listing[t].how # "shell" => active_drive' = listing[t].saved]_exploreVars
==============================================================================

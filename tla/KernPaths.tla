----------------------------- MODULE KernPaths ------------------------------
(* Paths: the working directories of kern_fs.c, fs_resolve_path, and the     *)
(* walk of ext2_find_path over several drives and through symbolic links,    *)
(* by tasks that share active_drive.                                         *)
(*                                                                           *)
(* A path is a record: the drive it names or NoDrive, whether it starts with *)
(* "/", and its segments.  One action is one component of a walk, so that a  *)
(* walk can be preempted between any two reads.  Creating and removing       *)
(* entries is KernFs; here the trees do not change.                          *)
EXTENDS Naturals, Sequences, SequencesExt, FiniteSets

CONSTANTS
  Drives,       \* the drives that are present
  NoDrive,
  Tree,         \* per drive, per inode number: what it is
  Walkers,      \* tasks besides the shell
  Shell,        \* the task of the kernel process
  Terms,        \* the sessions
  Typed,        \* the paths given to commands and calls
  MaxSegs,      \* the segments fs_resolve_path keeps, 32
  MaxLinks      \* EXT2_SYMLINK_MAX_DEPTH

ASSUME PathAssumption ==
  /\ NoDrive \notin Drives /\ Drives # {} /\ Terms # {}
  /\ Shell \notin Walkers
  /\ MaxSegs \in Nat \ {0} /\ MaxLinks \in Nat

VARIABLES
  active_drive,
  tcwd,         \* cwd of each session
  pcwd,         \* cwd of each process, or NoCwd; that of the shell is kproc->cwd
  term,         \* the active session
  walk,         \* per task: the walk of ext2_find_path under way
  others        \* per task: another task switched the drive during its walk
pathVars == <<active_drive, tcwd, pcwd, term, walk, others>>

Tasks == Walkers \cup {Shell}
Home == [drive |-> CHOOSE d \in Drives : TRUE, segs |-> <<>>]
NoCwd == [drive |-> NoDrive, segs |-> <<>>]
Root == 2
NoWalk == [pc |-> "idle"]

PathInit ==
  /\ active_drive = Home.drive
  /\ tcwd = [s \in Terms |-> Home]
  /\ pcwd = [t \in Tasks |-> IF t = Shell THEN NoCwd ELSE Home]
  /\ term \in Terms
  /\ walk = [t \in Tasks |-> NoWalk]
  /\ others = [t \in Tasks |-> FALSE]

(* fs_get_cwd                                                                *)
Cwd(t) == IF pcwd[t] # NoCwd THEN pcwd[t] ELSE tcwd[term]

-----------------------------------------------------------------------------
(* A faulty variant: ".." past the root stays in the path.                   *)
PushUp(stack, s) ==
  IF s = "." THEN stack
  ELSE IF s = ".." /\ stack # <<>> THEN Front(stack)
  ELSE IF Len(stack) < MaxSegs THEN Append(stack, s) ELSE stack

(* The loop of fs_resolve_path over the segments: beyond MaxSegs they drop.  *)
Push(stack, s) ==
  IF s = "." THEN stack
  ELSE IF s = ".." THEN (IF stack # <<>> THEN Front(stack) ELSE stack)
  ELSE IF Len(stack) < MaxSegs THEN Append(stack, s) ELSE stack

Canonical(segs) == FoldLeft(Push, <<>>, segs)

(* fs_resolve_path for a task in a working directory.                        *)
Resolve(p, cwd) ==
  IF p.drive # NoDrive THEN [drive |-> p.drive, segs |-> Canonical(p.segs)]
  ELSE IF p.abs THEN [drive |-> cwd.drive, segs |-> Canonical(p.segs)]
  ELSE [drive |-> cwd.drive, segs |-> Canonical(cwd.segs \o p.segs)]

-----------------------------------------------------------------------------
(* What a walk is about to do with a resolved path: find the drive and start *)
(* at its root.                                                              *)
Started(w, r) ==
  [w EXCEPT !.pc = IF r.drive \in Drives THEN "walk" ELSE "failed",
            !.done = <<>>, !.rest = r.segs, !.ino = Root]

(* ext2_switch_drive disturbs every other walk that is under way.            *)
SwitchDrive(t, d) ==
  LET to == IF d \in Drives THEN d ELSE active_drive
  IN /\ active_drive' = to
     /\ others' = [u \in Tasks |-> walk'[u] # NoWalk /\ (others[u] \/ (u # t /\ to # active_drive))]

(* A walk to r, after which its caller makes an entry there or not.          *)
WalkTo(t, r, make) ==
  LET w == [pc |-> "walk", from |-> r, cwd |-> Cwd(t), make |-> make, links |-> 0,
            astray |-> FALSE, done |-> <<>>, rest |-> <<>>, ino |-> Root]
  IN /\ walk[t] = NoWalk
     /\ walk' = [walk EXCEPT ![t] = Started(w, r)]
     /\ SwitchDrive(t, r.drive)
     /\ UNCHANGED <<tcwd, pcwd, term>>

(* ext2_find_path is called: by cd in the shell, or to open a file.          *)
FindBegin(t, p) == WalkTo(t, Resolve(p, Cwd(t)), FALSE)

(* A resolved path up to its last slash.                                     *)
ParentOf(r) == [r EXCEPT !.segs = Front(@)]

(* ext2_create_file, and ext2_create_symlink alike: the last segment is the  *)
(* new name, and the path before it leads to its directory.                  *)
MakeBegin(t, p) ==
  /\ Resolve(p, Cwd(t)).segs # <<>>
  /\ WalkTo(t, ParentOf(Resolve(p, Cwd(t))), TRUE)

(* The inode numbers of one drive mean nothing on another, but are looked up *)
(* there all the same.                                                       *)
Exists(d, n) == n \in DOMAIN Tree[d]
Child(d, n, name) ==
  IF Exists(d, n) /\ Tree[d][n].kind = "dir" /\ name \in DOMAIN Tree[d][n].entries
  THEN Tree[d][n].entries[name] ELSE 0

(* A faulty variant: a relative target starts at the root.                   *)
RebuiltRoot(w, to) ==
  IF to.drive # NoDrive THEN [to EXCEPT !.segs = @ \o Tail(w.rest)]
  ELSE [drive |-> NoDrive, abs |-> TRUE, segs |-> to.segs \o Tail(w.rest)]

(* The path rebuilt after a link: the part before it, its target, the rest.  *)
(* The part before it has lost its drive.  The first component has only "/"  *)
(* before it, and with a target that starts with "/" that names a drive.     *)
Rebuilt(w, to) ==
  LET rest == Tail(w.rest)
  IN IF to.drive # NoDrive THEN [to EXCEPT !.segs = @ \o rest]
     ELSE IF w.done = <<>> /\ to.abs /\ to.segs # <<>>
          THEN [drive |-> Head(to.segs), abs |-> TRUE, segs |-> Tail(to.segs) \o rest]
     ELSE [drive |-> NoDrive, abs |-> TRUE, segs |-> w.done \o to.segs \o rest]

(* A link the walk does not follow to where it leads: an absolute one, a     *)
(* relative one on a drive that is not the caller's, one that makes the path *)
(* too long.                                                                 *)
Strays(w, to) ==
  \/ to.drive = NoDrive /\ (to.abs \/ active_drive # w.cwd.drive)
  \/ Len(w.done \o to.segs \o w.rest) > MaxSegs + 1

TooMany(w) == w.links >= MaxLinks

(* One component: find the child and read its inode, both on active_drive.   *)
LookDown(t) ==
  LET w == walk[t]
      child == Child(active_drive, w.ino, Head(w.rest))
  IN /\ w.pc = "walk" /\ w.rest # <<>>
     /\ child # 0 /\ Tree[active_drive][child].kind # "link"
     /\ walk' = [walk EXCEPT ![t] = [w EXCEPT !.ino = child,
                                              !.done = Append(@, Head(w.rest)),
                                              !.rest = Tail(@)]]
     /\ UNCHANGED <<active_drive, tcwd, pcwd, term, others>>

LookLink(t) ==
  LET w == walk[t]
      child == Child(active_drive, w.ino, Head(w.rest))
      r == Resolve(Rebuilt(w, Tree[active_drive][child].to), Cwd(t))
  IN /\ w.pc = "walk" /\ w.rest # <<>>
     /\ child # 0 /\ Tree[active_drive][child].kind = "link"
     /\ ~TooMany(w)
     /\ walk' = [walk EXCEPT ![t] =
                   Started([w EXCEPT !.links = @ + 1,
                                     !.astray = @ \/ Strays(w, Tree[active_drive][child].to)], r)]
     /\ SwitchDrive(t, r.drive)
     /\ UNCHANGED <<tcwd, pcwd, term>>

LookFails(t) ==
  LET w == walk[t]
      child == Child(active_drive, w.ino, Head(w.rest))
  IN /\ w.pc = "walk" /\ w.rest # <<>>
     /\ \/ child = 0
        \/ child # 0 /\ Tree[active_drive][child].kind = "link" /\ TooMany(w)
     /\ walk' = [walk EXCEPT ![t] = [w EXCEPT !.pc = "failed"]]
     /\ UNCHANGED <<active_drive, tcwd, pcwd, term, others>>

(* What the caller gets: nothing, or an inode number of the drive that       *)
(* happens to be the active one.  An entry is made only in a directory.      *)
Found(t) ==
  /\ walk[t].pc = "walk" /\ walk[t].rest = <<>> /\ Exists(active_drive, walk[t].ino)
  /\ walk[t].make => Tree[active_drive][walk[t].ino].kind = "dir"
Result(t) == IF Found(t) THEN [drive |-> active_drive, ino |-> walk[t].ino]
             ELSE [drive |-> NoDrive, ino |-> 0]

Over(t) == walk[t] # NoWalk /\ (walk[t].pc = "failed" \/ walk[t].rest = <<>>)

(* The call returns to fs_open and the like, or the entry is made (KernFs).  *)
FindEnd(t) ==
  /\ Over(t)
  /\ walk' = [walk EXCEPT ![t] = NoWalk]
  /\ SwitchDrive(t, active_drive)
  /\ UNCHANGED <<tcwd, pcwd, term>>

(* cd: the directory was found, and the path as it was resolved becomes the  *)
(* working directory of the session, of the kernel process, and the global.  *)
CdEnd ==
  /\ Over(Shell) /\ Found(Shell) /\ ~walk[Shell].make
  /\ Tree[active_drive][walk[Shell].ino].kind = "dir"
  /\ pcwd' = [pcwd EXCEPT ![Shell] = walk[Shell].from]
  /\ tcwd' = [tcwd EXCEPT ![term] = walk[Shell].from]
  /\ walk' = [walk EXCEPT ![Shell] = NoWalk]
  /\ SwitchDrive(Shell, walk[Shell].from.drive)
  /\ UNCHANGED term

(* F1 to F4 at the prompt, and a process made there: it gets the working     *)
(* directory that the shell has.                                             *)
PathSession(s) ==
  /\ walk[Shell] = NoWalk /\ s # term
  /\ term' = s
  /\ UNCHANGED <<active_drive, tcwd, pcwd, walk, others>>

Inherit(t) ==
  /\ walk[Shell] = NoWalk /\ walk[t] = NoWalk
  /\ pcwd' = [pcwd EXCEPT ![t] = Cwd(Shell)]
  /\ UNCHANGED <<active_drive, tcwd, term, walk, others>>

PathNext ==
  \/ \E t \in Tasks, p \in Typed : FindBegin(t, p) \/ MakeBegin(t, p)
  \/ \E t \in Tasks : LookDown(t) \/ LookLink(t) \/ LookFails(t) \/ FindEnd(t)
  \/ CdEnd
  \/ \E s \in Terms : PathSession(s)
  \/ \E t \in Walkers : Inherit(t)

PathSpec == PathInit /\ [][PathNext]_pathVars

-----------------------------------------------------------------------------
(* Where a path leads, step by step and with no rebuilding: ".." goes up the *)
(* path taken, a relative link goes on in its own directory, an absolute one *)
(* at the root of its drive or of the drive it names.                        *)
RECURSIVE Leads(_, _, _, _)
Leads(d, trail, segs, fuel) ==
  LET here == IF trail = <<>> THEN Root ELSE Last(trail)
  IN IF segs = <<>> THEN [drive |-> d, ino |-> here]
     ELSE LET child == Child(d, here, Head(segs))
              up == IF trail = <<>> THEN trail ELSE Front(trail)
          IN IF Head(segs) = "." THEN Leads(d, trail, Tail(segs), fuel)
             ELSE IF Head(segs) = ".." THEN Leads(d, up, Tail(segs), fuel)
             ELSE IF child = 0 THEN [drive |-> NoDrive, ino |-> 0]
             ELSE IF Tree[d][child].kind # "link"
                  THEN Leads(d, Append(trail, child), Tail(segs), fuel)
             ELSE LET to == Tree[d][child].to
                  IN IF fuel = 0 THEN [drive |-> NoDrive, ino |-> 0]
                     ELSE IF to.drive # NoDrive
                          THEN IF to.drive \in Drives
                               THEN Leads(to.drive, <<>>, to.segs \o Tail(segs), fuel - 1)
                               ELSE [drive |-> NoDrive, ino |-> 0]
                     ELSE Leads(d, IF to.abs THEN <<>> ELSE trail,
                                to.segs \o Tail(segs), fuel - 1)

(* Where the path a walk began with leads.                                   *)
Meant(w) ==
  LET to == Leads(w.from.drive, <<>>, w.from.segs, MaxLinks)
      nowhere == [drive |-> NoDrive, ino |-> 0]
  IN IF w.from.drive \notin Drives \/ to = nowhere THEN nowhere
     ELSE IF w.make /\ Tree[to.drive][to.ino].kind # "dir" THEN nowhere ELSE to

(* However many ".", ".." and segments were typed or came from links, a path *)
(* to walk and a working directory have neither dots nor too many segments.  *)
PathsCanonical ==
  LET Good(segs) == Len(segs) <= MaxSegs /\ \A i \in DOMAIN segs : segs[i] \notin {".", ".."}
  IN /\ \A t \in Tasks : Good(pcwd[t].segs) /\ (walk[t] # NoWalk => Good(walk[t].done \o walk[t].rest))
     /\ \A s \in Terms : Good(tcwd[s].segs)

(* A walk that no other task disturbed by switching drives ends where its    *)
(* path leads, through links that are relative, on the drive of the caller,  *)
(* or that name a drive; and what a caller makes is made there.              *)
WalkFinds ==
  [][\A t \in Tasks :
       Over(t) /\ walk'[t] = NoWalk /\ ~others[t] /\ ~walk[t].astray
         => Result(t) = Meant(walk[t])]_pathVars

(* What fs_resolve_path and ext2_find_path promise together.                 *)
PathsLead == []PathsCanonical /\ WalkFinds
==============================================================================

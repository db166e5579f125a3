------------------------------ MODULE MCConsole ------------------------------
(* The console: the sessions and who has their keyboard, the grid of one      *)
(* session, the canvas of the terminal program, listings, and what programs   *)
(* ask of the kernel, each on an instance of its own.  They share no state    *)
(* here; each behaviour is one of one part, and the calls of the programs are *)
(* three parts: reading keys, capturing the output of a command, and files.   *)
EXTENDS KernSessions, KernTerminal, KernWasi, KernExplore, TermCanvas, TLC
CONSTANTS p1, p2, p3, s1, s2, l1, l2
VARIABLE part

TheParents == (p1 :> NoProg) @@ (p2 :> p1) @@ (p3 :> NoProg)
TwoLens == {<<2>>, <<1, 2>>}

(* Sessions and the processes without a compositor are interchangeable: s1 is *)
(* shown first, p1 is made before p2, and p2 only while no switch or kill has *)
(* come in the middle of a line.                                              *)
InOrder == home[p2] # None => home[p1] # None /\ ~crossed

(* Directories to list: the root 2 with two blocks, 3 and 5 below it or below *)
(* each other, a file 4, and an inode that is not there.                     *)
Ent(n, ty) == [ino |-> n, type |-> ty, dots |-> FALSE, damaged |-> FALSE]
Dots == [Ent(2, "dir") EXCEPT !.dots = TRUE]
Bad == [Ent(4, "file") EXCEPT !.damaged = TRUE]
Removed == Ent(0, "file")
Volume(rootmap, b1, b2, b3, b5) ==
  [inodes |-> 2 :> [kind |-> "dir", map |-> rootmap] @@ 3 :> [kind |-> "dir", map |-> <<12>>]
              @@ 4 :> [kind |-> "file", map |-> << >>] @@ 5 :> [kind |-> "dir", map |-> <<13>>],
   blocks |-> 10 :> b1 @@ 11 :> b2 @@ 12 :> b3 @@ 13 :> b5]
Usual == Volume(<<10, 0, 11>>, <<Dots, Ent(3, "dir"), Ent(4, "file")>>, <<Ent(5, "unknown")>>,
                <<Dots, Ent(4, "file")>>, <<Removed, Ent(3, "dir")>>)
OnB == Volume(<<10, 11>>, <<Dots, Ent(3, "dir")>>, <<Ent(4, "file")>>, <<Ent(5, "dir")>>, << >>)
TheVolumes ==
  {[A |-> v, B |-> OnB] : v \in {Usual} \cup
     {Volume(<<10, 11>>, <<Dots, e>>, <<f>>, <<Dots, g, h>>, <<Ent(4, "file"), h>>) :
        e \in {Ent(3, "dir"), Ent(3, "unknown"), Ent(4, "file"), Removed, Ent(2, "dir"), Ent(9, "unknown"), Bad},
        f \in {Ent(4, "file"), Ent(5, "unknown"), Bad}, g \in {Ent(5, "dir"), Bad},
        h \in {Ent(2, "dir"), Ent(3, "unknown")}}}
ToList == {[drive |-> "A", ino |-> 2], [drive |-> "A", ino |-> 4], [drive |-> "B", ino |-> 2],
           [drive |-> "A", ino |-> 0]}
(* Two tasks list at the same time on the usual drives, the second with lsr. *)
ListersInOrder ==
  listing[l2] # NoCall => listing[l1] # NoCall /\ volume.A = Usual /\ listing[l2].how = "lsr"

Sizes == {[cols |-> 3, rows |-> 2], [cols |-> 2, rows |-> 3]}
PromptOf1 == <<">">>
SomeOutputs == {<<>>, <<"o">>, <<"o", "cr">>, <<"tab", "o">>}

ConsoleInit == /\ SessionInit /\ TermInit /\ HostInit /\ ExploreInit /\ CanvasInit /\ active = s1
               /\ part \in {"sessions", "grid", "keys", "capture", "descriptors", "listing", "canvas"}
               /\ part # "canvas" => size = [cols |-> 3, rows |-> 2]
               /\ part # "listing" => volume.A = Usual
ConsoleStep ==
  /\ UNCHANGED part
  /\ \/ part = "sessions" /\ SessionNext /\ UNCHANGED <<termVars, hostVars, exploreVars, canvasVars>>
     \/ part = "grid" /\ TermNext /\ UNCHANGED <<sessionVars, hostVars, exploreVars, canvasVars>>
     \/ part = "keys" /\ ConsoleNext /\ UNCHANGED <<sessionVars, termVars, exploreVars, canvasVars>>
     \/ part = "capture" /\ CaptureNext /\ UNCHANGED <<sessionVars, termVars, exploreVars, canvasVars>>
     \/ part = "descriptors" /\ FilesNext /\ UNCHANGED <<sessionVars, termVars, exploreVars, canvasVars>>
     \/ part = "listing" /\ ExploreNext /\ UNCHANGED <<sessionVars, termVars, hostVars, canvasVars>>
     \/ part = "canvas" /\ CanvasNext /\ UNCHANGED <<sessionVars, termVars, hostVars, exploreVars>>
ConsoleSpec == ConsoleInit /\ [][ConsoleStep]_<<sessionVars, termVars, hostVars, exploreVars, canvasVars, part>>
==============================================================================

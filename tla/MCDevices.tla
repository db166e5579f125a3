------------------------------ MODULE MCDevices ------------------------------
(* The input devices, and paths over two drives, each on an instance of its   *)
(* own: the PS/2 keyboard, the PS/2 mouse, two USB keyboards, and the walks of *)
(* the shell and a program.  They share no state here; each behaviour is one  *)
(* of one part.                                                               *)
EXTENDS KernKeyboard, KernMouse, KernXhci, KernPaths, TLC
CONSTANT s1
VARIABLE part

\* Bytes that can be taken for a first byte, as one that overflowed or not; a
\* movement that needs its ninth bit, and one that does not fit, whose bytes cannot.
SomeMoves == {<<44, -3>>, <<-12, 200>>, <<0, -300>>}
Plugs == <<"keyboard", "keyboard">>

\* Bound: the transfers laid for the reports of one keyboard, and of both; after a
\* wait that timed out two, for a keyboard that is not in the first slot.
Reports == MapThenSumSet(LAMBDA s : trbs_laid[s], polling)
FewReports == /\ (\A s \in polling : trbs_laid[s] <= 3) /\ Reports <= 4
              /\ late > 0 /\ Reports > 1 => Reports = 2 /\ 1 \notin polling

Dir(e) == [kind |-> "dir", entries |-> e]
File == [kind |-> "file"]
LinkTo(d, a, s) == [kind |-> "link", to |-> [drive |-> d, abs |-> a, segs |-> s]]
(* On A a directory with a file, a link up to it and a link to itself, and a *)
(* link to B; B has an inode of the same number that is something else.      *)
TwoDrives ==
  [A |-> (2 :> Dir([d |-> 3, l |-> 5, x |-> 7]) @@ 3 :> Dir([f |-> 4, up |-> 6]) @@ 4 :> File
          @@ 5 :> LinkTo("B", TRUE, <<"d">>) @@ 6 :> LinkTo(NoDrive, FALSE, <<"..", "d">>)
          @@ 7 :> LinkTo(NoDrive, FALSE, <<"x">>)),
   B |-> (2 :> Dir([d |-> 4, f |-> 3]) @@ 3 :> File @@ 4 :> Dir([f |-> 5, up |-> 6]) @@ 5 :> File
          @@ 6 :> LinkTo(NoDrive, FALSE, <<"f">>))]
P(d, a, s) == [drive |-> d, abs |-> a, segs |-> s]
SomePaths == {P(NoDrive, FALSE, <<"d", "up", "f">>), P(NoDrive, FALSE, <<"..", "l", "f">>),
              P(NoDrive, TRUE, <<"x", "f">>), P("B", TRUE, <<".", "d", "up">>), P("C", TRUE, <<"d">>)}

\* What is made is made by the program.
MakerIsProgram == walk[Shell] # NoWalk => ~walk[Shell].make

DevicesInit == KbdInit /\ MouseInit /\ XhciInit /\ PathInit /\ term = s1
               /\ part \in {"keyboard", "mouse", "usb", "paths"}
DevicesNext ==
  /\ UNCHANGED part
  /\ \/ part = "keyboard" /\ KbdNext /\ UNCHANGED <<mouseVars, xhciVars, pathVars>>
     \/ part = "mouse" /\ MouseNext /\ UNCHANGED <<kbdVars, xhciVars, pathVars>>
     \/ part = "usb" /\ XhciNext /\ UNCHANGED <<kbdVars, mouseVars, pathVars>>
     \/ part = "paths" /\ PathNext /\ UNCHANGED <<kbdVars, mouseVars, xhciVars>>
DevicesSpec == DevicesInit /\ [][DevicesNext]_<<kbdVars, mouseVars, xhciVars, pathVars, part>>
==============================================================================

---------------------------- MODULE KernSessions -----------------------------
(* The terminal sessions of kern_terminal.c and who gets the keyboard:       *)
(* session_switch, the main loop of main.c, the foreground pointers that     *)
(* wasm_spawn sets and process_exit clears, the foreground queue of          *)
(* kern_keyboard.c, and screen_push_line, which points active_session        *)
(* elsewhere while it writes.                                                *)
(*                                                                           *)
(* What session_save_globals copies (typing buffer, scrollback, directory)   *)
(* is reduced to the session it belongs to; the foreground queue is kept,    *)
(* with each key named by the process it was pushed for.  Output itself and  *)
(* the owner of the framebuffer are left out.                                *)
EXTENDS Naturals, Sequences, FiniteSets

CONSTANTS
  Sessions,
  Procs,        \* processes, each started at most once
  Comp,         \* the one that claims the compositor, or None
  Room,         \* keys the foreground queue holds
  None

ASSUME SessionAssumption == None \notin Procs \cup Sessions /\ Sessions # {}

VARIABLES
  active,       \* active_session
  glob,         \* the globals of the active session: [of, queue]
  slot,         \* what session_save_globals stored in each session
  fgp, fg,      \* foreground_proc and the foreground_proc of each session
  home,         \* terminal_session of each process, None before it is made
  alive, dead,  \* processes there are, and those whose threads are DEAD
  thread,       \* per process: "none", "run" or "line", inside screen_push_line
  saved,        \* per process: saved_active of screen_push_line
  lineActive,   \* screen_cellbuf_line_active
  boot,         \* the boot thread: where it is, and the process it is about
  front,        \* processes started in the foreground
  crossed         \* the session meant was not the active one when it was used
sessionVars == <<active, glob, slot, fgp, fg, home, alive, dead, thread, saved, lineActive, boot, front, crossed>>

SessionInit ==
  /\ active \in Sessions
  /\ slot = [s \in Sessions |-> [of |-> s, queue |-> <<>>]]
  /\ glob = slot[active]
  /\ fgp = None
  /\ fg = [s \in Sessions |-> None]
  /\ home = [p \in Procs |-> None]
  /\ alive = {} /\ dead = {}
  /\ thread = [p \in Procs |-> "none"]
  /\ saved = [p \in Procs |-> None]
  /\ lineActive = FALSE
  /\ boot = [at |-> "loop", p |-> None]
  /\ front = {}
  /\ crossed = FALSE

Writing == {p \in Procs : thread[p] = "line"}
Running(p) == thread[p] # "none" /\ p \notin dead
BootAt(l) == boot.at = l
BootGoto(l, p) == boot' = [at |-> l, p |-> p]

(* The session whose globals are in place: the active one, or what a writer  *)
(* has to put back.                                                          *)
Shown == IF Writing = {} THEN active ELSE saved[CHOOSE p \in Writing : TRUE]

(* compositor_is_active                                                      *)
CompActive == Comp \in alive /\ active = home[Comp]

------------------------------------------------------------------------------
(* A faulty variant: the foreground pointer is saved after it was replaced.  *)
SwitchForgets(s) ==
  /\ s # active
  /\ slot' = [slot EXCEPT ![active] = glob]
  /\ active' = s
  /\ glob' = slot[s]
  /\ fgp' = fg[s]
  /\ fg' = [fg EXCEPT ![active] = fg[s]]
  /\ crossed' = (crossed \/ Writing # {})

(* session_switch, with interrupts masked.                                   *)
Switch(s) ==
  /\ s # active
  /\ slot' = [slot EXCEPT ![active] = glob]
  /\ fg' = [fg EXCEPT ![active] = fgp]
  /\ active' = s
  /\ glob' = slot[s]
  /\ fgp' = fg[s]
  /\ crossed' = (crossed \/ Writing # {})

(* F1 to F4 in the main loop, and in poll_events_internal.                   *)
MainSwitch(s) ==
  /\ BootAt("loop")
  /\ Switch(s)
  /\ UNCHANGED <<home, alive, dead, thread, saved, lineActive, boot, front>>

PollSwitch(s) ==
  /\ Comp \in alive /\ Running(Comp) /\ thread[Comp] = "run"
  /\ CompActive
  /\ Switch(s)
  /\ UNCHANGED <<home, alive, dead, thread, saved, lineActive, boot, front>>

(* keyboard_fg_push and keyboard_fg_flush.                                   *)
Pushed(p) == IF Len(glob.queue) < Room THEN [glob EXCEPT !.queue = Append(@, p)] ELSE glob
Flushed == [glob EXCEPT !.queue = <<>>]

(* A key in the main loop.  Keys for the shell only change the typing buffer.*)
MainKey ==
  /\ BootAt("loop")
  /\ ~CompActive /\ fg[active] # None
  /\ glob' = Pushed(fg[active])
  /\ crossed' = (crossed \/ active # Shown)
  /\ UNCHANGED <<active, slot, fgp, fg, home, alive, dead, thread, saved, lineActive, boot, front>>

(* Ctrl+C in the main loop: the pointer is read, then the process behind it, *)
(* whose threads are killed, and then the pointer is cleared.                *)
CtrlCRead ==
  /\ BootAt("loop")
  /\ fg[active] # None
  /\ BootGoto("kill", fg[active])
  /\ crossed' = (crossed \/ active # Shown)
  /\ UNCHANGED <<active, glob, slot, fgp, fg, home, alive, dead, thread, saved, lineActive, front>>

CtrlCKill ==
  /\ BootAt("kill")
  /\ dead' = dead \cup ({boot.p} \cap alive)
  /\ BootGoto("clear", boot.p)
  /\ UNCHANGED <<active, glob, slot, fgp, fg, home, alive, thread, saved, lineActive, front, crossed>>

CtrlCClear ==
  /\ BootAt("clear")
  /\ fg' = [fg EXCEPT ![active] = None]
  /\ glob' = Flushed
  /\ BootGoto("loop", None)
  /\ crossed' = (crossed \/ active # Shown \/ fg[active] \notin {boot.p, None})
  /\ UNCHANGED <<active, slot, fgp, home, alive, dead, thread, saved, lineActive, front>>

------------------------------------------------------------------------------
(* wasm_spawn from the shell: process_create takes the active session.       *)
Spawn(p, foreground) ==
  /\ BootAt("loop")
  /\ ~CompActive /\ fg[active] = None
  /\ home[p] = None
  /\ home' = [home EXCEPT ![p] = active]
  /\ alive' = alive \cup {p}
  /\ front' = IF foreground THEN front \cup {p} ELSE front
  /\ BootGoto(IF foreground THEN "fgp" ELSE "start", p)
  /\ crossed' = (crossed \/ active # Shown)
  /\ UNCHANGED <<active, glob, slot, fgp, fg, dead, thread, saved, lineActive>>

SpawnGlobal ==
  /\ BootAt("fgp")
  /\ fgp' = boot.p
  /\ BootGoto("fg", boot.p)
  /\ UNCHANGED <<active, glob, slot, fg, home, alive, dead, thread, saved, lineActive, front, crossed>>

(* A faulty variant: what was typed before stays in the queue.               *)
SpawnSessionNoFlush ==
  /\ BootAt("fg")
  /\ fg' = [fg EXCEPT ![active] = boot.p]
  /\ BootGoto("start", boot.p)
  /\ crossed' = (crossed \/ fgp # boot.p \/ active # Shown)
  /\ UNCHANGED <<active, glob, slot, fgp, home, alive, dead, thread, saved, lineActive, front>>

(* ... and the session's pointer, and the flush.                             *)
SpawnSession ==
  /\ BootAt("fg")
  /\ fg' = [fg EXCEPT ![active] = boot.p]
  /\ glob' = Flushed
  /\ BootGoto("start", boot.p)
  /\ crossed' = (crossed \/ fgp # boot.p \/ active # Shown)
  /\ UNCHANGED <<active, slot, fgp, home, alive, dead, thread, saved, lineActive, front>>

SpawnThread(wait) ==
  /\ BootAt("start")
  /\ thread' = [thread EXCEPT ![boot.p] = "run"]
  /\ IF wait THEN BootGoto("wait", boot.p) ELSE BootGoto("loop", None)
  /\ UNCHANGED <<active, glob, slot, fgp, fg, home, alive, dead, saved, lineActive, front, crossed>>

(* process_exit, with all its pointers.                                      *)
Drop(p) == [s \in Sessions |-> IF fg[s] = p THEN None ELSE fg[s]]

SpawnFails ==
  /\ BootAt("start")
  /\ fgp' = IF boot.p \in front \/ fgp = boot.p THEN None ELSE fgp
  /\ fg' = IF boot.p \in front THEN [Drop(boot.p) EXCEPT ![active] = None] ELSE Drop(boot.p)
  /\ alive' = alive \ {boot.p}
  /\ crossed' = (crossed \/ (boot.p \in front /\ fg[active] # boot.p))
  /\ BootGoto("loop", None)
  /\ UNCHANGED <<active, glob, slot, home, dead, thread, saved, lineActive, front>>

(* The loop of wasm_spawn that waits for the child and pumps keys to it,     *)
(* function keys too.                                                        *)
WaitKey ==
  /\ BootAt("wait")
  /\ boot.p \in alive /\ boot.p \in front
  /\ glob' = Pushed(boot.p)
  /\ crossed' = (crossed \/ home[boot.p] # Shown)
  /\ UNCHANGED <<active, slot, fgp, fg, home, alive, dead, thread, saved, lineActive, boot, front>>

WaitCtrlC ==
  /\ BootAt("wait")
  /\ boot.p \in alive \ dead /\ boot.p \in front
  /\ dead' = dead \cup {boot.p}
  /\ glob' = Flushed
  /\ UNCHANGED <<active, slot, fgp, fg, home, alive, thread, saved, lineActive, boot, front, crossed>>

WaitDone ==
  /\ BootAt("wait")
  /\ boot.p \notin alive
  /\ BootGoto("loop", None)
  /\ UNCHANGED <<active, glob, slot, fgp, fg, home, alive, dead, thread, saved, lineActive, front, crossed>>

------------------------------------------------------------------------------
(* screen_push_line by a process whose session has cells.  Inside another    *)
(* thread's line it only writes to the scrollback.                           *)
LineBegin(p) ==
  /\ Running(p) /\ thread[p] = "run" /\ ~lineActive
  /\ lineActive' = TRUE
  /\ saved' = [saved EXCEPT ![p] = active]
  /\ active' = home[p]
  /\ thread' = [thread EXCEPT ![p] = "line"]
  /\ UNCHANGED <<glob, slot, fgp, fg, home, alive, dead, boot, front, crossed>>

(* The session that was shown before the line is put back, even if it was   *)
(* switched meanwhile.                                                       *)
LineEnd(p) ==
  /\ Running(p) /\ thread[p] = "line"
  /\ active' = saved[p]
  /\ lineActive' = FALSE
  /\ thread' = [thread EXCEPT ![p] = "run"]
  /\ saved' = [saved EXCEPT ![p] = None]
  /\ UNCHANGED <<glob, slot, fgp, fg, home, alive, dead, boot, front, crossed>>

(* keyboard_fg_eat in fd_read of descriptor 0.                               *)
Read(p) ==
  /\ Running(p) /\ thread[p] = "run"
  /\ glob.queue # <<>>
  /\ glob' = [glob EXCEPT !.queue = Tail(@)]
  /\ UNCHANGED <<active, slot, fgp, fg, home, alive, dead, thread, saved, lineActive, boot, front, crossed>>

Exit(p) ==
  /\ Running(p) /\ thread[p] = "run"
  /\ dead' = dead \cup {p}
  /\ UNCHANGED <<active, glob, slot, fgp, fg, home, alive, thread, saved, lineActive, boot, front, crossed>>

(* The reaper calls process_exit.                                            *)
Reap(p) ==
  /\ p \in dead
  /\ alive' = alive \ {p}
  /\ dead' = dead \ {p}
  /\ fgp' = IF fgp = p THEN None ELSE fgp
  /\ fg' = Drop(p)
  /\ crossed' = (crossed \/ thread[p] = "line")
  /\ thread' = [thread EXCEPT ![p] = "none"]
  /\ UNCHANGED <<active, glob, slot, home, saved, lineActive, boot, front>>

SessionNext ==
  \/ \E s \in Sessions : MainSwitch(s) \/ PollSwitch(s)
  \/ MainKey \/ CtrlCRead \/ CtrlCKill \/ CtrlCClear
  \/ \E p \in Procs, f \in BOOLEAN : Spawn(p, f)
  \/ SpawnGlobal \/ SpawnSession \/ SpawnFails
  \/ \E w \in BOOLEAN : SpawnThread(w)
  \/ WaitKey \/ WaitCtrlC \/ WaitDone
  \/ \E p \in Procs : LineBegin(p) \/ LineEnd(p) \/ Read(p) \/ Exit(p) \/ Reap(p)

SessionSpec == SessionInit /\ [][SessionNext]_sessionVars

------------------------------------------------------------------------------
(* No foreground pointer outlives its process: neither foreground_proc nor   *)
(* that of a session not shown leads to a freed structure, although Ctrl+C   *)
(* clears only one of them and a switch saves the other (process_exit).      *)
ForegroundLive ==
  /\ fgp \in alive \cup {None}
  /\ \A s \in Sessions : fg[s] \in alive \cup {None}

(* "Global swap on session switch keeps all old code working": the typing    *)
(* buffer, queue and scrollback in the globals are those of the session      *)
(* shown, and every other session keeps its own, unless a switch or a kill   *)
(* came in the middle of a line (crossed).                                     *)
GlobalsBelong ==
  ~crossed =>
    /\ glob.of = Shown
    /\ \A s \in Sessions \ {Shown} : slot[s].of = s

(* A program running in the foreground keeps the keyboard of its session     *)
(* until it ends, through switches, lines and the deaths of others.          *)
ForegroundKept ==
  ~crossed => \A p \in front : Running(p) => fg[home[p]] = p \/ (Shown = home[p] /\ fgp = p)

(* Who has the keyboard: no dangling pointer, no other session's globals, and *)
(* no program in the foreground that lost its keys.                          *)
SessionsKept == ForegroundLive /\ GlobalsBelong /\ ForegroundKept

(* The foreground program of the session shown eats only keys that were      *)
(* pushed for it: none meant for the program before it.  Programs that read  *)
(* in other sessions eat from the same queue.                                *)
KeysReachForeground ==
  [][\A p \in Procs : Read(p) /\ fg[Shown] = p /\ ~crossed => Head(glob.queue) = p]_sessionVars
==============================================================================

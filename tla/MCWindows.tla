------------------------------ MODULE MCWindows ------------------------------
(* The window system: the compositor's table and queues in the kernel, the    *)
(* window manager with its terminals, once with one of them and once with     *)
(* another one after it, and the pixels on the screen, each on an instance of *)
(* its own.  They share no state here; each behaviour is one of one part.     *)
EXTENDS KernCompositor, KernWm, WmScreen, TLC
CONSTANTS p1, p2
VARIABLE part

SomeSteps == {<<1, 0>>, <<-1, 1>>, <<0, -1>>}

WindowsInit == /\ CompInit /\ WmInit /\ ScreenInit
               /\ part \in {"kernel", "desk", "restart", "screen"}
WindowsNext ==
  /\ UNCHANGED part
  /\ \/ part = "kernel" /\ CompNext /\ UNCHANGED <<wmVars, screenVars>>
     \/ part \in {"desk", "restart"} /\ WmNext /\ UNCHANGED <<compVars, screenVars>>
     \/ part = "screen" /\ ScreenNext /\ UNCHANGED <<compVars, wmVars>>
WindowsSpec == WindowsInit /\ [][WindowsNext]_<<compVars, wmVars, screenVars, part>>

(* Once an event is lost nothing is claimed of the rest any more, and nothing *)
(* else depends on it.                                                        *)
NothingLost == ~lost /\ lapped = {} /\ ~dropped

(* Two events in a row in a queue differ, so that their order shows.          *)
Alternating ==
  /\ \A i \in WinSlots : \A k \in 2 .. Len(due[i]) : due[i][k - 1] # due[i][k]
  /\ \A r \in DOMAIN sent : \A k \in DOMAIN sent[r] : sent[r][k] = IF k % 2 = 1 THEN "a" ELSE "b"

(* Processes are interchangeable: p2 is the compositor after p1 at most.  No  *)
(* input is routed once a third window was made.  Two terminals get one key,  *)
(* while both are up, and one terminal gets three; a second window manager    *)
(* meets one ring of the first at most.                                       *)
Started == Len(g_spawn_queue) + Cardinality(TermIds \ Fresh)
BothUp == \A t \in TermIds : terms[t].at \notin {"gone", "start", "init1", "init2"}
Small == /\ Cardinality(dead \cup Handles) < MaxMade \/ \A i \in WinSlots : due[i] = << >>
         /\ g_compositor_pid = p2 => p1 \notin alive
         /\ part = "desk" => lives = 1 /\ (Started = 2 => Len(FlattenSeq(sent)) <= IF BothUp THEN 1 ELSE 0)
         /\ part = "restart" => Len(rings) <= 1 /\ Started <= 1 /\ Len(FlattenSeq(sent)) <= 1

(* What was received stays in the rings, and what a window held in its slot   *)
(* until the slot is used again; neither is read, so states that differ only  *)
(* there are one.  So are states in which the queue of a window, or the ring  *)
(* of a terminal, begins at another place.                                    *)
KernelView ==
  <<alive, g_compositor_pid, g_window_generation, g_event_read, Queued, pc, told, lost, dead,
    [i \in Active |-> <<g_windows[i].handle, g_windows[i].pid,
                        InQueue(g_windows[i]), due[i]>>]>>
TermView(t) == IF terms[t].at = "gone" THEN <<terms[t].ring>>
               ELSE <<terms[t].at, terms[t].ring, terms[t].sig, terms[t].geo>>
KeysView(t) ==
  IF ~Alive(t) \/ terms[t].ring = 0 THEN << >>
  ELSE LET r == terms[t].ring
           n == Len(taken[t])
       IN <<(terms[t].tail - terms[t].head) % RingSize, (rings[r].tail - terms[t].head) % RingSize,
            Waiting(t), SubSeq(sent[r], n + 1, Len(sent[r])), taken[t] = SubSeq(sent[r], 1, n)>>
DeskView ==
  <<g_spawn_queue, [r \in DOMAIN rings |-> <<rings[r].geo, rings[r].wm>>],
    [t \in TermIds |-> <<TermView(t), KeysView(t)>>], windows, focused_idx, pending_shm, wm, todo,
    full_redraw, retry_child_ready, Len(FlattenSeq(sent)), lapped, lives>>
View == CASE part = "kernel" -> <<part, KernelView>>
          [] part = "screen" -> <<part, screenVars>>
          [] OTHER           -> <<part, DeskView>>
==============================================================================

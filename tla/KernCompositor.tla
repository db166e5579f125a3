---------------------------- MODULE KernCompositor ----------------------------
(***************************************************************************)
(* Windows and events of kern_compositor.c: the window table with its      *)
(* handles, the event ring that every process and the boot thread write    *)
(* and the compositor polls, and the event queue of each window.           *)
(*                                                                         *)
(* What the code does with interrupts masked is one step.                  *)
(* compositor_push_event does not mask them: where its caller does not     *)
(* either, a push is two steps, and the caller may be preempted or killed  *)
(* between them.  Titles, sizes, buffers and pixels are left out.          *)
(***************************************************************************)
EXTENDS Integers, Sequences, SequencesExt, FiniteSets, FiniteSetsExt

CONSTANTS
  Proc,      \* the processes
  Boot,      \* the main loop of the boot thread, which only pushes keys and mouse events
  Nobody,    \* -1 in g_compositor_pid
  MaxWin,    \* MAX_COMPOSITOR_WINDOWS
  EvSize,    \* COMPOSITOR_EVENT_QUEUE_SIZE
  QSize,     \* CLIENT_EVENT_QUEUE_SIZE
  GenSpace,  \* the generations of handles: 16 bits
  Data,      \* the contents of events routed to windows
  MaxMade    \* bound on the windows created

ASSUME CompAssumption ==
  /\ Boot \notin Proc /\ Nobody \notin Proc \cup {Boot}
  /\ MaxWin \in Nat \ {0} /\ EvSize \in Nat \ {0, 1} /\ QSize \in Nat \ {0, 1}
  /\ GenSpace \in Nat \ {0} /\ MaxMade \in Nat

VARIABLES
  alive,      \* the processes that have not exited
  g_compositor_pid,
  g_windows,
  g_window_generation,
  g_event_buf, g_event_read, g_event_write,
  pc,         \* where each process is in compositor_push_event or wasm_wm_route_input
  known,      \* history: the windows the compositor knows from the events it has polled
  older,      \* history: the windows there were when the compositor claimed its role
  lost,       \* history: a window event was dropped, or a push cut in two by another one
  dead,       \* history: handles of destroyed windows
  due         \* history: for the window of a slot, the events routed to it and not received

windowVars == <<g_windows, g_window_generation>>
ring == <<g_event_buf, g_event_read, g_event_write>>
told == <<known, older>>
compVars == <<alive, g_compositor_pid, windowVars, ring, pc, told, lost, dead, due>>

WinSlots == 0 .. MaxWin - 1
EvSlots == 0 .. EvSize - 1
QSlots == 0 .. QSize - 1
Idle == [at |-> "idle"]

\* A handle is a generation and a slot.
Handle(gen, i) == <<gen, i>>
NoHandle == Handle(0, 0)
NoWindow == [active |-> FALSE, handle |-> NoHandle, pid |-> Nobody,
             buf |-> [q \in QSlots |-> Nobody], read |-> 0, write |-> 0]

\* Events: [type |-> "created" or "destroyed", win |-> a handle], or any other.
Other == [type |-> "other", win |-> NoHandle]

CompInit ==
  /\ alive = Proc /\ g_compositor_pid = Nobody
  /\ g_windows = [i \in WinSlots |-> NoWindow] /\ g_window_generation = 1
  /\ g_event_buf = [s \in EvSlots |-> Other] /\ g_event_read = 0 /\ g_event_write = 0
  /\ pc = [p \in Proc \cup {Boot} |-> Idle]
  /\ known = {} /\ older = {} /\ lost = FALSE /\ dead = {}
  /\ due = [i \in WinSlots |-> << >>]

------------------------------------------------------------------------------
(* Handles *)

Active == {i \in WinSlots : g_windows[i].active}
Handles == {g_windows[i].handle : i \in Active}

\* The next generation, which is never 0.
NextGeneration(g) == IF g + 1 = GenSpace THEN 1 ELSE g + 1

\* compositor_find_window_by_handle: the slots (one or none) a handle leads to.
\* As an i32 the handles of the upper half of the generations are negative, and
\* are not looked for.
Found(h) ==
  {i \in Active : i = h[2] /\ g_windows[i].handle = h /\ 0 < h[1] /\ h[1] < GenSpace \div 2}

\* compositor_find_window_by_pid
FirstOf(p) == LET s == {i \in Active : g_windows[i].pid = p} IN IF s = {} THEN s ELSE {Min(s)}

------------------------------------------------------------------------------
(* The event ring *)

EvNext(s) == (s + 1) % EvSize
Full == EvNext(g_event_write) = g_event_read

\* A push with interrupts enabled is under way; another one now cuts it in two.
Cuts == \E p \in Proc \cup {Boot} : pc[p].at = "push"

\* compositor_push_event for each of a sequence of events, with interrupts masked.
PushAll(evs) ==
  LET room == (g_event_read + EvSize - g_event_write - 1) % EvSize
      n    == Min({room, Len(evs)})
      in   == [k \in 1 .. n |-> (g_event_write + k - 1) % EvSize]
  IN /\ g_event_buf' = [s \in EvSlots |->
           IF \E k \in 1 .. n : in[k] = s THEN evs[CHOOSE k \in 1 .. n : in[k] = s]
           ELSE g_event_buf[s]]
     /\ g_event_write' = (g_event_write + n) % EvSize
     /\ lost' = (lost \/ n < Len(evs) \/ (n > 0 /\ Cuts))
     /\ UNCHANGED g_event_read

\* The same if there is a compositor to tell.
Tell(evs) ==
  IF g_compositor_pid = Nobody THEN UNCHANGED <<ring, lost>> ELSE PushAll(evs)

\* A push with interrupts enabled (keys, mouse, present, commits, titles and
\* sizes): the caller finds that there is a compositor; then the pointers are
\* read; later the slot and the write pointer are stored.
PushCheck(p) ==
  /\ pc[p] = Idle /\ p \in alive \cup {Boot}
  /\ g_compositor_pid # Nobody
  /\ pc' = [pc EXCEPT ![p] = [at |-> "present"]]
  /\ UNCHANGED <<alive, g_compositor_pid, windowVars, ring, told, lost, dead, due>>

PushRead(p) ==
  /\ pc[p].at = "present"
  /\ pc' = [pc EXCEPT ![p] = IF Full THEN Idle ELSE [at |-> "push", write |-> g_event_write]]
  /\ UNCHANGED <<alive, g_compositor_pid, windowVars, ring, told, lost, dead, due>>

PushStore(p) ==
  /\ pc[p].at = "push"
  /\ g_event_buf' = [g_event_buf EXCEPT ![pc[p].write] = Other]
  /\ g_event_write' = EvNext(pc[p].write)
  /\ pc' = [pc EXCEPT ![p] = Idle]
  /\ lost' = (lost \/ \E q \in DOMAIN pc \ {p} : pc[q].at = "push")
  /\ UNCHANGED <<alive, g_compositor_pid, windowVars, g_event_read, told, dead, due>>

\* What the compositor knows after it has seen the events evs, knowing k before:
\* the windows with no later event that they are gone.
GoneAfter(evs, i, h) == \E j \in i + 1 .. Len(evs) : evs[j].type = "destroyed" /\ evs[j].win = h
Seen(k, evs) ==
  {h \in k : ~GoneAfter(evs, 0, h)} \cup
  {evs[i].win : i \in {j \in 1 .. Len(evs) : evs[j].type = "created" /\ ~GoneAfter(evs, j, evs[j].win)}}

\* The events in the ring, in the order of the read pointer.
Queued ==
  [k \in 1 .. (g_event_write + EvSize - g_event_read) % EvSize |->
     g_event_buf[(g_event_read + k - 1) % EvSize]]

\* The masked loop of poll_events_internal, for a buffer of n events.
PollEvents(p, n) ==
  LET k == Min({n, Len(Queued)})
  IN /\ pc[p] = Idle /\ p = g_compositor_pid /\ k > 0
     /\ g_event_read' = (g_event_read + k) % EvSize
     /\ known' = Seen(known, SubSeq(Queued, 1, k))
     /\ UNCHANGED <<alive, g_compositor_pid, windowVars, g_event_buf, g_event_write, pc, older, lost,
                    dead, due>>

------------------------------------------------------------------------------
(* The compositor and the windows *)

\* wasm_display_claim_compositor
Claim(p) ==
  /\ pc[p] = Idle /\ p \in alive /\ g_compositor_pid = Nobody
  /\ g_compositor_pid' = p
  /\ known' = {} /\ older' = Handles
  /\ UNCHANGED <<alive, windowVars, ring, pc, lost, dead, due>>

\* A new window of p in slot i, with an empty queue.
Made(p, i) ==
  [NoWindow EXCEPT !.active = TRUE, !.handle = Handle(NextGeneration(g_window_generation), i),
                   !.pid = p, !.buf = g_windows[i].buf]

\* wasm_window_create, and wasm_display_claim_buffer for a process without a window.
Create(p) ==
  /\ pc[p] = Idle /\ p \in alive
  /\ Active # WinSlots /\ Cardinality(dead \cup Handles) < MaxMade
  /\ LET i == Min(WinSlots \ Active)
     IN /\ g_windows' = [g_windows EXCEPT ![i] = Made(p, i)]
        /\ g_window_generation' = NextGeneration(g_window_generation)
        /\ Tell(<<[type |-> "created", win |-> g_windows'[i].handle]>>)
        /\ due' = [due EXCEPT ![i] = << >>]
  /\ UNCHANGED <<alive, g_compositor_pid, pc, told, dead>>

\* wasm_display_claim_buffer for a process that has a window: the commit is
\* pushed with interrupts masked.
ClaimBuffer(p) ==
  /\ pc[p] = Idle /\ p \in alive
  /\ g_compositor_pid \notin {Nobody, p} /\ FirstOf(p) # {}
  /\ PushAll(<<Other>>)
  /\ UNCHANGED <<alive, g_compositor_pid, windowVars, pc, told, dead, due>>

\* wasm_window_destroy, by the owner or the compositor.
Destroy(p, h) ==
  /\ pc[p] = Idle /\ p \in alive
  /\ \E i \in Found(h) :
       /\ p \in {g_windows[i].pid, g_compositor_pid}
       /\ g_windows' = [g_windows EXCEPT ![i].active = FALSE]
  /\ Tell(<<[type |-> "destroyed", win |-> h]>>)
  /\ dead' = dead \cup {h}
  /\ UNCHANGED <<alive, g_compositor_pid, g_window_generation, pc, told, due>>

\* A faulty variant: the ring of a dead compositor is left to the next one.
DrainedNot == g_event_read

\* The read pointer of the drained ring.
Drained == g_event_write

\* The k-th slot of S.
NthOf(S, k) == CHOOSE i \in S : Cardinality({j \in S : j <= i}) = k

\* compositor_child_cleanup for p: its windows go; if p is the compositor the
\* ring is emptied and nobody is told.
ChildCleanup(p) ==
  LET mine == {i \in Active : g_windows[i].pid = p}
      evs  == [k \in 1 .. Cardinality(mine) |->
                 [type |-> "destroyed", win |-> g_windows[NthOf(mine, k)].handle]]
  IN /\ g_windows' = [i \in WinSlots |->
           IF i \in mine THEN [g_windows[i] EXCEPT !.active = FALSE] ELSE g_windows[i]]
     /\ dead' = dead \cup {g_windows[i].handle : i \in mine}
     /\ IF p = g_compositor_pid
        THEN /\ g_compositor_pid' = Nobody
             /\ g_event_read' = Drained
             /\ known' = {} /\ older' = {}
             /\ UNCHANGED <<g_event_buf, g_event_write, lost>>
        ELSE Tell(evs) /\ UNCHANGED <<g_compositor_pid, told>>

\* process_exit, of a process that may be killed in the middle of a call.
Exit(p) ==
  /\ p \in alive
  /\ alive' = alive \ {p}
  /\ pc' = [pc EXCEPT ![p] = Idle]
  /\ ChildCleanup(p)
  /\ UNCHANGED <<g_window_generation, due>>

------------------------------------------------------------------------------
(* The queues of the windows *)

QNext(q) == (q + 1) % QSize

\* wasm_wm_route_input: the handle is looked up with interrupts enabled.
RouteFind(p, h, d) ==
  /\ pc[p] = Idle /\ p = g_compositor_pid
  /\ \E i \in Found(h) :
       pc' = [pc EXCEPT ![p] = [at |-> "route", slot |-> i, data |-> d]]
  /\ UNCHANGED <<alive, g_compositor_pid, windowVars, ring, told, lost, dead, due>>

\* A faulty variant: the queue is not tested.
NoRoomNever(w) == FALSE

\* The queue of a window is full.
NoRoom(w) == QNext(w.write) = w.read

\* Then, with interrupts masked, the event is stored unless the queue is full.
RouteStore(p) ==
  LET i == pc[p].slot
      w == g_windows[i]
  IN /\ pc[p].at = "route"
     /\ pc' = [pc EXCEPT ![p] = Idle]
     /\ IF NoRoom(w) THEN UNCHANGED <<g_windows, due>>
        ELSE /\ g_windows' = [g_windows EXCEPT ![i].buf[w.write] = pc[p].data,
                                               ![i].write = QNext(w.write)]
             /\ due' = [due EXCEPT ![i] = Append(@, pc[p].data)]
     /\ UNCHANGED <<alive, g_compositor_pid, g_window_generation, ring, told, lost, dead>>

\* The events in the queue of a window.
InQueue(w) ==
  [k \in 1 .. (w.write + QSize - w.read) % QSize |-> w.buf[(w.read + k - 1) % QSize]]

\* What is left of a caller's buffer of n events before slot i, if the events
\* of the windows in mine are put into it slot after slot.
LeftAfter(mine, i, r) == IF i \in mine THEN r - Min({r, Len(InQueue(g_windows[i]))}) ELSE r
LeftBefore(mine, n) ==
  LET room[i \in 0 .. MaxWin] == IF i = 0 THEN n ELSE LeftAfter(mine, i - 1, room[i - 1])
  IN room

\* wasm_winput_poll for n events of the windows in S.
WinputPoll(p, S, n) ==
  LET mine == {i \in Active : g_windows[i].pid = p} \cap S
      room == LeftBefore(mine, n)
      take(i) == IF i \in mine THEN room[i] - room[i + 1] ELSE 0
  IN /\ pc[p] = Idle /\ p \in alive /\ room[MaxWin] < n
     /\ g_windows' = [i \in WinSlots |->
          [g_windows[i] EXCEPT !.read = (@ + take(i)) % QSize]]
     /\ due' = [i \in WinSlots |-> SubSeq(due[i], take(i) + 1, Len(due[i]))]
     /\ UNCHANGED <<alive, g_compositor_pid, g_window_generation, ring, pc, told, lost, dead>>

CompNext ==
  \/ \E p \in Proc :
       \/ Claim(p) \/ Create(p) \/ ClaimBuffer(p) \/ Exit(p)
       \/ \E h \in Handles : Destroy(p, h) \/ \E d \in Data : RouteFind(p, h, d)
       \/ RouteStore(p)
       \/ \E n \in {1, EvSize} : PollEvents(p, n)
       \/ \E n \in {1, MaxWin * QSize}, S \in {WinSlots} \cup {{i} : i \in WinSlots} : WinputPoll(p, S, n)
  \/ \E p \in Proc \cup {Boot} : PushCheck(p) \/ PushRead(p) \/ PushStore(p)

CompSpec == CompInit /\ [][CompNext]_compVars

------------------------------------------------------------------------------
(* Properties *)

\* The compositor's view is right: after the events that wait in the ring it
\* knows exactly the windows created since it claimed its role that are still
\* there, over destruction by the owner or itself, exits and a full ring, until
\* a window event is dropped or a push with interrupts enabled is cut in two
\* (window.create, window.destroy, compositor_child_cleanup).
WmKnowsWindows ==
  (~lost /\ g_compositor_pid # Nobody) => Seen(known, Queued) = Handles \ older

\* The handle of a destroyed window never leads to another one, however often
\* its slot is used again; windows that are there have different handles.
StaleHandlesFail ==
  /\ \A h \in dead : Found(h) = {}
  /\ \A i, j \in Active : g_windows[i].handle = g_windows[j].handle => i = j

\* The compositor and the kernel agree on the windows, by their handles.
WindowsKnown == WmKnowsWindows /\ StaleHandlesFail

\* What waits in the queue of a window is what was routed to it since it was
\* created and not yet received, in order, over full queues and slots that are
\* used again: the next polls deliver each event once.
InputInOrder == \A i \in Active : InQueue(g_windows[i]) = due[i]
==============================================================================

------------------------------- MODULE KernWm --------------------------------
(* The window manager and its terminals: the programs wm.c and term.c, and   *)
(* the host functions they meet through: proc.spawn and proc.dequeueSpawn    *)
(* (kern_compositor.c), the shared page with the ring of keys, and signals.  *)
(*                                                                           *)
(* What a program does to its own variables cannot be seen from outside, so  *)
(* a step ends at the next call that others can see: todo holds the calls    *)
(* the window manager still has to make for what it has decided.             *)
(*                                                                           *)
(* Which event comes next from the user is free (its queue is that of        *)
(* KernCompositor).  Left out: what a terminal does with a key, titles,      *)
(* positions and pixels.  Waiting for a signal is one step here; how the     *)
(* kernel does it is KernSignals.  A terminal takes no notice of the signals *)
(* that tell it of the focus, which are left out.  The commit a terminal     *)
(* pushes (WM_EV_WIN_COMMITTED) is an event of a type wm.c does not look at: *)
(* it wakes the loop at most (LoopAgain).                                    *)
EXTENDS Integers, Sequences, SequencesExt, FiniteSets

CONSTANTS
  MaxTerms,    \* bound: spawns
  MaxWindows,
  RingSize,    \* 256 cells of keys in the shared page
  Typed,       \* keys that are forwarded
  MaxTyped,    \* bound: keys forwarded
  WmLives      \* bound: window managers one after the other

ASSUME WmAssumption ==
  /\ MaxTerms \in Nat /\ MaxWindows \in Nat \ {0} /\ RingSize \in Nat \ {0, 1}
  /\ MaxTyped \in Nat /\ WmLives \in Nat \ {0}

VARIABLES
  g_spawn_queue,  \* the ring ids passed to proc.spawn and not dequeued
  rings,          \* the shared pages: by id, [tail, keys, geo]; the head is the terminal's
  terms,          \* the terminals: by number
  windows,        \* window_t: [term, focused, ring, tail]
  focused_idx,    \* its place in windows, 0 for none
  pending_shm,    \* the ring of the spawn under way, 0 for none
  wm,             \* where the loop of the window manager is
  todo,           \* the calls it has still to make
  full_redraw, retry_child_ready,
  shown,          \* by terminal, how much of its work is in the last composite
  sent, taken,    \* history: the keys published in a ring; those a terminal has read
  lapped,         \* history: rings filled to the last cell, which then look empty
  lives
wmVars == <<g_spawn_queue, rings, terms, windows, focused_idx, pending_shm, wm, todo, full_redraw,
            retry_child_ready, shown, sent, taken, lapped, lives>>
shared == <<g_spawn_queue, rings, terms, sent, taken, lapped>>
desk == <<windows, focused_idx, pending_shm>>
frame == <<full_redraw, retry_child_ready, shown>>

TermIds == 1 .. MaxTerms
Cells == 0 .. RingSize - 1
NewRing == [tail |-> 0, keys |-> [c \in Cells |-> "none"], geo |-> <<0, 0>>, wm |-> TRUE]
NoTerm == [at |-> "none", ring |-> 0, sig |-> {}, head |-> 0, tail |-> 0, geo |-> <<0, 0>>, drawn |-> 0]

WmInit ==
  /\ g_spawn_queue = <<>> /\ rings = <<>>
  /\ terms = [t \in TermIds |-> NoTerm]
  /\ windows = <<>> /\ focused_idx = 0 /\ pending_shm = 0
  /\ wm = "dequeue" /\ todo = <<>> /\ full_redraw = FALSE /\ retry_child_ready = 0
  /\ shown = [t \in TermIds |-> 0]
  /\ sent = <<>> /\ taken = [t \in TermIds |-> <<>>] /\ lapped = {}
  /\ lives = 1

------------------------------------------------------------------------------
(* The calls that are seen outside                                           *)
Signal(t, s) == [op |-> "signal", term |-> t, sig |-> s]
WriteKey(r, c, k) == [op |-> "key", ring |-> r, cell |-> c, key |-> k]
WriteTail(r, c) == [op |-> "tail", ring |-> r, cell |-> c]
WriteGeo(r, part, n) == [op |-> "geo", ring |-> r, part |-> part, n |-> n]

Alive(t) == terms[t].at \notin {"none", "gone"}

(* Whom a key published now would be the last free cell for.                 *)
Unread(r) == LET t == {u \in TermIds : terms[u].ring = r /\ terms[u].at # "none"}
             IN Len(sent[r]) - (IF t = {} THEN 0 ELSE Len(taken[CHOOSE u \in t : TRUE]))

DoCall ==
  /\ todo # <<>> /\ todo' = Tail(todo)
  /\ LET c == Head(todo) IN
     \/ /\ c.op = "signal"
        /\ terms' = IF Alive(c.term) THEN [terms EXCEPT ![c.term].sig = @ \cup {c.sig}] ELSE terms
        /\ UNCHANGED <<rings, sent, lapped>>
     \/ /\ c.op = "key" /\ rings' = [rings EXCEPT ![c.ring].keys[c.cell] = c.key]
        /\ UNCHANGED <<terms, sent, lapped>>
     \/ /\ c.op = "tail" /\ rings' = [rings EXCEPT ![c.ring].tail = c.cell]
        /\ sent' = [sent EXCEPT ![c.ring] = Append(@, rings[c.ring].keys[rings[c.ring].tail])]
        /\ lapped' = IF Unread(c.ring) + 1 = RingSize THEN lapped \cup {c.ring} ELSE lapped
        /\ UNCHANGED terms
     \/ /\ c.op = "geo" /\ rings' = [rings EXCEPT ![c.ring].geo[c.part] = c.n]
        /\ UNCHANGED <<terms, sent, lapped>>
  /\ UNCHANGED <<g_spawn_queue, desk, wm, frame, taken, lives>>

------------------------------------------------------------------------------
(* The window manager                                                        *)

(* focus_window: the windows after the focus goes from i to j.               *)
Focused(ws, i, j) ==
  [k \in DOMAIN ws |-> [ws[k] EXCEPT !.focused = IF k = i THEN k = j ELSE @ \/ k = j]]
FocusWindow(j) ==
  /\ j \in DOMAIN windows /\ j # focused_idx
  /\ windows' = Focused(windows, focused_idx, j) /\ focused_idx' = j
  /\ UNCHANGED todo

(* tile_all: the size of a cell, which depends on how many windows there are,*)
(* is written byte after byte.                                               *)
Tiling(ws) ==
  FlattenSeq([i \in DOMAIN ws |-> IF ws[i].ring = 0 THEN <<>> ELSE
    <<WriteGeo(ws[i].ring, 1, Len(ws)), WriteGeo(ws[i].ring, 2, Len(ws)), Signal(ws[i].term, "key")>>])

Ready == todo = <<>> /\ wm = "poll"

(* send_key_to_focused.  A faulty variant: the terminal is woken before the  *)
(* key is published.                                                         *)
KeyCallsEarly(w, k) ==
  <<WriteKey(w.ring, w.tail, k), Signal(w.term, "key"), WriteTail(w.ring, (w.tail + 1) % RingSize)>>
KeyCalls(w, k) ==
  <<WriteKey(w.ring, w.tail, k), WriteTail(w.ring, (w.tail + 1) % RingSize), Signal(w.term, "key")>>
KeyToFocused(k) ==
  /\ Ready /\ focused_idx # 0
  /\ Len(FlattenSeq(sent)) < MaxTyped
  /\ full_redraw' = TRUE
  /\ LET w == windows[focused_idx] IN
     IF w.ring = 0 THEN UNCHANGED <<windows, todo>>
     ELSE /\ todo' = KeyCalls(w, k)
          /\ windows' = [windows EXCEPT ![focused_idx].tail = (@ + 1) % RingSize]
  /\ UNCHANGED <<shared, focused_idx, pending_shm, wm, retry_child_ready, shown, lives>>

(* enqueue_spawn, at Enter without windows or Alt+Space: a ring is made for  *)
(* the terminal if there is memory for it.                                   *)
Pending(made) == IF made THEN Len(rings) + 1 ELSE 0
EnqueueSpawn ==
  /\ Ready /\ Len(windows) < MaxWindows
  /\ Len(rings) < MaxTerms
  /\ \E made \in BOOLEAN :
       /\ pending_shm' = Pending(made)
       /\ rings' = IF made THEN Append(rings, NewRing) ELSE rings
       /\ sent' = IF made THEN Append(sent, <<>>) ELSE sent
       /\ g_spawn_queue' = Append(g_spawn_queue, IF made THEN Len(rings) + 1 ELSE 0)
  /\ wm' = "dequeue" /\ full_redraw' = TRUE
  /\ UNCHANGED <<terms, taken, lapped, windows, focused_idx, todo, retry_child_ready, shown, lives>>

Fresh == {t \in TermIds : terms[t].at = "none"}

(* dequeue_pending_spawns: a spawn that succeeds makes a window, which gets  *)
(* the focus.                                                                *)
Spawned ==
  /\ todo = <<>> /\ wm = "dequeue" /\ Len(windows) < MaxWindows
  /\ g_spawn_queue # <<>> /\ g_spawn_queue' = Tail(g_spawn_queue)
  /\ \E t \in Fresh :
       /\ \A u \in Fresh : t <= u
       /\ terms' = [terms EXCEPT ![t] = [NoTerm EXCEPT !.at = "start", !.ring = Head(g_spawn_queue)]]
       /\ LET ws == Append(windows, [term |-> t, focused |-> FALSE, ring |-> pending_shm, tail |-> 0])
              n == Len(ws)
          IN /\ windows' = Focused(ws, focused_idx, n) /\ focused_idx' = n
             /\ todo' = Tiling(ws)
  /\ pending_shm' = 0 /\ full_redraw' = TRUE
  /\ UNCHANGED <<rings, sent, taken, lapped, wm, retry_child_ready, shown, lives>>

SpawnFails ==
  /\ todo = <<>> /\ wm = "dequeue" /\ Len(windows) < MaxWindows
  /\ g_spawn_queue # <<>> /\ g_spawn_queue' = Tail(g_spawn_queue)
  /\ wm' = "poll"
  /\ UNCHANGED <<rings, terms, sent, taken, lapped, desk, todo, frame, lives>>

Dequeued ==
  /\ todo = <<>> /\ wm = "dequeue" /\ (g_spawn_queue = <<>> \/ Len(windows) = MaxWindows)
  /\ wm' = "poll"
  /\ UNCHANGED <<shared, desk, todo, frame, lives>>

(* Tab takes the focus to the next window, a click to the one that is hit.   *)
Focus(j) ==
  /\ Ready /\ FocusWindow(j)
  /\ full_redraw' = TRUE
  /\ UNCHANGED <<shared, pending_shm, wm, retry_child_ready, shown, lives>>

(* Ctrl+Q: close_window of the focused one, then tile_all.  A faulty variant:*)
(* the index is left as it is when the last window goes.                     *)
AfterClosingSame(i, n) == IF n = 0 THEN 0 ELSE i
AfterClosing(i, n) == IF i > n THEN n ELSE i
CloseWindow ==
  /\ Ready /\ focused_idx # 0
  /\ LET ws == RemoveAt(windows, focused_idx)
         f == AfterClosing(focused_idx, Len(ws))
     IN /\ focused_idx' = f
        /\ windows' = Focused(ws, 0, f)
        /\ todo' = <<Signal(windows[focused_idx].term, "close")>> \o Tiling(ws)
  /\ full_redraw' = TRUE
  /\ UNCHANGED <<shared, pending_shm, wm, retry_child_ready, shown, lives>>

(* The event that the kernel sends when a session is shown again.            *)
SessionShown ==
  /\ Ready /\ full_redraw' = TRUE
  /\ UNCHANGED <<shared, desk, wm, todo, retry_child_ready, shown, lives>>

(* The end of a batch of events: composite_frame if there is cause; a child  *)
(* without a buffer is tried again in the next two rounds.                   *)
HasBuffer(t) == Alive(t) /\ terms[t].at # "start"
Composite ==
  /\ Ready /\ (full_redraw \/ retry_child_ready > 0)
  /\ shown' = [t \in TermIds |-> IF \E i \in DOMAIN windows : windows[i].term = t /\ HasBuffer(t)
                                 THEN terms[t].drawn ELSE shown[t]]
  /\ retry_child_ready' = IF \E i \in DOMAIN windows : ~HasBuffer(windows[i].term) THEN 2
                          ELSE IF retry_child_ready > 0 THEN retry_child_ready - 1 ELSE 0
  /\ full_redraw' = FALSE /\ wm' = "dequeue"
  /\ UNCHANGED <<shared, desk, todo, lives>>

(* A batch of events without cause for a frame; the loop goes on.            *)
LoopAgain ==
  /\ Ready /\ ~full_redraw /\ retry_child_ready = 0
  /\ wm' = "dequeue"
  /\ UNCHANGED <<shared, desk, todo, frame, lives>>

(* The window manager ends; its variables and handles go, the terminals and  *)
(* the queue of spawns stay.  Another one may be started.                    *)
WmEnds ==
  /\ lives < WmLives /\ lives' = lives + 1
  /\ rings' = [r \in DOMAIN rings |-> [rings[r] EXCEPT !.wm = FALSE]]
  /\ windows' = <<>> /\ focused_idx' = 0 /\ pending_shm' = 0 /\ todo' = <<>>
  /\ wm' = "dequeue" /\ full_redraw' = FALSE /\ retry_child_ready' = 0
  /\ UNCHANGED <<g_spawn_queue, terms, shown, sent, taken, lapped>>

------------------------------------------------------------------------------
(* A terminal                                                                *)
TermVars(t) == UNCHANGED <<g_spawn_queue, rings, desk, wm, todo, frame, sent, lapped, lives>>
TermAt(t, place) == terms[t].at = place

(* It claims its buffer and attaches to the ring it was given, which is      *)
(* still there if the window manager that made it is.                        *)
TermStart(t) ==
  /\ TermAt(t, "start")
  /\ terms' = [terms EXCEPT ![t].at = "init1", ![t].ring = IF @ # 0 /\ rings[@].wm THEN @ ELSE 0]
  /\ TermVars(t) /\ UNCHANGED taken

(* update_geometry reads the size byte after byte, at the start and in every *)
(* round.                                                                    *)
Then == [init1 |-> "init2", init2 |-> "round", size1 |-> "size2", size2 |-> "keys"]
ReadSize(t) ==
  /\ terms[t].at \in DOMAIN Then
  /\ LET part == IF terms[t].at \in {"init1", "size1"} THEN 1 ELSE 2
     IN terms' = [terms EXCEPT ![t].at = Then[@],
                    ![t].geo[part] = IF terms[t].ring = 0 THEN @ ELSE rings[terms[t].ring].geo[part]]
  /\ TermVars(t) /\ UNCHANGED taken

(* The tail is read once for all the keys of a round.                        *)
ReadTail(t) ==
  /\ TermAt(t, "keys")
  /\ terms' = [terms EXCEPT ![t].at = "round", ![t].tail = rings[terms[t].ring].tail]
  /\ TermVars(t) /\ UNCHANGED taken

TakeKey(t) ==
  /\ TermAt(t, "round") /\ terms[t].head # terms[t].tail
  /\ taken' = [taken EXCEPT ![t] = Append(@, rings[terms[t].ring].keys[terms[t].head])]
  /\ terms' = [terms EXCEPT ![t].head = (@ + 1) % RingSize]
  /\ TermVars(t)

(* term_render and display.present, then back to the wait.                   *)
RoundDone(t) ==
  /\ TermAt(t, "round") /\ terms[t].head = terms[t].tail
  /\ terms' = [terms EXCEPT ![t].at = "wait", ![t].drawn = Len(taken[t]) + 1]
  /\ TermVars(t) /\ UNCHANGED taken

Woken(t) ==
  /\ TermAt(t, "wait") /\ terms[t].sig # {}
  /\ terms' = [terms EXCEPT ![t].sig = {},
                 ![t].at = IF "close" \in terms[t].sig THEN "gone"
                           ELSE IF "key" \in terms[t].sig /\ terms[t].ring # 0 THEN "size1" ELSE "wait"]
  /\ TermVars(t) /\ UNCHANGED taken

TermKilled(t) ==
  /\ Alive(t)
  /\ terms' = [terms EXCEPT ![t].at = "gone"]
  /\ TermVars(t) /\ UNCHANGED taken

TermStep(t) ==
  TermStart(t) \/ ReadSize(t) \/ ReadTail(t) \/ TakeKey(t) \/ RoundDone(t) \/ Woken(t)
WmStep ==
  DoCall \/ Spawned \/ SpawnFails \/ Dequeued \/ Composite \/ LoopAgain

WmNext ==
  \/ WmStep
  \/ \E k \in Typed : KeyToFocused(k)
  \/ EnqueueSpawn \/ CloseWindow \/ SessionShown \/ \E j \in 1 .. MaxWindows : Focus(j)
  \/ WmEnds
  \/ \E t \in TermIds : TermStep(t) \/ TermKilled(t)

WmSpec == WmInit /\ [][WmNext]_wmVars
FairWmSpec == WmSpec /\ WF_wmVars(WmStep) /\ \A t \in TermIds : WF_wmVars(TermStep(t))

------------------------------------------------------------------------------
Waiting(t) == LET r == rings[terms[t].ring] IN
  [i \in 1 .. (r.tail + RingSize - terms[t].head) % RingSize |-> r.keys[(terms[t].head + i - 1) % RingSize]]

(* What a terminal has read of its ring and what still waits there is what   *)
(* was typed for it, in order, however often the ring goes round and         *)
(* whenever the terminal reads it, until the ring is filled to its last cell *)
(* (wm.c 222-230, term.c 500-535).                                           *)
KeysInOrder == \A t \in TermIds :
  Alive(t) /\ terms[t].ring \notin lapped \cup {0} => taken[t] \o Waiting(t) = sent[terms[t].ring]

(* A terminal with an open window that waits with no signal pending or on    *)
(* its way has read every key and the size it was given last: neither is     *)
(* lost to signals that fall together (wm.c 219-221).                        *)
OnItsWay(t) == "key" \in terms[t].sig \/ \E i \in DOMAIN todo : todo[i] = Signal(t, "key")
NothingUnseen == \A i \in DOMAIN windows :
  LET t == windows[i].term IN
  terms[t].at = "wait" /\ windows[i].ring # 0 /\ ~OnItsWay(t)
    => Waiting(t) = <<>> /\ terms[t].geo = rings[windows[i].ring].geo

(* A key pressed in a window reaches its terminal, in order and at once.     *)
KeysArrive == KeysInOrder /\ NothingUnseen

(* While there are windows exactly one has the focus, the one at focused_idx,*)
(* over spawning, closing, Tab and clicks; and a window's ring is the one    *)
(* its terminal was started with and no other window's, also after spawns    *)
(* that failed or that another window manager left (wm.c 188-215, 261-323).  *)
WindowsAgree ==
  /\ {i \in DOMAIN windows : windows[i].focused} = {focused_idx} \ {0}
  /\ windows = <<>> <=> focused_idx = 0
  /\ \A i \in DOMAIN windows : windows[i].ring # 0 =>
       /\ terms[windows[i].term].ring = windows[i].ring
       /\ \A j \in DOMAIN windows \ {i} : windows[j].ring # windows[i].ring

(* wm.c 521-522: a child that has drawn is CHILD_DIRTY / CHILD_DIRTY_RECT,   *)
(* and everything is drawn again: what a terminal has drawn gets shown.      *)
DirtyIsShown == \A t \in TermIds :
  terms[t].drawn > shown[t] ~> terms[t].drawn = shown[t] \/ ~Alive(t)
==============================================================================

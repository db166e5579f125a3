---------------------------- MODULE WindowsProofs ----------------------------
(***************************************************************************)
(* Proofs about the windows: for every size of the screen and the cursor   *)
(* and any movements, what is shown once the window manager has caught up; *)
(* for every number of windows and every queue, the order of the input.    *)
(*                                                                         *)
(* The buffer of the window manager is always the last frame with a cursor *)
(* in it (BufferInv).  The screen is that buffer, but for the pixels that  *)
(* a present under way has still to copy; and whenever it may be anything  *)
(* else, because another session is shown, was shown, or an event was      *)
(* dropped, there is an event on its way that has all of it drawn again    *)
(* (Stale, ScreenInv).                                                     *)
(*                                                                         *)
(* The queue of every slot, in use or not, holds what is due to it         *)
(* (QueueInv): what is stored is appended, what a poll takes is the front  *)
(* of the queue, and a poll never takes more than there is.                *)
(*                                                                         *)
(* The compositor knows the windows there are (WindowInv): a generation is *)
(* used once, so that handles tell apart windows there are, windows gone   *)
(* and windows to come (HandleInv); a push under way stores where the ring *)
(* ends, while no event was lost (PushInv); and what the compositor will   *)
(* know once it has taken the events that wait is the windows there        *)
(* are without those older than itself (TellInv).                          *)
(***************************************************************************)
EXTENDS KernCompositor, WmScreen, KernWmProofs, FiniteSetTheorems

Shades == {"even", "odd", "cursor", "text"}

ScreenTypes ==
  /\ events \in Seq(Steps \cup {Dirty}) /\ Len(events) <= EventRoom
  /\ dropped \in BOOLEAN /\ redraw \in BOOLEAN /\ shownsession \in BOOLEAN
  /\ cursor \in Pixels /\ prev_cursor \in Pixels
  /\ clean \in {"even", "odd"} /\ screen \in [Pixels -> Shades]
  /\ wmat \in {"poll", "present", "copy", "done"}

\* The buffer of the window manager: before the pointer is drawn anew it is
\* where it was.
BufferInv == fb = Overlay(clean, IF wmat = "poll" THEN prev_cursor ELSE cursor)

\* Everything will be drawn again, or an event was dropped.
Stale ==
  \/ dropped \/ ~shownsession \/ switching = "draw"
  \/ \E i \in 1 .. Len(events) : events[i] = Dirty

\* What is not on the screen is copied by the present under way.
ScreenInv ==
  ~Stale => /\ wmat = "poll" /\ ~redraw => screen = fb
            /\ wmat \in {"present", "copy"} => \A p \in Pixels \ damage : screen[p] = fb[p]
            /\ wmat = "done" => screen = fb

ShownInv == ScreenTypes /\ BufferInv /\ ScreenInv
------------------------------------------------------------------------------
\* The rectangle that is presented after a movement covers both cursors.
LEMMA AroundCovers ==
  ASSUME NEW a \in Pixels, NEW b \in Pixels
  PROVE  CursorAt(a) \cup CursorAt(b) \subseteq Around(a, b)
<1>1. ASSUME NEW x \in Int, NEW y \in Int
      PROVE  /\ Min({x, y}) \in Int /\ Min({x, y}) <= x /\ Min({x, y}) <= y
             /\ Max({x, y}) \in Int /\ Max({x, y}) >= x /\ Max({x, y}) >= y
  <2>1. PICK m \in {x, y} : m = Min({x, y}) /\ \A z \in {x, y} : m <= z
    <3>1. \E m \in {x, y} : \A z \in {x, y} : m <= z
      OBVIOUS
    <3> QED
      BY <3>1 DEF Min
  <2>2. PICK n \in {x, y} : n = Max({x, y}) /\ \A z \in {x, y} : n >= z
    <3>1. \E n \in {x, y} : \A z \in {x, y} : n >= z
      OBVIOUS
    <3> QED
      BY <3>1 DEF Max
  <2> QED
    BY <2>1, <2>2
<1>2. Arm \in Nat
  BY ScreenAssumption DEF ScreenAssumption
<1>3. ASSUME NEW p \in CursorAt(a) \cup CursorAt(b), NEW d \in {1, 2}
      PROVE  Min({a[d], b[d]}) - Arm <= p[d] /\ p[d] < Max({a[d], b[d]}) + Arm + 1
  <2>1. p[d] \in Int /\ a[d] \in Int /\ b[d] \in Int
    BY <1>3 DEF CursorAt, Pixels
  <2>2. p[d] - a[d] \in -Arm .. Arm \/ p[d] - b[d] \in -Arm .. Arm
    BY <1>3 DEF CursorAt
  <2>3. /\ Min({a[d], b[d]}) \in Int /\ Min({a[d], b[d]}) <= a[d] /\ Min({a[d], b[d]}) <= b[d]
        /\ Max({a[d], b[d]}) \in Int /\ Max({a[d], b[d]}) >= a[d] /\ Max({a[d], b[d]}) >= b[d]
    BY <1>1, <2>1
  <2> QED
    BY <1>2, <2>1, <2>2, <2>3
<1> QED
  BY <1>3 DEF Around, CursorAt

\* The pointer stays on the screen, whatever the mouse says.
LEMMA ClampedIn ==
  ASSUME NEW x \in Int, NEW n \in Nat \ {0}
  PROVE  Clamped(x, n) \in 0 .. n - 1
<1>1. PICK m \in {x, n - 1} : m = Min({x, n - 1}) /\ m <= n - 1 /\ m <= x
  <2>1. \E m \in {x, n - 1} : \A z \in {x, n - 1} : m <= z
    OBVIOUS
  <2> QED
    BY <2>1 DEF Min
<1>2. PICK k \in {0, m} : k = Max({0, m}) /\ k >= 0 /\ k >= m
  <2>1. \E k \in {0, m} : \A z \in {0, m} : k >= z
    BY <1>1
  <2> QED
    BY <2>1 DEF Max
<1> QED
  BY <1>1, <1>2 DEF Clamped

\* A frame with a cursor in it has shades only.
LEMMA OverlayShades ==
  ASSUME NEW f \in {"even", "odd"}, NEW q
  PROVE  Overlay(f, q) \in [Pixels -> Shades]
<1> QED
  BY DEF Overlay, Shades

\* Nothing is on the screen at first.
LEMMA ScreenInitInv == ScreenInit => ShownInv
<1> SUFFICES ASSUME ScreenInit PROVE ShownInv
  OBVIOUS
<1> USE ScreenAssumption DEF ScreenAssumption
<1>1. Centre \in Pixels
  BY DEF Centre, Pixels
<1>2. << >> \in Seq(Steps \cup {Dirty}) /\ Len(<< >>) = 0
  OBVIOUS
<1>3. ScreenTypes
  <2>1. fb \in [Pixels -> Shades]
    BY OverlayShades DEF ScreenInit
  <2>2. events \in Seq(Steps \cup {Dirty}) /\ Len(events) <= EventRoom
    BY <1>2 DEF ScreenInit
  <2> QED
    BY <1>1, <2>1, <2>2 DEF ScreenInit, ScreenTypes
<1> QED
  BY <1>3 DEF ScreenInit, ShownInv, BufferInv, ScreenInv

\* An event that is pushed is at the end of the queue, or was dropped.
LEMMA PushKeeps ==
  ASSUME ScreenTypes, NEW e \in Steps \cup {Dirty}, PushEvent(e)
  PROVE  /\ events' \in Seq(Steps \cup {Dirty}) /\ Len(events') <= EventRoom
         /\ dropped' \in BOOLEAN
         /\ dropped => dropped'
         /\ (\E i \in 1 .. Len(events) : events[i] = Dirty) => \E i \in 1 .. Len(events') : events'[i] = Dirty
         /\ e = Dirty => dropped' \/ \E i \in 1 .. Len(events') : events'[i] = Dirty
<1>1. EventRoom \in Nat \ {0} /\ events \in Seq(Steps \cup {Dirty}) /\ Len(events) \in Nat
  BY ScreenAssumption DEF ScreenAssumption, ScreenTypes
<1>2. CASE Len(events) = EventRoom
  <2>1. events' = events
    BY <1>1, <1>2 DEF PushEvent
  <2>2. dropped' = TRUE
    BY <1>2 DEF PushEvent
  <2> QED
    BY <1>1, <1>2, <2>1, <2>2 DEF ScreenTypes
<1>3. CASE Len(events) < EventRoom
  <2>1. events' = Append(events, e) /\ dropped' = dropped
    BY <1>1, <1>3 DEF PushEvent, ScreenTypes
  <2>2. /\ Len(events') = Len(events) + 1 /\ events'[Len(events) + 1] = e
        /\ \A i \in 1 .. Len(events) : events'[i] = events[i]
        /\ events' \in Seq(Steps \cup {Dirty})
    BY <1>1, <2>1
  <2> QED
    BY <1>1, <1>3, <2>1, <2>2 DEF ScreenTypes
<1> QED
  BY <1>1, <1>2, <1>3 DEF ScreenTypes

\* A movement does not take the wish to draw everything again from the queue.
LEMMA TailKeeps ==
  ASSUME ScreenTypes, events # << >>
  PROVE  /\ Head(events) \in Steps \cup {Dirty}
         /\ Tail(events) \in Seq(Steps \cup {Dirty}) /\ Len(Tail(events)) <= EventRoom
         /\ (Head(events) # Dirty /\ \E i \in 1 .. Len(events) : events[i] = Dirty)
              => \E i \in 1 .. Len(Tail(events)) : Tail(events)[i] = Dirty
<1>1. EventRoom \in Nat \ {0} /\ events \in Seq(Steps \cup {Dirty}) /\ Len(events) \in Nat \ {0}
  BY ScreenAssumption DEF ScreenAssumption, ScreenTypes
<1>2. /\ Head(events) = events[1] /\ Head(events) \in Steps \cup {Dirty}
      /\ Tail(events) \in Seq(Steps \cup {Dirty}) /\ Len(Tail(events)) = Len(events) - 1
      /\ \A i \in 1 .. Len(events) - 1 : Tail(events)[i] = events[i + 1]
  BY <1>1
<1>3. ASSUME NEW i \in 1 .. Len(events), events[i] = Dirty, Head(events) # Dirty
      PROVE  \E j \in 1 .. Len(Tail(events)) : Tail(events)[j] = Dirty
  <2>1. i - 1 \in 1 .. Len(Tail(events)) /\ (i - 1) + 1 = i
    BY <1>1, <1>2, <1>3
  <2> QED
    BY <1>2, <1>3, <2>1
<1> QED
  BY <1>1, <1>2, <1>3 DEF ScreenTypes

\* Every step keeps the frame, the cursor and the screen in agreement.
LEMMA ScreenInvStep == ShownInv /\ [ScreenNext]_screenVars => ShownInv'
<1> SUFFICES ASSUME ShownInv, [ScreenNext]_screenVars PROVE ShownInv'
  OBVIOUS
<1>0. ScreenTypes /\ BufferInv /\ ScreenInv
  BY DEF ShownInv
<1>1. CASE UserEvent
  <2>1. PICK e \in Steps \cup {Dirty} : PushEvent(e)
    BY <1>1 DEF UserEvent
  <2>2. ScreenTypes' /\ BufferInv'
    BY <1>0, <1>1, <2>1, PushKeeps DEF UserEvent, ScreenTypes, BufferInv
  <2>3. Stale => Stale'
    BY <1>0, <1>1, <2>1, PushKeeps DEF UserEvent, Stale
  <2>4. ScreenInv'
    BY <1>0, <1>1, <2>3 DEF UserEvent, ScreenInv
  <2> QED
    BY <2>2, <2>4 DEF ShownInv
<1>2. CASE HandleEvent
  <2>1. UNCHANGED <<dropped, prev_cursor, clean, fb, screen, wmat, damage, shownsession, switching>>
    BY <1>2 DEF HandleEvent
  <2>2. events # << >> /\ events' = Tail(events) /\ wmat = "poll"
    BY <1>2 DEF HandleEvent
  <2>3. BufferInv'
    BY <1>0, <2>1, <2>2 DEF BufferInv
  <2>4. CASE Head(events) = Dirty
    <3>1. redraw' = TRUE /\ cursor' = cursor
      BY <1>2, <2>4 DEF HandleEvent
    <3>2. ScreenTypes'
      BY <1>0, <2>1, <2>2, <3>1, TailKeeps DEF ScreenTypes
    <3> QED
      BY <2>1, <2>2, <2>3, <3>1, <3>2 DEF ShownInv, ScreenInv
  <2>5. CASE Head(events) # Dirty
    <3>1. /\ redraw' = redraw
          /\ cursor' = <<Clamped(cursor[1] + Head(events)[1], Width),
                         Clamped(cursor[2] + Head(events)[2], Height)>>
      BY <1>2, <2>5 DEF HandleEvent
    <3>2. cursor' \in Pixels
      <4>1. Head(events) \in Int \X Int
        BY <1>0, <2>2, <2>5, TailKeeps, ScreenAssumption DEF ScreenAssumption
      <4>2. cursor[1] + Head(events)[1] \in Int /\ cursor[2] + Head(events)[2] \in Int
        BY <1>0, <4>1 DEF ScreenTypes, Pixels
      <4> QED
        BY <3>1, <4>2, ClampedIn, ScreenAssumption DEF ScreenAssumption, Pixels
    <3>3. ScreenTypes'
      BY <1>0, <2>1, <2>2, <3>1, <3>2, TailKeeps DEF ScreenTypes
    <3>4. Stale => Stale'
      BY <1>0, <2>1, <2>2, <2>5, TailKeeps DEF Stale
    <3> QED
      BY <1>0, <2>1, <2>2, <2>3, <3>1, <3>3, <3>4 DEF ShownInv, ScreenInv
  <2> QED
    BY <2>4, <2>5
<1>3. CASE CompositeFrame
  <2>1. /\ UNCHANGED <<events, dropped, cursor, prev_cursor, screen, redraw, mouse_moved, shownsession, switching>>
        /\ clean' = Another(clean) /\ fb' = Overlay(clean', cursor)
        /\ damage' = Pixels /\ wmat' = "present"
    BY <1>3 DEF CompositeFrame
  <2>2. ScreenTypes' /\ BufferInv'
    BY <1>0, <2>1 DEF ScreenTypes, BufferInv, Another
  <2>3. ScreenInv'
    BY <2>1 DEF ScreenInv
  <2> QED
    BY <2>2, <2>3 DEF ShownInv
<1>4. CASE MoveCursor
  <2>1. /\ UNCHANGED <<events, dropped, cursor, prev_cursor, clean, screen, redraw, mouse_moved,
                       shownsession, switching>>
        /\ fb' = [p \in Pixels |-> IF p \in CursorAt(cursor) THEN "cursor"
                                   ELSE IF p \in CursorAt(prev_cursor) THEN clean ELSE fb[p]]
        /\ damage' = Around(prev_cursor, cursor) /\ wmat' = "present"
        /\ wmat = "poll" /\ ~redraw
    BY <1>4 DEF MoveCursor
  <2>2. fb = Overlay(clean, prev_cursor)
    BY <1>0, <2>1 DEF BufferInv
  <2>3. fb' = Overlay(clean, cursor)
    BY <2>1, <2>2 DEF Overlay
  <2>4. ScreenTypes' /\ BufferInv'
    BY <1>0, <2>1, <2>3 DEF ScreenTypes, BufferInv
  <2>5. \A p \in Pixels \ damage' : fb'[p] = fb[p]
    BY <1>0, <2>1, AroundCovers DEF ScreenTypes
  <2>6. ScreenInv'
    BY <1>0, <2>1, <2>5 DEF ScreenInv, Stale
  <2> QED
    BY <2>4, <2>6 DEF ShownInv
<1>5. CASE PresentCheck
  <2>1. UNCHANGED <<events, dropped, cursor, prev_cursor, clean, fb, screen, redraw, mouse_moved, damage,
                    shownsession, switching>>
    BY <1>5 DEF PresentCheck
  <2>2. wmat = "present" /\ wmat' = IF shownsession THEN "copy" ELSE "done"
    BY <1>5 DEF PresentCheck
  <2> QED
    BY <1>0, <2>1, <2>2 DEF ShownInv, ScreenTypes, BufferInv, ScreenInv, Stale
<1>6. CASE PresentCopy
  <2>1. /\ UNCHANGED <<events, dropped, cursor, prev_cursor, clean, fb, redraw, mouse_moved, damage,
                       shownsession, switching>>
        /\ screen' = [p \in Pixels |-> IF p \in damage THEN fb[p] ELSE screen[p]]
        /\ wmat = "copy" /\ wmat' = "done"
    BY <1>6 DEF PresentCopy
  <2>2. fb = Overlay(clean, cursor)
    BY <1>0, <2>1 DEF BufferInv
  <2>3. fb \in [Pixels -> Shades]
    BY <1>0, <2>2, OverlayShades DEF ScreenTypes
  <2>4. ScreenTypes' /\ BufferInv'
    BY <1>0, <2>1, <2>3 DEF ScreenTypes, BufferInv
  <2>5. (\A p \in Pixels \ damage : screen[p] = fb[p]) => screen' = fb
    BY <2>1, <2>3
  <2>6. ScreenInv'
    BY <1>0, <2>1, <2>5 DEF ScreenInv, Stale
  <2> QED
    BY <2>4, <2>6 DEF ShownInv
<1>7. CASE Presented
  <2>1. /\ UNCHANGED <<events, dropped, cursor, clean, fb, screen, shownsession, switching>>
        /\ wmat = "done" /\ wmat' = "poll" /\ prev_cursor' = cursor /\ redraw' = FALSE
    BY <1>7 DEF Presented
  <2> QED
    BY <1>0, <2>1 DEF ShownInv, ScreenTypes, BufferInv, ScreenInv, Stale
<1>8. CASE SessionSwitch
  <2>1. /\ UNCHANGED <<events, dropped, cursor, prev_cursor, clean, fb, screen, redraw, mouse_moved, wmat, damage>>
        /\ shownsession' = ~shownsession /\ switching' = "draw"
    BY <1>8 DEF SessionSwitch
  <2> QED
    BY <1>0, <2>1 DEF ShownInv, ScreenTypes, BufferInv, ScreenInv, Stale
<1>9. CASE SessionDraw
  <2>1. UNCHANGED <<cursor, prev_cursor, clean, fb, redraw, mouse_moved, wmat, damage, shownsession>>
    BY <1>9 DEF SessionDraw
  <2>2. CASE shownsession
    <3>1. PushEvent(Dirty) /\ screen' = screen
      BY <1>9, <2>2 DEF SessionDraw
    <3>2. ScreenTypes' /\ Stale'
      BY <1>0, <2>1, <3>1, PushKeeps DEF ScreenTypes, Stale
    <3> QED
      BY <1>0, <2>1, <3>2 DEF ShownInv, BufferInv, ScreenInv
  <2>3. CASE ~shownsession
    <3>1. screen' = [p \in Pixels |-> "text"] /\ UNCHANGED <<events, dropped>>
      BY <1>9, <2>3 DEF SessionDraw
    <3>2. ScreenTypes' /\ Stale'
      BY <1>0, <2>1, <2>3, <3>1 DEF ScreenTypes, Stale, Shades
    <3> QED
      BY <1>0, <2>1, <3>2 DEF ShownInv, BufferInv, ScreenInv
  <2> QED
    BY <2>2, <2>3
<1>10. CASE UNCHANGED screenVars
  BY <1>0, <1>10 DEF screenVars, ShownInv, ScreenTypes, BufferInv, ScreenInv, Stale
<1> QED
  BY <1>1, <1>2, <1>3, <1>4, <1>5, <1>6, <1>7, <1>8, <1>9, <1>10 DEF ScreenNext

\* When the window manager has caught up and its session is shown, the screen is
\* its last frame with one cursor, where the mouse is, for every size of screen
\* and cursor: the rectangle of presentRect covers both cursors, and whatever a
\* session switch, even between the test and the copy of present, has left on
\* the screen is drawn over (wm.c, kern_compositor.c, session_switch).
THEOREM FrameOnScreen == ScreenSpec => []ScreenShowsFrame
<1>1. ShownInv => ScreenShowsFrame
  <2> SUFFICES ASSUME ShownInv, Settled, shownsession, ~dropped PROVE screen = Overlay(clean, cursor)
    BY DEF ScreenShowsFrame
  <2>1. ~Stale
    BY DEF Settled, Stale
  <2> QED
    BY <2>1 DEF ShownInv, ScreenInv, BufferInv, Settled
<1>2. ScreenSpec => []ShownInv
  BY ScreenInitInv, ScreenInvStep, PTL DEF ScreenSpec
<1> QED
  BY <1>1, <1>2, PTL
------------------------------------------------------------------------------
(* The queues of the windows                                                 *)

Windows == [active : BOOLEAN, handle : Int \X Int, pid : Proc \cup {Nobody},
            buf : [QSlots -> Data \cup {Nobody}], read : QSlots, write : QSlots]

\* The number of events in a queue, and the place of the k-th.
Held(w) == IF w.read <= w.write THEN w.write - w.read ELSE w.write + QSize - w.read
Wrap(x) == IF x < QSize THEN x ELSE x - QSize
HeldAt(w, k) == Wrap(w.read + k - 1)

\* The place n places after r.
After(r, n) == (r + n) % QSize

\* Inside one turn of the queue a remainder is a subtraction.
LEMMA OneTurn ==
  ASSUME CompAssumption, NEW x \in 0 .. 2 * QSize - 1
  PROVE  x % QSize = IF x < QSize THEN x ELSE x - QSize
<1>1. QSize \in Nat \ {0, 1}
  BY DEF CompAssumption
<1>2. CASE x < QSize
  BY <1>1, <1>2
<1>3. CASE x >= QSize
  <2>1. x = QSize + (x - QSize) /\ x - QSize \in 0 .. QSize - 1
    BY <1>1, <1>3
  <2> QED
    BY <1>1, <1>3, <2>1
<1> QED
  BY <1>1, <1>2, <1>3

\* How many places of a ring of Q are left, and which, from n places on.
LEMMA FewerLeft ==
  ASSUME NEW Q \in Nat \ {0, 1}, NEW a \in 0 .. Q - 1, NEW b \in 0 .. Q - 1,
         NEW n \in Nat, NEW c, c = IF a + n < Q THEN a + n ELSE a + n - Q,
         n <= (IF a <= b THEN b - a ELSE b + Q - a)
  PROVE  (IF c <= b THEN b - c ELSE b + Q - c) = (IF a <= b THEN b - a ELSE b + Q - a) - n
<1>1. CASE a + n < Q
  BY <1>1
<1>2. CASE Q <= a + n
  BY <1>2
<1> QED
  BY <1>1, <1>2

\* Where the k-th event is after n were taken.
LEMMA SamePlaces ==
  ASSUME QSize \in Nat \ {0, 1}, NEW a \in 0 .. QSize - 1, NEW n \in Nat, NEW c, c = Wrap(a + n),
         NEW k \in Int, k > 0, k <= QSize - n
  PROVE  Wrap(c + k - 1) = Wrap(a + (k + n) - 1)
<1>1. CASE a + n < QSize
  BY <1>1 DEF Wrap
<1>2. CASE QSize <= a + n
  BY <1>2 DEF Wrap
<1> QED
  BY <1>1, <1>2

\* What waits in a queue.
LEMMA InQueueIs ==
  ASSUME CompAssumption, NEW w \in Windows
  PROVE  /\ Held(w) \in 0 .. QSize - 1
         /\ \A k \in 1 .. Held(w) : HeldAt(w, k) \in QSlots
         /\ InQueue(w) = [k \in 1 .. Held(w) |-> w.buf[HeldAt(w, k)]]
         /\ InQueue(w) \in Seq(Data \cup {Nobody}) /\ Len(InQueue(w)) = Held(w)
<1>1. QSize \in Nat \ {0, 1} /\ w.read \in 0 .. QSize - 1 /\ w.write \in 0 .. QSize - 1
      /\ w.buf \in [QSlots -> Data \cup {Nobody}] /\ QSlots = 0 .. QSize - 1
  BY DEF CompAssumption, Windows, QSlots
<1>2. Held(w) \in 0 .. QSize - 1 /\ (w.write + QSize - w.read) % QSize = Held(w)
  <2> PICK x : x = w.write + QSize - w.read
    OBVIOUS
  <2>1. x \in 0 .. 2 * QSize - 1
    BY <1>1
  <2>2. x % QSize = IF x < QSize THEN x ELSE x - QSize
    BY <2>1, OneTurn
  <2>3. (IF x < QSize THEN x ELSE x - QSize) = Held(w) /\ Held(w) \in 0 .. QSize - 1
    BY <1>1 DEF Held
  <2> QED
    BY <2>2, <2>3
<1>3. ASSUME NEW k \in 1 .. Held(w)
      PROVE  HeldAt(w, k) \in QSlots /\ (w.read + k - 1) % QSize = HeldAt(w, k)
  <2> PICK x : x = w.read + k - 1
    OBVIOUS
  <2>1. x \in 0 .. 2 * QSize - 1
    BY <1>1, <1>2, SMTT(30)
  <2>2. x % QSize = IF x < QSize THEN x ELSE x - QSize
    BY <2>1, OneTurn
  <2>3. (IF x < QSize THEN x ELSE x - QSize) = HeldAt(w, k) /\ HeldAt(w, k) \in QSlots
    BY <1>1, <2>1 DEF HeldAt, Wrap
  <2> QED
    BY <2>2, <2>3
<1>4. InQueue(w) = [k \in 1 .. Held(w) |-> w.buf[HeldAt(w, k)]]
  BY <1>2, <1>3, Zenon DEF InQueue
<1>5. \A k \in 1 .. Held(w) : w.buf[HeldAt(w, k)] \in Data \cup {Nobody}
  BY <1>1, <1>3
<1>6. InQueue(w) \in Seq(Data \cup {Nobody}) /\ Len(InQueue(w)) = Held(w)
  BY <1>2, <1>4, <1>5
<1> QED
  BY <1>2, <1>3, <1>4, <1>6

\* An event that is stored is the last one in the queue.
LEMMA StoredLast ==
  ASSUME CompAssumption, NEW w \in Windows, NEW v \in Windows, NEW d \in Data, ~NoRoom(w),
         v.read = w.read, v.write = QNext(w.write), v.buf = [w.buf EXCEPT ![w.write] = d]
  PROVE  InQueue(v) = Append(InQueue(w), d)
<1>1. QSize \in Nat \ {0, 1} /\ w.read \in 0 .. QSize - 1 /\ w.write \in 0 .. QSize - 1
      /\ w.buf \in [QSlots -> Data \cup {Nobody}] /\ QSlots = 0 .. QSize - 1
  BY DEF CompAssumption, Windows, QSlots
<1>2. v.write = IF w.write + 1 < QSize THEN w.write + 1 ELSE 0
  <2> PICK x : x = w.write + 1
    OBVIOUS
  <2>1. x \in 0 .. 2 * QSize - 1
    BY <1>1
  <2>2. x % QSize = IF x < QSize THEN x ELSE x - QSize
    BY <2>1, OneTurn
  <2> QED
    BY <1>1, <2>1, <2>2 DEF QNext
<1>3. v.write # w.read
  BY DEF NoRoom
<1>4. Held(v) = Held(w) + 1 /\ Held(w) \in Nat
  <2> PICK a, b, c, Q : a = w.read /\ b = w.write /\ c = v.write /\ Q = QSize
    OBVIOUS
  <2>1. Q \in Nat \ {0, 1} /\ a \in 0 .. Q - 1 /\ b \in 0 .. Q - 1 /\ c # a /\ c = IF b + 1 < Q THEN b + 1 ELSE 0
    BY <1>1, <1>2, <1>3
  <2>2. Held(w) = (IF a <= b THEN b - a ELSE b + Q - a) /\ Held(v) = (IF a <= c THEN c - a ELSE c + Q - a)
    BY DEF Held
  <2> QED
    BY <2>1, <2>2
<1>5. \A k \in 1 .. Held(w) + 1 : HeldAt(v, k) = HeldAt(w, k)
  BY DEF HeldAt, Wrap
<1>6. \A k \in 1 .. Held(w) : HeldAt(w, k) # w.write /\ HeldAt(w, k) \in QSlots
  <2> PICK a, b, Q, h : a = w.read /\ b = w.write /\ Q = QSize /\ h = Held(w)
    OBVIOUS
  <2>1. Q \in Nat \ {0, 1} /\ a \in 0 .. Q - 1 /\ b \in 0 .. Q - 1
    BY <1>1
  <2>2. h = (IF a <= b THEN b - a ELSE b + Q - a) /\ \A k \in Int : HeldAt(w, k) = IF a + k - 1 < Q THEN a + k - 1 ELSE a + k - 1 - Q
    BY <2>1 DEF Held, HeldAt, Wrap
  <2>3. \A k \in 1 .. h : HeldAt(w, k) # b
    BY <2>1, <2>2
  <2> QED
    BY <2>3, InQueueIs
<1>7. HeldAt(w, Held(w) + 1) = w.write
  BY <1>1 DEF Held, HeldAt, Wrap
<1>8. PICK q : q = InQueue(w)
  OBVIOUS
<1>9. /\ q \in Seq(Data \cup {Nobody}) /\ Len(q) = Held(w)
      /\ \A k \in 1 .. Held(w) : q[k] = w.buf[HeldAt(w, k)]
  BY <1>8, InQueueIs
<1>10. \A k \in 1 .. Held(w) + 1 : v.buf[HeldAt(v, k)] = Append(q, d)[k]
  <2> SUFFICES ASSUME NEW k \in 1 .. Held(w) + 1 PROVE v.buf[HeldAt(v, k)] = Append(q, d)[k]
    OBVIOUS
  <2>1. v.buf[HeldAt(v, k)] = v.buf[HeldAt(w, k)]
    BY <1>5
  <2>2. CASE k = Held(w) + 1
    <3>1. Append(q, d)[k] = d
      BY <1>4, <1>9, <2>2
    <3>2. v.buf[HeldAt(w, k)] = d
      BY <1>1, <1>7, <2>2
    <3> QED
      BY <2>1, <3>1, <3>2
  <2>3. CASE k \in 1 .. Held(w)
    <3>1. Append(q, d)[k] = q[k]
      BY <1>4, <1>9, <2>3
    <3>2. v.buf[HeldAt(w, k)] = w.buf[HeldAt(w, k)]
      BY <1>1, <1>6, <2>3
    <3> QED
      BY <1>9, <2>1, <2>3, <3>1, <3>2
  <2>4. \A h \in Nat : k \in 1 .. h + 1 => k = h + 1 \/ k \in 1 .. h
    OBVIOUS
  <2> QED
    BY <1>4, <2>2, <2>3, <2>4
<1>11. InQueue(v) = [k \in 1 .. Held(w) + 1 |-> v.buf[HeldAt(v, k)]]
  BY <1>4, InQueueIs
<1>12. DOMAIN Append(q, d) = 1 .. Held(w) + 1
  BY <1>9
<1>13. Append(q, d) = [k \in 1 .. Held(w) + 1 |-> Append(q, d)[k]]
  <2> PICK e : e = Append(q, d)
    OBVIOUS
  <2>1. e \in Seq(Data \cup {Nobody} \cup {d}) /\ DOMAIN e = 1 .. Held(w) + 1
    BY <1>9, <1>12
  <2>2. e = [k \in DOMAIN e |-> e[k]]
    <3>1. \A S : \A f \in Seq(S) : f = [k \in DOMAIN f |-> f[k]]
      OBVIOUS
    <3> QED
      BY <2>1, <3>1
  <2> QED
    BY <2>1, <2>2
<1> QED
  BY <1>8, <1>10, <1>11, <1>13

\* Moving the read pointer on takes the first events away.
LEMMA TakenFirst ==
  ASSUME CompAssumption, NEW w \in Windows, NEW v \in Windows, NEW n \in 0 .. Len(InQueue(w)),
         v.read = After(w.read, n), v.write = w.write, v.buf = w.buf
  PROVE  InQueue(v) = SubSeq(InQueue(w), n + 1, Len(InQueue(w)))
<1>1. QSize \in Nat \ {0, 1} /\ w.read \in 0 .. QSize - 1 /\ w.write \in 0 .. QSize - 1
  BY DEF CompAssumption, Windows, QSlots
<1>2. n \in 0 .. Held(w) /\ Held(w) \in 0 .. QSize - 1
  BY InQueueIs
<1>3. v.read = IF w.read + n < QSize THEN w.read + n ELSE w.read + n - QSize
  <2> PICK x : x = w.read + n
    OBVIOUS
  <2>1. x \in 0 .. 2 * QSize - 1
    BY <1>1, <1>2
  <2>2. x % QSize = IF x < QSize THEN x ELSE x - QSize
    BY <2>1, OneTurn
  <2> QED
    BY <1>1, <2>1, <2>2 DEF After
<1>4. Held(v) = Held(w) - n
  BY <1>1, <1>2, <1>3, FewerLeft, SMTT(30) DEF Held
<1>5. \A k \in 1 .. Held(w) - n : HeldAt(v, k) = HeldAt(w, k + n)
  <2>1. ASSUME NEW k \in Int, k > 0, k <= QSize - n
        PROVE  HeldAt(v, k) = HeldAt(w, k + n)
    <3>0. v.read = Wrap(w.read + n)
      BY <1>1, <1>2, <1>3 DEF Wrap
    <3>1. n \in Nat /\ n <= QSize
      BY <1>1, <1>2
    <3> QED
      <4>1. Wrap(v.read + k - 1) = Wrap(w.read + (k + n) - 1)
        <5> PICK a, c : a = w.read /\ c = v.read
          OBVIOUS
        <5>1. QSize \in Nat \ {0, 1} /\ a \in 0 .. QSize - 1 /\ c = Wrap(a + n)
          BY <1>1, <3>0
        <5>2. Wrap(c + k - 1) = Wrap(a + (k + n) - 1)
          BY <2>1, <3>1, <5>1, SamePlaces
        <5> QED
          BY <5>2
      <4> QED
        BY <4>1, Zenon DEF HeldAt
  <2>2. \A k \in 1 .. Held(w) - n : k \in Int /\ k > 0 /\ k <= QSize - n
    BY <1>1, <1>2
  <2> QED
    BY <2>1, <2>2
<1>8. PICK q : q = InQueue(w)
  OBVIOUS
<1>9. /\ q \in Seq(Data \cup {Nobody}) /\ Len(q) = Held(w)
      /\ \A k \in 1 .. Held(w) : q[k] = w.buf[HeldAt(w, k)]
  BY <1>8, InQueueIs
<1>10. InQueue(v) = [k \in 1 .. Held(w) - n |-> w.buf[HeldAt(w, k + n)]]
  BY <1>4, <1>5, InQueueIs
<1>11. SubSeq(q, n + 1, Held(w)) = [k \in 1 .. Held(w) - n |-> q[k + n]]
  BY <1>2, <1>9
<1>12. \A k \in 1 .. Held(w) - n : q[k + n] = w.buf[HeldAt(w, k + n)]
  BY <1>2, <1>9
<1> QED
  BY <1>8, <1>9, <1>10, <1>11, <1>12

\* The recursion over the slots.
LEMMA LeftBeforeIs ==
  ASSUME CompAssumption, NEW mine, NEW n
  PROVE  /\ LeftBefore(mine, n)[0] = n
         /\ \A i \in WinSlots : LeftBefore(mine, n)[i + 1] = LeftAfter(mine, i, LeftBefore(mine, n)[i])
<1> DEFINE Is(f, m) == f = [i \in 0 .. m |-> IF i = 0 THEN n ELSE LeftAfter(mine, i - 1, f[i - 1])]
           S == {m \in 0 .. MaxWin : ~\E f : Is(f, m)}
<1>1. MaxWin \in Nat \ {0}
  BY DEF CompAssumption
<1>2. S = {}
  <2> SUFFICES ASSUME S # {} PROVE FALSE
    OBVIOUS
  <2>1. PICK m \in S : \A k \in S : m <= k
    <3>1. S \subseteq Nat
      BY <1>1
    <3> HIDE DEF S
    <3> QED
      BY <3>1, SmallestOfNats
  <2>2. m \in 0 .. MaxWin /\ ~\E f : Is(f, m)
    OBVIOUS
  <2>3. CASE m = 0
    <3>1. Is([i \in 0 .. 0 |-> n], 0)
      OBVIOUS
    <3> HIDE DEF Is
    <3> QED
      BY <2>2, <2>3, <3>1
  <2>4. CASE m # 0
    <3>1. m - 1 \in 0 .. MaxWin /\ m - 1 \notin S
      BY <1>1, <2>1, <2>2, <2>4
    <3>2. PICK f : Is(f, m - 1)
      BY <3>1
    <3> DEFINE g == [i \in 0 .. m |-> IF i < m THEN f[i] ELSE LeftAfter(mine, m - 1, f[m - 1])]
    <3>3. m \in Nat /\ m > 0
      BY <1>1, <2>2, <2>4
    <3>4. \A i \in 0 .. m - 1 : f[i] = IF i = 0 THEN n ELSE LeftAfter(mine, i - 1, f[i - 1])
      BY <3>2, <3>3
    <3>5. \A i \in 0 .. m : g[i] = IF i = 0 THEN n ELSE LeftAfter(mine, i - 1, g[i - 1])
      <4> SUFFICES ASSUME NEW i \in 0 .. m PROVE g[i] = IF i = 0 THEN n ELSE LeftAfter(mine, i - 1, g[i - 1])
        OBVIOUS
      <4>1. CASE i < m
        <5>1. i \in 0 .. m - 1 /\ g[i] = f[i] /\ (i # 0 => g[i - 1] = f[i - 1])
          BY <3>3, <4>1
        <5> QED
          BY <3>4, <5>1
      <4>2. CASE i = m
        <5>1. g[i - 1] = f[i - 1] /\ g[i] = LeftAfter(mine, m - 1, f[m - 1])
          BY <3>3, <4>2
        <5> QED
          BY <3>3, <4>2, <5>1
      <4> QED
        BY <3>3, <4>1, <4>2
    <3>6. Is(g, m)
      BY <3>5
    <3> HIDE DEF Is, g
    <3> QED
      BY <2>2, <3>6
  <2> QED
    BY <2>3, <2>4
<1>3. \E f : Is(f, MaxWin)
  BY <1>1, <1>2
<1>4. LeftBefore(mine, n) = CHOOSE f : Is(f, MaxWin)
  BY Zenon DEF LeftBefore
<1>5. Is(LeftBefore(mine, n), MaxWin)
  <2> HIDE DEF Is
  <2> QED
    BY <1>3, <1>4, Zenon
<1>6. PICK f : f = LeftBefore(mine, n)
  OBVIOUS
<1>7. \A i \in 0 .. MaxWin : f[i] = IF i = 0 THEN n ELSE LeftAfter(mine, i - 1, f[i - 1])
  BY <1>5, <1>6
<1>8. f[0] = n
  BY <1>1, <1>7
<1>9. ASSUME NEW i \in WinSlots
      PROVE  f[i + 1] = LeftAfter(mine, i, f[i])
  <2>1. i + 1 \in 0 .. MaxWin /\ i + 1 # 0 /\ (i + 1) - 1 = i
    BY <1>1 DEF WinSlots
  <2> QED
    BY <1>7, <2>1
<1> QED
  BY <1>6, <1>8, <1>9

\* The fields of a window, one by one.
LEMMA MakesWindow ==
  ASSUME NEW a \in BOOLEAN, NEW h \in Int \X Int, NEW p \in Proc \cup {Nobody},
         NEW b \in [QSlots -> Data \cup {Nobody}], NEW r \in QSlots, NEW x \in QSlots
  PROVE  [active |-> a, handle |-> h, pid |-> p, buf |-> b, read |-> r, write |-> x] \in Windows
  BY DEF Windows

\* And back.
LEMMA WindowIsA ==
  ASSUME NEW w \in Windows
  PROVE  /\ w.active \in BOOLEAN /\ w.handle \in Int \X Int /\ w.pid \in Proc \cup {Nobody}
         /\ w.buf \in [QSlots -> Data \cup {Nobody}] /\ w.read \in QSlots /\ w.write \in QSlots
         /\ w = [active |-> w.active, handle |-> w.handle, pid |-> w.pid, buf |-> w.buf,
                 read |-> w.read, write |-> w.write]
  BY DEF Windows

\* A window with d stored and x as its next place.
Stored(w, d, x) == [[w EXCEPT !.buf[w.write] = d] EXCEPT !.write = x]

\* What storing leaves as it was.
LEMMA StoresIn ==
  ASSUME NEW w \in Windows, NEW d \in Data, NEW x \in QSlots
  PROVE  /\ Stored(w, d, x).read = w.read /\ Stored(w, d, x).write = x
         /\ Stored(w, d, x).buf = [w.buf EXCEPT ![w.write] = d] /\ Stored(w, d, x) \in Windows
<1> PICK v : v = Stored(w, d, x)
  OBVIOUS
<1>1. v = [active |-> w.active, handle |-> w.handle, pid |-> w.pid, buf |-> [w.buf EXCEPT ![w.write] = d],
                 read |-> w.read, write |-> x]
  BY WindowIsA DEF Windows, Stored
<1>2. [w.buf EXCEPT ![w.write] = d] \in [QSlots -> Data \cup {Nobody}]
  BY WindowIsA
<1> PICK b : b = [w.buf EXCEPT ![w.write] = d]
  OBVIOUS
<1>3. [active |-> w.active, handle |-> w.handle, pid |-> w.pid, buf |-> b,
       read |-> w.read, write |-> x] \in Windows
  <2>1. /\ w.active \in BOOLEAN /\ w.handle \in Int \X Int /\ w.pid \in Proc \cup {Nobody}
        /\ w.read \in QSlots /\ b \in [QSlots -> Data \cup {Nobody}]
    BY <1>2, WindowIsA, Zenon
  <2> QED
    BY <2>1, MakesWindow, Zenon
<1>4. v \in Windows
  BY <1>1, <1>3, Zenon
<1>5. v.read = w.read /\ v.write = x /\ v.buf = b
  BY <1>1
<1> QED
  BY <1>4, <1>5

\* Where a process preempted in wasm_wm_route_input will store.
RouteTypes ==
  /\ DOMAIN pc = Proc \cup {Boot}
  /\ \A p \in Proc : pc[p].at = "route" => pc[p].slot \in WinSlots /\ pc[p].data \in Data

QueueInv ==
  /\ g_windows \in [WinSlots -> Windows] /\ g_window_generation \in Int
  /\ DOMAIN due = WinSlots /\ RouteTypes
  /\ \A i \in WinSlots : InQueue(g_windows[i]) = due[i]

\* A window and what is due to it after a step that leaves both alone.
SameQueues ==
  /\ g_windows' \in [WinSlots -> Windows] /\ g_window_generation' \in Int
  /\ \A i \in WinSlots : /\ g_windows'[i].read = g_windows[i].read
                         /\ g_windows'[i].write = g_windows[i].write
                         /\ g_windows'[i].buf = g_windows[i].buf
  /\ due' = due

\* Such a step keeps the invariant.
LEMMA SameQueuesKeep ==
  ASSUME QueueInv, SameQueues, RouteTypes'
  PROVE  QueueInv'
<1>1. \A i \in WinSlots : InQueue(g_windows'[i]) = InQueue(g_windows[i])
  BY DEF SameQueues, InQueue
<1>2. \A i \in WinSlots : InQueue(g_windows'[i]) = due'[i]
  BY <1>1 DEF QueueInv, SameQueues
<1> QED
  BY <1>2 DEF QueueInv, SameQueues, InQueue, QSlots, WinSlots, Windows

\* No window and nothing due.
LEMMA CompInitInv ==
  ASSUME CompAssumption, CompInit
  PROVE  QueueInv
<1>1. NoWindow \in Windows /\ NoWindow.read = 0 /\ NoWindow.write = 0
  BY DEF CompAssumption, NoWindow, NoHandle, Handle, Windows, QSlots
<1>2. InQueue(NoWindow) = << >>
  BY <1>1, InQueueIs DEF Held
<1>3. g_windows \in [WinSlots -> Windows] /\ \A i \in WinSlots : g_windows[i] = NoWindow
  BY <1>1 DEF CompInit
<1>4. RouteTypes
  BY DEF CompInit, RouteTypes, Idle
<1>5. \A i \in WinSlots : InQueue(g_windows[i]) = due[i]
  BY <1>2, <1>3 DEF CompInit
<1> QED
  BY <1>3, <1>4, <1>5 DEF QueueInv, CompInit

\* What a process does that is not between the two steps of wasm_wm_route_input.
LEMMA PushesKeep ==
  ASSUME QueueInv, NEW p \in Proc \cup {Boot}, PushCheck(p) \/ PushRead(p) \/ PushStore(p)
  PROVE  QueueInv'
<1>1. SameQueues
  BY DEF QueueInv, SameQueues, PushCheck, PushRead, PushStore, windowVars
<1>2. RouteTypes'
  <2>1. CASE PushCheck(p)
    BY <2>1 DEF QueueInv, RouteTypes, PushCheck
  <2>2. CASE PushRead(p)
    BY <2>2 DEF QueueInv, RouteTypes, PushRead, Idle
  <2>3. CASE PushStore(p)
    BY <2>3 DEF QueueInv, RouteTypes, PushStore, Idle
  <2> QED
    BY <2>1, <2>2, <2>3
<1> QED
  BY <1>1, <1>2, SameQueuesKeep

\* Claiming the role, a buffer and polling events do not touch the windows.
LEMMA WindowsAloneKeep ==
  ASSUME QueueInv, NEW p \in Proc, Claim(p) \/ ClaimBuffer(p) \/ \E n \in {1, EvSize} : PollEvents(p, n)
  PROVE  QueueInv'
<1>1. g_windows' = g_windows /\ g_window_generation' = g_window_generation /\ due' = due /\ pc' = pc
  BY DEF Claim, ClaimBuffer, PollEvents, windowVars
<1> QED
  BY <1>1, SameQueuesKeep DEF QueueInv, SameQueues, RouteTypes

\* The lookup of wasm_wm_route_input remembers a slot.
LEMMA RouteFindKeeps ==
  ASSUME QueueInv, NEW p \in Proc, NEW h, NEW d \in Data, RouteFind(p, h, d)
  PROVE  QueueInv'
<1>1. g_windows' = g_windows /\ g_window_generation' = g_window_generation /\ due' = due
  BY DEF RouteFind, windowVars
<1>2. PICK i \in Found(h) : pc' = [pc EXCEPT ![p] = [at |-> "route", slot |-> i, data |-> d]]
  BY DEF RouteFind
<1>3. i \in WinSlots
  BY <1>2 DEF Found, Active
<1>4. RouteTypes'
  BY <1>2, <1>3 DEF QueueInv, RouteTypes
<1> QED
  BY <1>1, <1>4, SameQueuesKeep DEF QueueInv, SameQueues

\* A destroyed window keeps what is in its queue.
LEMMA DestroyKeeps ==
  ASSUME QueueInv, NEW p \in Proc, NEW h, Destroy(p, h)
  PROVE  QueueInv'
<1>1. PICK i \in Found(h) : g_windows' = [g_windows EXCEPT ![i].active = FALSE]
  BY DEF Destroy
<1>2. i \in WinSlots /\ g_window_generation' = g_window_generation /\ due' = due /\ pc' = pc
  BY <1>1 DEF Found, Active, Destroy
<1>3. SameQueues
  <2>1. PICK v : v = g_windows[i]
    OBVIOUS
  <2>2. v \in Windows
    BY <1>2, <2>1 DEF QueueInv
  <2>3. PICK w : w = [v EXCEPT !.active = FALSE]
    OBVIOUS
  <2>4. w \in Windows /\ w.read = v.read /\ w.write = v.write /\ w.buf = v.buf
    BY ONLY <2>2, <2>3 DEF Windows
  <2>5. g_windows \in [WinSlots -> Windows] /\ g_windows' = [g_windows EXCEPT ![i] = w]
    BY <1>1, <2>1, <2>3 DEF QueueInv
  <2>6. g_windows' \in [WinSlots -> Windows]
    BY <1>2, <2>4, <2>5
  <2>7. \A k \in WinSlots : /\ g_windows'[k].read = g_windows[k].read
                           /\ g_windows'[k].write = g_windows[k].write
                           /\ g_windows'[k].buf = g_windows[k].buf
    BY <1>2, <2>1, <2>4, <2>5
  <2> QED
    BY <1>2, <2>6, <2>7 DEF QueueInv, SameQueues
<1> QED
  BY <1>2, <1>3, SameQueuesKeep DEF QueueInv, RouteTypes

\* compositor_child_cleanup destroys all windows of a process.
LEMMA ExitKeeps ==
  ASSUME QueueInv, NEW p \in Proc, Exit(p)
  PROVE  QueueInv'
<1>1. PICK mine : g_windows' = [i \in WinSlots |->
           IF i \in mine THEN [g_windows[i] EXCEPT !.active = FALSE] ELSE g_windows[i]]
  BY DEF Exit, ChildCleanup
<1>2. g_window_generation' = g_window_generation /\ due' = due /\ pc' = [pc EXCEPT ![p] = Idle]
  BY DEF Exit
<1>3. ASSUME NEW i \in WinSlots
      PROVE  /\ g_windows'[i] \in Windows /\ g_windows'[i].read = g_windows[i].read
             /\ g_windows'[i].write = g_windows[i].write /\ g_windows'[i].buf = g_windows[i].buf
  <2> PICK w : w = g_windows[i]
    OBVIOUS
  <2>1. w \in Windows
    BY DEF QueueInv
  <2>2. CASE i \in mine
    <3>1. g_windows'[i] = [w EXCEPT !.active = FALSE]
      BY <1>1, <2>2
    <3> QED
      BY <2>1, <3>1 DEF Windows
  <2>3. CASE i \notin mine
    <3>1. g_windows'[i] = w
      BY <1>1, <2>3
    <3> QED
      BY <2>1, <3>1
  <2> QED
    BY <2>2, <2>3
<1>5. SameQueues
  BY <1>1, <1>2, <1>3 DEF QueueInv, SameQueues
<1>4. RouteTypes'
  BY <1>2 DEF QueueInv, RouteTypes, Idle
<1> QED
  BY <1>4, <1>5, SameQueuesKeep

\* A new window has an empty queue.
LEMMA CreateKeeps ==
  ASSUME CompAssumption, QueueInv, NEW p \in Proc, Create(p)
  PROVE  QueueInv'
<1> PICK i : i = Min(WinSlots \ Active)
  OBVIOUS
<1> PICK w : w = Made(p, i)
  OBVIOUS
<1>1. i \in WinSlots
  <2>1. WinSlots \ Active \subseteq Nat /\ WinSlots \ Active # {}
    BY DEF Create, Active, WinSlots, CompAssumption
  <2> QED
    BY <2>1, SmallestOfNats
<1>2. /\ g_windows' = [g_windows EXCEPT ![i] = w] /\ g_window_generation' = NextGeneration(g_window_generation)
      /\ due' = [due EXCEPT ![i] = << >>] /\ pc' = pc
  BY DEF Create
<1>3. NextGeneration(g_window_generation) \in Int
  BY DEF QueueInv, NextGeneration
<1>4. w \in Windows /\ w.read = 0 /\ w.write = 0
  <2>0. 0 \in QSlots /\ i \in Int
    BY <1>1 DEF CompAssumption, QSlots, WinSlots
  <2>a. g_windows[i] \in Windows
    BY <1>1 DEF QueueInv
  <2>1. g_windows[i].buf \in [QSlots -> Data \cup {Nobody}] /\ 0 \in QSlots /\ i \in Int
    BY <2>0, <2>a DEF Windows
  <2>2. Handle(NextGeneration(g_window_generation), i) \in Int \X Int
    BY <1>3, <2>1 DEF Handle
  <2> PICK b, h : b = g_windows[i].buf /\ h = Handle(NextGeneration(g_window_generation), i)
    OBVIOUS
  <2>3. w = [active |-> TRUE, handle |-> h, pid |-> p, buf |-> b, read |-> 0, write |-> 0]
    BY DEF Made, NoWindow
  <2>4. [active |-> TRUE, handle |-> h, pid |-> p, buf |-> b, read |-> 0, write |-> 0] \in Windows
    <3>1. p \in Proc \cup {Nobody} /\ TRUE \in BOOLEAN
      OBVIOUS
    <3> QED
      BY <2>0, <2>1, <2>2, <3>1, MakesWindow, Zenon
  <2>5. w \in Windows
    BY <2>3, <2>4, Zenon
  <2> QED
    BY <2>3, <2>5
<1>5. InQueue(w) = << >>
  BY <1>4, InQueueIs DEF Held
<1>6. \A j \in WinSlots : InQueue(g_windows'[j]) = due'[j]
  BY <1>1, <1>2, <1>5 DEF QueueInv
<1>7. g_windows' \in [WinSlots -> Windows] /\ g_window_generation' \in Int
  BY <1>1, <1>2, <1>3, <1>4 DEF QueueInv
<1>8. (\A j \in WinSlots : InQueue(g_windows[j]) = due[j])'
  BY <1>6 DEF InQueue
<1>9. (DOMAIN due = WinSlots /\ RouteTypes)'
  BY <1>1, <1>2 DEF QueueInv, RouteTypes
<1>10. (g_windows \in [WinSlots -> Windows] /\ g_window_generation \in Int)'
  BY <1>7 DEF Windows, WinSlots, QSlots
<1> QED
  BY <1>8, <1>9, <1>10 DEF QueueInv

\* The other half of wasm_wm_route_input stores one event, if there is room.
LEMMA RouteStoreKeeps ==
  ASSUME CompAssumption, QueueInv, NEW p \in Proc, RouteStore(p)
  PROVE  QueueInv'
<1> PICK i, w, d : i = pc[p].slot /\ w = g_windows[i] /\ d = pc[p].data
  OBVIOUS
<1>1. i \in WinSlots /\ w \in Windows /\ d \in Data
  BY DEF QueueInv, RouteTypes, RouteStore
<1>2. g_window_generation' = g_window_generation /\ pc' = [pc EXCEPT ![p] = Idle]
  BY DEF RouteStore
<1>3. RouteTypes'
  BY <1>2 DEF QueueInv, RouteTypes, Idle
<1>4. CASE NoRoom(w)
  <2>1. g_windows' = g_windows /\ due' = due
    BY <1>4 DEF RouteStore
  <2> QED
    BY <1>2, <1>3, <2>1, SameQueuesKeep DEF QueueInv, SameQueues
<1>5. CASE ~NoRoom(w)
  <2>1. /\ g_windows' = [g_windows EXCEPT ![i].buf[w.write] = d, ![i].write = QNext(w.write)]
        /\ due' = [due EXCEPT ![i] = Append(@, d)]
    BY <1>5 DEF RouteStore
  <2> PICK v : v = g_windows'[i]
    OBVIOUS
  <2>2. QNext(w.write) \in QSlots /\ w.write \in QSlots
    <3>1. w.write + 1 \in Int /\ w.write \in QSlots /\ QSize \in Nat \ {0}
      BY <1>1 DEF Windows, QSlots, CompAssumption
    <3>2. \A x \in Int, Q \in Nat \ {0} : x % Q \in 0 .. Q - 1
      OBVIOUS
    <3> QED
      BY <3>1, <3>2 DEF QNext, QSlots
  <2>3. v = [[w EXCEPT !.buf[w.write] = d] EXCEPT !.write = QNext(w.write)]
    BY <1>1, <2>1 DEF QueueInv
  <2>4. /\ v.read = w.read /\ v.write = QNext(w.write) /\ v.buf = [w.buf EXCEPT ![w.write] = d]
        /\ v \in Windows
    <3> PICK x : x = QNext(w.write)
      OBVIOUS
    <3>1. x \in QSlots /\ v = Stored(w, d, x)
      BY <2>2, <2>3, Zenon DEF Stored
    <3> QED
      BY <1>1, <3>1, StoresIn
  <2>5. InQueue(v) = Append(InQueue(w), d)
    BY <1>1, <1>5, <2>4, StoredLast
  <2>6. \A j \in WinSlots \ {i} : g_windows'[j] = g_windows[j] /\ due'[j] = due[j]
    BY <2>1 DEF QueueInv
  <2>7. due'[i] = Append(due[i], d) /\ due[i] = InQueue(w)
    BY <1>1, <2>1 DEF QueueInv
  <2>8. \A j \in WinSlots : InQueue(g_windows'[j]) = due'[j]
    BY <2>5, <2>6, <2>7 DEF QueueInv
  <2>9. (\A j \in WinSlots : InQueue(g_windows[j]) = due[j])'
    BY <2>8 DEF InQueue
  <2>10. g_windows' \in [WinSlots -> Windows] /\ DOMAIN due' = WinSlots
    <3>1. \A j \in WinSlots : g_windows'[j] \in Windows
      BY <2>4, <2>6 DEF QueueInv
    <3>2. g_windows' = [j \in WinSlots |-> g_windows'[j]] /\ DOMAIN due' = WinSlots
      BY <2>1 DEF QueueInv
    <3> QED
      BY <3>1, <3>2
  <2>11. (g_windows \in [WinSlots -> Windows] /\ g_window_generation \in Int /\ DOMAIN due = WinSlots)'
    BY <1>2, <2>10 DEF QueueInv, Windows, WinSlots, QSlots
  <2> QED
    BY <1>3, <2>9, <2>11 DEF QueueInv
<1> QED
  BY <1>4, <1>5

\* What a poll takes from a queue.
LEMMA TakesSome ==
  ASSUME CompAssumption, QueueInv, NEW mine, mine \subseteq WinSlots, NEW n \in Nat, NEW i \in WinSlots,
         NEW room, room = LeftBefore(mine, n)
  PROVE  (IF i \in mine THEN room[i] - room[i + 1] ELSE 0) \in 0 .. Len(InQueue(g_windows[i]))
<1>1. \A j \in WinSlots : Len(InQueue(g_windows[j])) \in Nat
  BY InQueueIs DEF QueueInv
<1>2. \A a, b \in Nat : Min({a, b}) = IF a <= b THEN a ELSE b
  <2> SUFFICES ASSUME NEW a \in Nat, NEW b \in Nat PROVE Min({a, b}) = IF a <= b THEN a ELSE b
    OBVIOUS
  <2>1. {a, b} \subseteq Nat /\ {a, b} # {}
    OBVIOUS
  <2>2. Min({a, b}) \in {a, b} /\ \A m \in {a, b} : Min({a, b}) <= m
    BY <2>1, SmallestOfNats
  <2> QED
    BY <2>2
<1>3. room[0] = n /\ \A j \in WinSlots : room[j + 1] = LeftAfter(mine, j, room[j])
  BY LeftBeforeIs
<1>4. ASSUME NEW j \in WinSlots, NEW r \in Nat
      PROVE  /\ LeftAfter(mine, j, r) \in Nat
             /\ j \in mine => r - LeftAfter(mine, j, r) \in 0 .. Len(InQueue(g_windows[j]))
  <2> PICK l, m : l = Len(InQueue(g_windows[j])) /\ m = Min({r, l})
    OBVIOUS
  <2>1. l \in Nat /\ m = IF r <= l THEN r ELSE l
    BY <1>1, <1>2
  <2>2. LeftAfter(mine, j, r) = IF j \in mine THEN r - m ELSE r
    BY Zenon DEF LeftAfter
  <2>3. r - m \in Nat /\ r - (r - m) \in 0 .. l
    BY <2>1
  <2> QED
    BY <2>2, <2>3
<1>5. MaxWin \in Nat \ {0} /\ WinSlots = 0 .. MaxWin - 1
  BY DEF CompAssumption, WinSlots
<1> DEFINE S == {j \in 0 .. MaxWin : room[j] \notin Nat}
<1>6. S = {}
  <2> SUFFICES ASSUME S # {} PROVE FALSE
    OBVIOUS
  <2>1. PICK m \in S : \A k \in S : m <= k
    <3>1. S \subseteq Nat
      BY <1>5
    <3> HIDE DEF S
    <3> QED
      BY <3>1, SmallestOfNats
  <2>2. m \in 0 .. MaxWin /\ room[m] \notin Nat /\ m # 0
    BY <1>3
  <2>3. m - 1 \in WinSlots /\ m - 1 \notin S /\ m - 1 \in 0 .. MaxWin
    BY <1>5, <2>1, <2>2
  <2>4. room[m - 1] \in Nat /\ room[(m - 1) + 1] = LeftAfter(mine, m - 1, room[m - 1])
    BY <1>3, <2>3
  <2>5. (m - 1) + 1 = m
    BY <2>2
  <2>6. LeftAfter(mine, m - 1, room[m - 1]) \in Nat
    BY <1>4, <2>3, <2>4, Zenon
  <2> QED
    BY <2>2, <2>4, <2>5, <2>6
<1>7. room[i] \in Nat
  BY <1>5, <1>6
<1>8. room[i + 1] = LeftAfter(mine, i, room[i])
  BY <1>3
<1>9. i \in mine => room[i] - LeftAfter(mine, i, room[i]) \in 0 .. Len(InQueue(g_windows[i]))
  BY <1>4, <1>7, Zenon
<1> QED
  BY <1>1, <1>8, <1>9

\* wasm_winput_poll moves the read pointers on by what it takes.
LEMMA WinputPollKeeps ==
  ASSUME CompAssumption, QueueInv, NEW p \in Proc, NEW S, NEW n \in Nat, WinputPoll(p, S, n)
  PROVE  QueueInv'
<1> PICK mine : mine = {i \in Active : g_windows[i].pid = p} \cap S
  OBVIOUS
<1> PICK room : room = LeftBefore(mine, n)
  OBVIOUS
<1> DEFINE take(i) == IF i \in mine THEN room[i] - room[i + 1] ELSE 0
<1>1. /\ g_windows' = [i \in WinSlots |-> [g_windows[i] EXCEPT !.read = (@ + take(i)) % QSize]]
      /\ due' = [i \in WinSlots |-> SubSeq(due[i], take(i) + 1, Len(due[i]))]
      /\ g_window_generation' = g_window_generation /\ pc' = pc
  BY Zenon DEF WinputPoll
<1>2. \A i \in WinSlots : take(i) \in 0 .. Len(InQueue(g_windows[i]))
  BY TakesSome DEF Active
<1> HIDE DEF take
<1>3. ASSUME NEW i \in WinSlots
      PROVE  g_windows'[i] \in Windows /\ InQueue(g_windows'[i]) = due'[i]
  <2> PICK w, v, k : w = g_windows[i] /\ v = g_windows'[i] /\ k = take(i)
    OBVIOUS
  <2>1. w \in Windows /\ k \in 0 .. Len(InQueue(w)) /\ due[i] = InQueue(w)
    BY <1>2, <1>3 DEF QueueInv
  <2>2. v = [w EXCEPT !.read = After(w.read, k)] /\ due'[i] = SubSeq(due[i], k + 1, Len(due[i]))
    BY <1>1 DEF After
  <2>3. After(w.read, k) \in QSlots
    <3>1. w.read + k \in Int /\ QSize \in Nat \ {0}
      BY <2>1, InQueueIs DEF Windows, QSlots, CompAssumption
    <3>2. \A x \in Int, Q \in Nat \ {0} : x % Q \in 0 .. Q - 1
      OBVIOUS
    <3> QED
      BY <3>1, <3>2 DEF After, QSlots
  <2>4. v \in Windows /\ v.read = After(w.read, k) /\ v.write = w.write /\ v.buf = w.buf
    BY <2>1, <2>2, <2>3 DEF Windows
  <2>5. InQueue(v) = SubSeq(InQueue(w), k + 1, Len(InQueue(w)))
    BY <2>1, <2>4, TakenFirst
  <2> QED
    BY <2>1, <2>2, <2>4, <2>5
<1>4. g_windows' \in [WinSlots -> Windows] /\ DOMAIN due' = WinSlots
  BY <1>1, <1>3
<1>5. (\A j \in WinSlots : InQueue(g_windows[j]) = due[j])'
  BY <1>3 DEF InQueue
<1>6. (g_windows \in [WinSlots -> Windows] /\ g_window_generation \in Int /\ DOMAIN due = WinSlots)'
  BY <1>1, <1>4 DEF QueueInv, Windows, WinSlots, QSlots
<1>7. RouteTypes'
  BY <1>1 DEF QueueInv, RouteTypes
<1> QED
  BY <1>5, <1>6, <1>7 DEF QueueInv

\* Every step keeps the queues.
LEMMA CompQueueStep == QueueInv /\ [CompNext]_compVars => QueueInv'
<1> USE CompAssumption
<1> SUFFICES ASSUME QueueInv, [CompNext]_compVars
             PROVE  QueueInv'
  OBVIOUS
<1>1. CASE UNCHANGED compVars
  BY <1>1, SameQueuesKeep DEF compVars, windowVars, QueueInv, SameQueues, RouteTypes
<1>2. ASSUME NEW p \in Proc, NEW n \in {1, MaxWin * QSize}, NEW S, WinputPoll(p, S, n)
      PROVE  QueueInv'
  <2>1. MaxWin * QSize \in Nat
    BY DEF CompAssumption
  <2> QED
    BY <1>2, <2>1, WinputPollKeeps
<1>3. CASE CompNext
  BY <1>2, <1>3, PushesKeep, WindowsAloneKeep, RouteFindKeeps, DestroyKeeps, ExitKeeps, CreateKeeps,
     RouteStoreKeeps DEF CompNext
<1> QED
  BY <1>1, <1>3

\* What was routed to a window waits in its queue once and in order, for every
\* number of windows, size of the queues and buffer of the caller, whatever slots
\* are used again (wasm_wm_route_input, wasm_winput_poll, window.create).
THEOREM RoutedInOrder == CompSpec => []InputInOrder
<1> USE CompAssumption
<1>1. CompInit => QueueInv
  BY CompInitInv
<1>2. QueueInv /\ [CompNext]_compVars => QueueInv'
  BY CompQueueStep
<1>3. QueueInv => InputInOrder
  BY DEF QueueInv, InputInOrder, Active
<1> QED
  BY <1>1, <1>2, <1>3, PTL DEF CompSpec

------------------------------------------------------------------------------
(* The event ring                                                            *)

EventsOf == [type : {"created", "destroyed", "other"}, win : Int \X Int]
OtherOnly(evs) == \A k \in 1 .. Len(evs) : evs[k].type = "other"

\* The number of events in a ring, and the place of one.
InRing(r, w) == IF r <= w THEN w - r ELSE w + EvSize - r
RingPlace(x) == IF x < EvSize THEN x ELSE x - EvSize

\* Inside one turn of the ring a remainder is a subtraction.
LEMMA RingTurn ==
  ASSUME CompAssumption, NEW x \in 0 .. 2 * EvSize - 1
  PROVE  x % EvSize = RingPlace(x) /\ RingPlace(x) \in EvSlots
<1>1. EvSize \in Nat \ {0, 1}
  BY DEF CompAssumption
<1>2. CASE x < EvSize
  BY <1>1, <1>2 DEF RingPlace, EvSlots
<1>3. CASE x >= EvSize
  <2>1. x = EvSize + (x - EvSize) /\ x - EvSize \in 0 .. EvSize - 1
    BY <1>1, <1>3
  <2> QED
    BY <1>1, <1>3, <2>1 DEF RingPlace, EvSlots
<1> QED
  BY <1>1, <1>2, <1>3

\* What waits in the ring b from r to w.
IsQueued(q, b, r, w) ==
  /\ InRing(r, w) \in 0 .. EvSize - 1
  /\ q \in Seq(EventsOf) /\ Len(q) = InRing(r, w)
  /\ \A k \in 1 .. InRing(r, w) : RingPlace(r + k - 1) \in EvSlots /\ q[k] = b[RingPlace(r + k - 1)]
RingFrom(b, r, w) == [k \in 1 .. (w + EvSize - r) % EvSize |-> b[(r + k - 1) % EvSize]]
LEMMA RingIs ==
  ASSUME CompAssumption, NEW b \in [EvSlots -> EventsOf], NEW r \in EvSlots, NEW w \in EvSlots
  PROVE  IsQueued(RingFrom(b, r, w), b, r, w)
<1>1. EvSize \in Nat \ {0, 1} /\ r \in 0 .. EvSize - 1 /\ w \in 0 .. EvSize - 1 /\ EvSlots = 0 .. EvSize - 1
  BY DEF CompAssumption, EvSlots
<1>2. InRing(r, w) \in 0 .. EvSize - 1 /\ (w + EvSize - r) % EvSize = InRing(r, w)
  <2> PICK x : x = w + EvSize - r
    OBVIOUS
  <2>1. x \in 0 .. 2 * EvSize - 1
    BY <1>1
  <2>2. x % EvSize = RingPlace(x)
    BY <2>1, RingTurn
  <2>3. RingPlace(x) = InRing(r, w) /\ InRing(r, w) \in 0 .. EvSize - 1
    BY <1>1 DEF InRing, RingPlace
  <2> QED
    BY <2>2, <2>3
<1>3. ASSUME NEW k \in 1 .. InRing(r, w)
      PROVE  RingPlace(r + k - 1) \in EvSlots /\ (r + k - 1) % EvSize = RingPlace(r + k - 1)
  <2> PICK x, n : x = r + k - 1 /\ n = InRing(r, w)
    OBVIOUS
  <2>1. x \in 0 .. 2 * EvSize - 1
    <3>1. k \in 1 .. n /\ n \in 0 .. EvSize - 1
      BY <1>2
    <3> QED
      BY <1>1, <3>1
  <2> QED
    BY <2>1, RingTurn
<1>4. PICK q, n : q = RingFrom(b, r, w) /\ n = InRing(r, w)
  OBVIOUS
<1>5. q = [k \in 1 .. n |-> b[(r + k - 1) % EvSize]] /\ n \in Nat
  BY <1>2, <1>4 DEF RingFrom
<1>6. \A k \in 1 .. n : q[k] = b[RingPlace(r + k - 1)] /\ q[k] \in EventsOf
  BY <1>3, <1>4, <1>5
<1>7. q \in Seq(EventsOf) /\ Len(q) = n
  BY <1>5, <1>6
<1> QED
  BY <1>2, <1>3, <1>4, <1>6, <1>7 DEF IsQueued

\* How many places of a ring of Q are taken after l more.
LEMMA MoreThere ==
  ASSUME NEW Q \in Nat \ {0, 1}, NEW a \in 0 .. Q - 1, NEW b \in 0 .. Q - 1, NEW l \in Nat,
         NEW n, n = IF a <= b THEN b - a ELSE b + Q - a, l <= Q - 1 - n,
         NEW c, c = IF b + l < Q THEN b + l ELSE b + l - Q
  PROVE  c \in 0 .. Q - 1 /\ (IF a <= c THEN c - a ELSE c + Q - a) = n + l
<1>1. CASE b + l < Q
  BY <1>1
<1>2. CASE Q <= b + l
  BY <1>2
<1> QED
  BY <1>1, <1>2

\* Events that are pushed come after those that wait.
Pushes(b, c, r, w, x, evs) ==
  /\ b \in [EvSlots -> EventsOf] /\ c \in [EvSlots -> EventsOf] /\ r \in EvSlots /\ w \in EvSlots
  /\ evs \in Seq(EventsOf) /\ Len(evs) <= EvSize - 1 - InRing(r, w) /\ x = RingPlace(w + Len(evs))
  /\ \A k \in 1 .. Len(evs) : c[RingPlace(w + k - 1)] = evs[k]
  /\ \A s \in EvSlots : (\A k \in 1 .. Len(evs) : s # RingPlace(w + k - 1)) => c[s] = b[s]
LEMMA PushedAfter ==
  ASSUME CompAssumption, NEW b, NEW c, NEW r, NEW w, NEW x, NEW evs, Pushes(b, c, r, w, x, evs)
  PROVE  x \in EvSlots /\ RingFrom(c, r, x) = RingFrom(b, r, w) \o evs
<1>0. /\ b \in [EvSlots -> EventsOf] /\ c \in [EvSlots -> EventsOf] /\ r \in EvSlots /\ w \in EvSlots
      /\ evs \in Seq(EventsOf) /\ Len(evs) <= EvSize - 1 - InRing(r, w) /\ x = RingPlace(w + Len(evs))
      /\ \A k \in 1 .. Len(evs) : c[RingPlace(w + k - 1)] = evs[k]
      /\ \A s \in EvSlots : (\A k \in 1 .. Len(evs) : s # RingPlace(w + k - 1)) => c[s] = b[s]
  BY DEF Pushes
<1>1. EvSize \in Nat \ {0, 1} /\ r \in 0 .. EvSize - 1 /\ w \in 0 .. EvSize - 1 /\ EvSlots = 0 .. EvSize - 1
  BY <1>0 DEF CompAssumption, EvSlots
<1>2. PICK l, n, E : l = Len(evs) /\ n = InRing(r, w) /\ E = EvSize
  OBVIOUS
<1>3. l \in Nat /\ n \in 0 .. E - 1 /\ l <= E - 1 - n /\ IsQueued(RingFrom(b, r, w), b, r, w)
  BY <1>0, <1>2, RingIs DEF IsQueued
<1>4. x \in EvSlots /\ InRing(r, x) = n + l
  <2>1. n = IF r <= w THEN w - r ELSE w + E - r
    BY <1>2 DEF InRing
  <2>2. x = IF w + l < E THEN w + l ELSE w + l - E
    BY <1>0, <1>1, <1>2, <1>3 DEF RingPlace
  <2>3. x \in 0 .. E - 1 /\ (IF r <= x THEN x - r ELSE x + E - r) = n + l
    <3>1. E \in Nat \ {0, 1} /\ r \in 0 .. E - 1 /\ w \in 0 .. E - 1
      BY <1>1, <1>2
    <3> QED
      BY ONLY <1>3, <2>1, <2>2, <3>1, MoreThere
  <2> QED
    BY <1>1, <1>2, <2>3 DEF InRing
<1>5. IsQueued(RingFrom(c, r, x), c, r, x)
  BY <1>0, <1>4, RingIs
<1>6. PICK p, q : p = RingFrom(c, r, x) /\ q = RingFrom(b, r, w)
  OBVIOUS
<1>7. /\ p \in Seq(EventsOf) /\ Len(p) = n + l /\ \A k \in 1 .. n + l : p[k] = c[RingPlace(r + k - 1)]
      /\ q \in Seq(EventsOf) /\ Len(q) = n
      /\ \A k \in 1 .. n : RingPlace(r + k - 1) \in EvSlots /\ q[k] = b[RingPlace(r + k - 1)]
  BY <1>2, <1>3, <1>4, <1>5, <1>6 DEF IsQueued
<1>8. \A k \in 1 .. n : p[k] = q[k]
  <2> SUFFICES ASSUME NEW k \in 1 .. n PROVE p[k] = q[k]
    OBVIOUS
  <2> PICK s : s = RingPlace(r + k - 1)
    OBVIOUS
  <2>1. \A j \in 1 .. l : s # RingPlace(w + j - 1)
    <3> SUFFICES ASSUME NEW j \in 1 .. l PROVE s # RingPlace(w + j - 1)
      OBVIOUS
    <3>1. n = IF r <= w THEN w - r ELSE w + E - r
      BY <1>2 DEF InRing
    <3>2. s = (IF r + k - 1 < E THEN r + k - 1 ELSE r + k - 1 - E)
          /\ RingPlace(w + j - 1) = IF w + j - 1 < E THEN w + j - 1 ELSE w + j - 1 - E
      BY <1>1, <1>2, <1>3 DEF RingPlace
    <3>3. s # IF w + j - 1 < E THEN w + j - 1 ELSE w + j - 1 - E
      <4>1. /\ E \in Nat \ {0, 1} /\ r \in 0 .. E - 1 /\ w \in 0 .. E - 1 /\ l \in Nat /\ n \in 0 .. E - 1
            /\ l <= E - 1 - n /\ k \in 1 .. n /\ j \in 1 .. l
        BY <1>1, <1>2, <1>3
      <4> QED
        BY ONLY <3>1, <3>2, <4>1
    <3> QED
      BY <3>2, <3>3
  <2>2. s \in EvSlots /\ q[k] = b[s]
    BY <1>7
  <2>3. p[k] = c[s]
    <3>1. k \in 1 .. n + l
      BY <1>3
    <3> QED
      BY <1>7, <3>1
  <2> QED
    BY <1>0, <1>2, <2>1, <2>2, <2>3
<1>9. \A j \in 1 .. l : p[n + j] = evs[j]
  <2> SUFFICES ASSUME NEW j \in 1 .. l PROVE p[n + j] = evs[j]
    OBVIOUS
  <2>1. n + j \in 1 .. n + l
    BY <1>3
  <2>2. RingPlace(r + (n + j) - 1) = RingPlace(w + j - 1)
    <3>1. n = IF r <= w THEN w - r ELSE w + E - r
      BY <1>2 DEF InRing
    <3>2. RingPlace(r + (n + j) - 1) = (IF r + (n + j) - 1 < E THEN r + (n + j) - 1 ELSE r + (n + j) - 1 - E)
          /\ RingPlace(w + j - 1) = IF w + j - 1 < E THEN w + j - 1 ELSE w + j - 1 - E
      BY <1>1, <1>2, <1>3 DEF RingPlace
    <3>3. (IF r + (n + j) - 1 < E THEN r + (n + j) - 1 ELSE r + (n + j) - 1 - E)
          = IF w + j - 1 < E THEN w + j - 1 ELSE w + j - 1 - E
      BY <1>1, <1>2, <1>3, <3>1
    <3> QED
      BY <3>2, <3>3
  <2>3. p[n + j] = c[RingPlace(r + (n + j) - 1)]
    BY <1>7, <2>1
  <2> QED
    BY <1>0, <1>2, <2>2, <2>3
<1>10. p = q \o evs
  <2> PICK z : z = q \o evs
    OBVIOUS
  <2>1. z \in Seq(EventsOf) /\ Len(z) = n + l
        /\ \A k \in 1 .. n + l : z[k] = IF k <= n THEN q[k] ELSE evs[k - n]
    <3>1. evs \in Seq(EventsOf) /\ q \in Seq(EventsOf)
      BY <1>0, <1>7
    <3>2. /\ q \o evs \in Seq(EventsOf) /\ Len(q \o evs) = Len(q) + Len(evs)
          /\ \A i \in 1 .. Len(q) + Len(evs) : (q \o evs)[i] = IF i <= Len(q) THEN q[i] ELSE evs[i - Len(q)]
      BY <3>1, ConcatProperties, Zenon
    <3>3. Len(evs) = l /\ Len(q) = n
      BY <1>2, <1>7
    <3> QED
      BY <3>2, <3>3, Zenon
  <2>2. \A k \in 1 .. n + l : p[k] = z[k]
    <3> SUFFICES ASSUME NEW k \in 1 .. n + l PROVE p[k] = z[k]
      OBVIOUS
    <3>1. CASE k <= n
      <4>1. k \in 1 .. n
        BY <1>3, <3>1
      <4> QED
        BY <1>8, <2>1, <3>1, <4>1
    <3>2. CASE ~(k <= n)
      <4>1. PICK j : j = k - n
        OBVIOUS
      <4>2. j \in 1 .. l /\ k = n + j
        BY <1>3, <3>2, <4>1
      <4>3. p[k] = evs[j]
        BY <1>9, <4>2
      <4>4. z[k] = evs[j]
        BY <2>1, <3>2, <4>1
      <4> QED
        BY <4>3, <4>4
    <3> QED
      BY <3>1, <3>2
  <2> QED
    BY <1>7, <2>1, <2>2
<1> QED
  BY <1>4, <1>6, <1>10

\* What a poll takes are the first events, and there is room afterwards.
Polls(b, r, w, n, x) ==
  /\ x \in EvSlots /\ InRing(x, w) = InRing(r, w) - n
  /\ RingFrom(b, r, w) = SubSeq(RingFrom(b, r, w), 1, n) \o RingFrom(b, x, w)
  /\ SubSeq(RingFrom(b, r, w), 1, n) \in Seq(EventsOf) /\ RingFrom(b, x, w) \in Seq(EventsOf)
LEMMA PolledFirst ==
  ASSUME CompAssumption, NEW b \in [EvSlots -> EventsOf], NEW r \in EvSlots, NEW w \in EvSlots,
         NEW n \in 0 .. InRing(r, w), NEW x, x = (r + n) % EvSize
  PROVE  Polls(b, r, w, n, x)
<1>1. EvSize \in Nat \ {0, 1} /\ r \in 0 .. EvSize - 1 /\ w \in 0 .. EvSize - 1 /\ EvSlots = 0 .. EvSize - 1
  BY DEF CompAssumption, EvSlots
<1>2. PICK m, E : m = InRing(r, w) /\ E = EvSize
  OBVIOUS
<1>3. m \in 0 .. E - 1 /\ n \in 0 .. m /\ IsQueued(RingFrom(b, r, w), b, r, w)
  BY <1>2, RingIs DEF IsQueued
<1>a. m = IF r <= w THEN w - r ELSE w + E - r
  BY <1>2 DEF InRing
<1>b. x = (IF r + n < E THEN r + n ELSE r + n - E)
  <2>1. r + n \in 0 .. 2 * EvSize - 1
    BY <1>1, <1>2, <1>3
  <2> QED
    <3>1. x = RingPlace(r + n)
      BY <2>1, RingTurn
    <3> QED
      BY <1>1, <1>2, <1>3, <3>1 DEF RingPlace
<1>4. x \in EvSlots /\ InRing(x, w) = m - n
  <2>1. x \in 0 .. E - 1 /\ (IF x <= w THEN w - x ELSE w + E - x) = m - n
    BY <1>1, <1>2, <1>3, <1>a, <1>b
  <2> QED
    BY <1>1, <1>2, <2>1 DEF InRing
<1>5. IsQueued(RingFrom(b, x, w), b, x, w)
  BY <1>4, RingIs
<1>6. PICK p, q, s : p = RingFrom(b, x, w) /\ q = RingFrom(b, r, w) /\ s = SubSeq(q, 1, n)
  OBVIOUS
<1>7. /\ p \in Seq(EventsOf) /\ Len(p) = m - n /\ \A k \in 1 .. m - n : p[k] = b[RingPlace(x + k - 1)]
      /\ q \in Seq(EventsOf) /\ Len(q) = m /\ \A k \in 1 .. m : q[k] = b[RingPlace(r + k - 1)]
  BY <1>2, <1>3, <1>4, <1>5, <1>6 DEF IsQueued
<1>8. s \in Seq(EventsOf) /\ Len(s) = n /\ \A k \in 1 .. n : s[k] = q[k]
  BY <1>3, <1>6, <1>7
<1>9. \A k \in 1 .. m - n : p[k] = q[n + k]
  <2> SUFFICES ASSUME NEW k \in 1 .. m - n PROVE p[k] = q[n + k]
    OBVIOUS
  <2>1. n + k \in 1 .. m
    BY <1>3
  <2>2. RingPlace(r + (n + k) - 1) = (IF r + (n + k) - 1 < E THEN r + (n + k) - 1 ELSE r + (n + k) - 1 - E)
        /\ RingPlace(x + k - 1) = IF x + k - 1 < E THEN x + k - 1 ELSE x + k - 1 - E
    BY <1>1, <1>2, <1>3 DEF RingPlace
  <2>3. (IF r + (n + k) - 1 < E THEN r + (n + k) - 1 ELSE r + (n + k) - 1 - E)
        = IF x + k - 1 < E THEN x + k - 1 ELSE x + k - 1 - E
    BY <1>1, <1>2, <1>3, <1>a, <1>b
  <2>4. RingPlace(r + (n + k) - 1) = RingPlace(x + k - 1)
    BY <2>2, <2>3
  <2>5. q[n + k] = b[RingPlace(r + (n + k) - 1)]
    BY <1>7, <2>1
  <2> QED
    BY <1>7, <2>4, <2>5
<1>10. q = s \o p
  <2> PICK z : z = s \o p
    OBVIOUS
  <2>1. z \in Seq(EventsOf) /\ Len(z) = m
        /\ \A k \in 1 .. m : z[k] = IF k <= n THEN s[k] ELSE p[k - n]
    <3>1. z \in Seq(EventsOf) /\ Len(z) = n + (m - n)
          /\ \A k \in 1 .. n + (m - n) : z[k] = IF k <= n THEN s[k] ELSE p[k - n]
      BY <1>7, <1>8
    <3>2. n + (m - n) = m
      BY <1>3
    <3> QED
      BY <3>1, <3>2
  <2>2. \A k \in 1 .. m : q[k] = z[k]
    <3> SUFFICES ASSUME NEW k \in 1 .. m PROVE q[k] = z[k]
      OBVIOUS
    <3>1. CASE k <= n
      <4>1. k \in 1 .. n
        BY <1>3, <3>1
      <4> QED
        BY <1>8, <2>1, <3>1, <4>1
    <3>2. CASE ~(k <= n)
      <4>1. PICK j : j = k - n
        OBVIOUS
      <4>2. j \in 1 .. m - n /\ k = n + j
        BY <1>3, <3>2, <4>1
      <4>3. q[k] = p[j]
        BY <1>9, <4>2
      <4>4. z[k] = p[j]
        BY <2>1, <3>2, <4>1
      <4> QED
        BY <4>3, <4>4
    <3> QED
      BY <3>1, <3>2
  <2>3. q \in Seq(EventsOf) /\ Len(q) = m
    BY <1>7, Zenon
  <2>4. q = z
    BY ONLY <2>1, <2>2, <2>3
  <2> QED
    BY ONLY <2>4, z = s \o p, Zenon
<1>11. /\ RingFrom(b, r, w) = SubSeq(RingFrom(b, r, w), 1, n) \o RingFrom(b, x, w)
       /\ SubSeq(RingFrom(b, r, w), 1, n) \in Seq(EventsOf) /\ RingFrom(b, x, w) \in Seq(EventsOf)
  <2>1. p \in Seq(EventsOf) /\ s \in Seq(EventsOf)
    BY <1>7, <1>8
  <2>2. RingFrom(b, r, w) = SubSeq(RingFrom(b, r, w), 1, n) \o RingFrom(b, x, w)
    BY <1>6, <1>10, Zenon
  <2>3. SubSeq(RingFrom(b, r, w), 1, n) \in Seq(EventsOf) /\ RingFrom(b, x, w) \in Seq(EventsOf)
    BY <1>6, <2>1, Zenon
  <2> QED
    BY <2>2, <2>3, Zenon
<1> QED
  BY <1>2, <1>4, <1>11, Zenon DEF Polls
------------------------------------------------------------------------------
(* What the compositor knows                                                 *)

\* Seeing some events and then others is seeing all of them.
LEMMA SeenBoth ==
  ASSUME NEW k, NEW p \in Seq(EventsOf), NEW q \in Seq(EventsOf)
  PROVE  Seen(k, p \o q) = Seen(Seen(k, p), q)
<1>1. PICK m, n, z : m = Len(p) /\ n = Len(q) /\ z = p \o q
  OBVIOUS
<1>2. /\ m \in Nat /\ n \in Nat /\ z \in Seq(EventsOf) /\ Len(z) = m + n
      /\ \A i \in 1 .. m : z[i] = p[i]
      /\ \A i \in 1 .. n : z[m + i] = q[i]
  <2>1. /\ m \in Nat /\ n \in Nat /\ z \in Seq(EventsOf) /\ Len(z) = m + n
        /\ \A i \in 1 .. m + n : z[i] = IF i <= m THEN p[i] ELSE q[i - m]
    BY <1>1
  <2>2. \A i \in 1 .. m : i \in 1 .. m + n /\ i <= m
    BY <2>1
  <2>3. \A i \in 1 .. n : m + i \in 1 .. m + n /\ ~(m + i <= m) /\ (m + i) - m = i
    BY <2>1
  <2> QED
    BY <2>1, <2>2, <2>3
<1>3. ASSUME NEW h, NEW i \in 0 .. m
      PROVE  GoneAfter(z, i, h) <=> GoneAfter(p, i, h) \/ GoneAfter(q, 0, h)
  <2>1. ASSUME GoneAfter(z, i, h)
        PROVE  GoneAfter(p, i, h) \/ GoneAfter(q, 0, h)
    <3>1. PICK j \in i + 1 .. m + n : z[j].type = "destroyed" /\ z[j].win = h
      BY <1>2, <2>1 DEF GoneAfter
    <3>2. CASE j <= m
      <4>1. j \in i + 1 .. m /\ j \in 1 .. m
        BY <1>2, <1>3, <3>1, <3>2
      <4>2. z[j] = p[j]
        BY <1>2, <4>1
      <4> QED
        BY <1>1, <3>1, <4>1, <4>2 DEF GoneAfter
    <3>3. CASE ~(j <= m)
      <4>1. PICK x : x = j - m
        OBVIOUS
      <4>2. x \in 0 + 1 .. n /\ x \in 1 .. n /\ j = m + x
        BY <1>2, <1>3, <3>1, <3>3, <4>1
      <4>3. z[j] = q[x]
        BY <1>2, <4>2
      <4> QED
        BY <1>1, <3>1, <4>2, <4>3 DEF GoneAfter
    <3> QED
      BY <3>2, <3>3
  <2>2. ASSUME GoneAfter(p, i, h)
        PROVE  GoneAfter(z, i, h)
    <3>1. PICK j \in i + 1 .. m : p[j].type = "destroyed" /\ p[j].win = h
      BY <1>1, <2>2 DEF GoneAfter
    <3>2. j \in i + 1 .. m + n /\ z[j] = p[j]
      BY <1>2, <1>3, <3>1
    <3> QED
      BY <1>2, <3>1, <3>2 DEF GoneAfter
  <2>3. ASSUME GoneAfter(q, 0, h)
        PROVE  GoneAfter(z, i, h)
    <3>1. PICK j \in 0 + 1 .. n : q[j].type = "destroyed" /\ q[j].win = h
      BY <1>1, <2>3 DEF GoneAfter
    <3>2. m + j \in i + 1 .. m + n /\ z[m + j] = q[j]
      BY <1>2, <1>3, <3>1
    <3> QED
      BY <1>2, <3>1, <3>2 DEF GoneAfter
  <2> QED
    BY <2>1, <2>2, <2>3
<1>4. ASSUME NEW h, NEW i \in 0 .. n
      PROVE  GoneAfter(z, m + i, h) <=> GoneAfter(q, i, h)
  <2>1. ASSUME GoneAfter(z, m + i, h)
        PROVE  GoneAfter(q, i, h)
    <3>1. PICK j \in (m + i) + 1 .. m + n : z[j].type = "destroyed" /\ z[j].win = h
      BY <1>2, <2>1 DEF GoneAfter
    <3>2. PICK l : l = j - m
      OBVIOUS
    <3>3. l \in i + 1 .. n /\ l \in 1 .. n /\ j = m + l
      BY <1>2, <1>4, <3>1, <3>2
    <3>4. z[j] = q[l]
      BY <1>2, <3>3
    <3> QED
      BY <1>1, <3>1, <3>3, <3>4 DEF GoneAfter
  <2>2. ASSUME GoneAfter(q, i, h)
        PROVE  GoneAfter(z, m + i, h)
    <3>1. PICK j \in i + 1 .. n : q[j].type = "destroyed" /\ q[j].win = h
      BY <1>1, <2>2 DEF GoneAfter
    <3>2. m + j \in (m + i) + 1 .. m + n /\ j \in 1 .. n
      BY <1>2, <1>4, <3>1
    <3>3. z[m + j] = q[j]
      BY <1>2, <3>2
    <3> QED
      BY <1>2, <3>1, <3>2, <3>3 DEF GoneAfter
  <2> QED
    BY <2>1, <2>2
<1> DEFINE Created(s, l, h) == \E i \in 1 .. l : s[i].type = "created" /\ s[i].win = h /\ ~GoneAfter(s, i, h)
<1>5. \A K, s, h : h \in Seen(K, s) <=> (h \in K /\ ~GoneAfter(s, 0, h)) \/ Created(s, Len(s), h)
  BY DEF Seen
<1>6. ASSUME NEW h
      PROVE  Created(z, m + n, h) <=> (Created(p, m, h) /\ ~GoneAfter(q, 0, h)) \/ Created(q, n, h)
  <2>1. ASSUME Created(z, m + n, h)
        PROVE  (Created(p, m, h) /\ ~GoneAfter(q, 0, h)) \/ Created(q, n, h)
    <3>1. PICK i \in 1 .. m + n : z[i].type = "created" /\ z[i].win = h /\ ~GoneAfter(z, i, h)
      BY <2>1
    <3>2. CASE i <= m
      <4>1. i \in 1 .. m /\ i \in 0 .. m /\ z[i] = p[i]
        BY <1>2, <3>1, <3>2
      <4>2. ~GoneAfter(p, i, h) /\ ~GoneAfter(q, 0, h)
        BY <1>3, <3>1, <4>1
      <4> QED
        BY <3>1, <4>1, <4>2
    <3>3. CASE ~(i <= m)
      <4>1. PICK l : l = i - m
        OBVIOUS
      <4>2. l \in 1 .. n /\ l \in 0 .. n /\ i = m + l
        BY <1>2, <3>1, <3>3, <4>1
      <4>3. z[i] = q[l] /\ ~GoneAfter(q, l, h)
        BY <1>2, <1>4, <3>1, <4>2
      <4> QED
        BY <3>1, <4>2, <4>3
    <3> QED
      BY <3>2, <3>3
  <2>2. ASSUME Created(p, m, h), ~GoneAfter(q, 0, h)
        PROVE  Created(z, m + n, h)
    <3>1. PICK i \in 1 .. m : p[i].type = "created" /\ p[i].win = h /\ ~GoneAfter(p, i, h)
      BY <2>2
    <3>2. i \in 0 .. m /\ i \in 1 .. m + n /\ z[i] = p[i]
      BY <1>2, <3>1
    <3>3. ~GoneAfter(z, i, h)
      BY <1>3, <2>2, <3>1, <3>2
    <3> QED
      BY <3>1, <3>2, <3>3
  <2>3. ASSUME Created(q, n, h)
        PROVE  Created(z, m + n, h)
    <3>1. PICK i \in 1 .. n : q[i].type = "created" /\ q[i].win = h /\ ~GoneAfter(q, i, h)
      BY <2>3
    <3>2. i \in 0 .. n /\ m + i \in 1 .. m + n /\ z[m + i] = q[i]
      BY <1>2, <3>1
    <3>3. ~GoneAfter(z, m + i, h)
      BY <1>4, <3>1, <3>2
    <3> QED
      BY <3>1, <3>2, <3>3
  <2> QED
    BY <2>1, <2>2, <2>3
<1>7. 0 \in 0 .. m
  BY <1>2
<1> HIDE DEF Created
<1>8. \A h : h \in Seen(k, z) <=> h \in Seen(Seen(k, p), q)
  <2> SUFFICES ASSUME NEW h PROVE h \in Seen(k, z) <=> h \in Seen(Seen(k, p), q)
    OBVIOUS
  <2>1. h \in Seen(k, z) <=> (h \in k /\ ~GoneAfter(z, 0, h)) \/ Created(z, m + n, h)
    BY <1>2, <1>5
  <2>2. h \in Seen(k, p) <=> (h \in k /\ ~GoneAfter(p, 0, h)) \/ Created(p, m, h)
    BY <1>1, <1>5
  <2>3. h \in Seen(Seen(k, p), q) <=> (h \in Seen(k, p) /\ ~GoneAfter(q, 0, h)) \/ Created(q, n, h)
    BY <1>1, <1>5
  <2>4. GoneAfter(z, 0, h) <=> GoneAfter(p, 0, h) \/ GoneAfter(q, 0, h)
    BY <1>3, <1>7
  <2> QED
    BY <1>6, <2>1, <2>2, <2>3, <2>4
<1> QED
  BY <1>1, <1>8

\* Events about no window change nothing.
LEMMA SeenOther ==
  ASSUME NEW k, NEW q \in Seq(EventsOf), OtherOnly(q)
  PROVE  Seen(k, q) = k
<1>1. \A i, h : i \in Nat => ~GoneAfter(q, i, h)
  <2> SUFFICES ASSUME NEW i \in Nat, NEW h, NEW j \in i + 1 .. Len(q), q[j].type = "destroyed" PROVE FALSE
    BY DEF GoneAfter
  <2>1. j \in 1 .. Len(q)
    OBVIOUS
  <2> QED
    BY <2>1 DEF OtherOnly
<1>2. \A i \in 1 .. Len(q) : q[i].type # "created"
  BY DEF OtherOnly
<1> QED
  BY <1>1, <1>2 DEF Seen

\* A new window is known.
LEMMA SeenCreated ==
  ASSUME NEW k, NEW h, NEW q, q = <<[type |-> "created", win |-> h]>>
  PROVE  Seen(k, q) = k \cup {h}
<1>1. Len(q) = 1 /\ q[1].type = "created" /\ q[1].win = h /\ \A j \in 1 .. Len(q) : j = 1
  OBVIOUS
<1>2. \A g, i : i \in {0, 1} => ~GoneAfter(q, i, g)
  BY <1>1 DEF GoneAfter
<1>3. {q[i].win : i \in {j \in 1 .. Len(q) : q[j].type = "created" /\ ~GoneAfter(q, j, q[j].win)}} = {h}
  BY <1>1, <1>2
<1> QED
  BY <1>2, <1>3 DEF Seen

\* Windows that are gone are not.
AllGone(q, S) ==
  /\ q \in Seq(EventsOf) /\ \A j \in 1 .. Len(q) : q[j].type = "destroyed"
  /\ \A h : h \in S <=> \E j \in 1 .. Len(q) : q[j].win = h
LEMMA SeenDestroyed ==
  ASSUME NEW k, NEW q, NEW S, AllGone(q, S)
  PROVE  Seen(k, q) = k \ S
<1> USE DEF AllGone
<1>1. \A h : GoneAfter(q, 0, h) <=> h \in S
  BY DEF GoneAfter
<1>2. {j \in 1 .. Len(q) : q[j].type = "created" /\ ~GoneAfter(q, j, q[j].win)} = {}
  OBVIOUS
<1> QED
  BY <1>1, <1>2 DEF Seen

\* Every element of a finite set of numbers is the k-th for one k.
IsNth(S) ==
  /\ \A k \in 1 .. Cardinality(S) : NthOf(S, k) \in S
  /\ \A i \in S : \E k \in 1 .. Cardinality(S) : NthOf(S, k) = i
LEMMA NthCounts ==
  ASSUME NEW S, S \subseteq Nat, IsFiniteSet(S)
  PROVE  IsNth(S)
<1> DEFINE Upto(i) == {j \in S : j <= i}
           n == Cardinality(S)
           f == [i \in S |-> Cardinality(Upto(i))]
<1>1. \A i \in S : IsFiniteSet(Upto(i)) /\ Upto(i) \subseteq S /\ i \in Upto(i)
  <2> SUFFICES ASSUME NEW i \in S PROVE IsFiniteSet(Upto(i)) /\ Upto(i) \subseteq S /\ i \in Upto(i)
    OBVIOUS
  <2>1. Upto(i) \subseteq S /\ i \in Upto(i)
    OBVIOUS
  <2> QED
    BY <2>1, FS_Subset
<1>2. n \in Nat
  BY FS_CardinalityType
<1>3. \A i \in S : Cardinality(Upto(i)) \in 1 .. n
  <2> SUFFICES ASSUME NEW i \in S PROVE Cardinality(Upto(i)) \in 1 .. n
    OBVIOUS
  <2> HIDE DEF Upto, n
  <2>1. Cardinality(Upto(i)) \in Nat
    BY <1>1, FS_CardinalityType
  <2>2. Cardinality(Upto(i)) <= n
    BY <1>1, FS_Subset DEF n
  <2>3. Cardinality(Upto(i)) # 0
    BY <1>1, FS_EmptySet
  <2> QED
    BY <1>2, <2>1, <2>2, <2>3
<1>4. \A i, j \in S : Cardinality(Upto(i)) = Cardinality(Upto(j)) => i = j
  <2>1. ASSUME NEW i \in S, NEW j \in S, Cardinality(Upto(i)) = Cardinality(Upto(j)), i < j
        PROVE  FALSE
    <3>0. i \in Nat /\ j \in Nat
      BY <2>1
    <3>1. Upto(i) \subseteq Upto(j) /\ j \notin Upto(i)
      <4>1. \A x \in S : x <= i => x <= j
        BY <2>1, <3>0
      <4>2. ~(j <= i)
        BY <2>1, <3>0
      <4> QED
        BY <4>1, <4>2
    <3> HIDE DEF Upto
    <3>2. Upto(j) = Upto(i)
      BY <1>1, <2>1, <3>1, FS_Subset
    <3> QED
      BY <1>1, <3>1, <3>2
  <2> HIDE DEF Upto
  <2>2. \A i, j \in S : i < j \/ j < i \/ i = j
    OBVIOUS
  <2> QED
    BY <2>1, <2>2
<1>5. f \in Injection(S, 1 .. n)
  <2> HIDE DEF Upto, n
  <2> QED
    BY <1>3, <1>4, Zenon DEF Injection, IsInjective
<1>6. IsFiniteSet(1 .. n) /\ Cardinality(1 .. n) = n
  <2> HIDE DEF n
  <2>1. IsFiniteSet(1 .. n) /\ Cardinality(1 .. n) = IF 1 > n THEN 0 ELSE n - 1 + 1
    BY <1>2, FS_Interval
  <2> QED
    BY <1>2, <2>1
<1>7. f \in Surjection(S, 1 .. n)
  <2>1. Cardinality(S) = Cardinality(1 .. n)
    BY <1>6
  <2> HIDE DEF f, n
  <2> QED
    BY <1>5, <1>6, <2>1, FS_Injection
<1>8. \A k \in 1 .. n : \E i \in S : Cardinality(Upto(i)) = k
  <2> HIDE DEF Upto, n
  <2> QED
    BY <1>7 DEF Surjection
<1>9. \A k : NthOf(S, k) = CHOOSE i \in S : Cardinality(Upto(i)) = k
  BY DEF NthOf
<1> HIDE DEF Upto, n, f
<1>10. \A k \in 1 .. n : NthOf(S, k) \in S /\ Cardinality(Upto(NthOf(S, k))) = k
  <2> SUFFICES ASSUME NEW k \in 1 .. n PROVE NthOf(S, k) \in S /\ Cardinality(Upto(NthOf(S, k))) = k
    OBVIOUS
  <2>1. \E i \in S : Cardinality(Upto(i)) = k
    BY <1>8
  <2> QED
    BY <1>9, <2>1
<1>11. \A i \in S : NthOf(S, Cardinality(Upto(i))) = i
  BY <1>3, <1>4, <1>10
<1> QED
  BY <1>3, <1>10, <1>11 DEF IsNth, n
------------------------------------------------------------------------------
(* The windows and the events about them                                     *)

\* Generations are used once while they last.
HandleInv ==
  /\ g_window_generation \in Nat \ {0} /\ IsFiniteSet(dead)
  /\ g_window_generation <= Cardinality(dead \cup Handles) + 1
  /\ \A h \in dead \cup Handles \cup older : h[1] \in Int /\ h[1] <= g_window_generation
  /\ \A i \in Active : g_windows[i].handle[2] = i
  /\ dead \cap Handles = {}

\* Every push under way will store where the ring ends.
PushInv ==
  \A p \in Proc \cup {Boot} :
    pc[p].at = "push" => pc[p].write \in EvSlots /\ (~lost => pc[p].write = g_event_write /\ ~Full)

\* Without a compositor no window event waits.
TellInv ==
  ~lost => IF g_compositor_pid = Nobody THEN OtherOnly(Queued) ELSE Seen(known, Queued) = Handles \ older

EventRingTypes ==
  /\ g_event_buf \in [EvSlots -> EventsOf] /\ g_event_read \in EvSlots /\ g_event_write \in EvSlots
  /\ lost \in BOOLEAN
EventInv == EventRingTypes /\ PushInv /\ TellInv

WindowInv == QueueInv /\ HandleInv /\ EventInv

LEMMA QueuedIs == Queued = RingFrom(g_event_buf, g_event_read, g_event_write)
  BY DEF Queued, RingFrom

LEMMA MinOfTwo ==
  ASSUME NEW a \in Nat, NEW b \in Nat
  PROVE  Min({a, b}) = IF a <= b THEN a ELSE b
<1>1. {a, b} \subseteq Nat /\ {a, b} # {}
  OBVIOUS
<1>2. Min({a, b}) \in {a, b} /\ \A m \in {a, b} : Min({a, b}) <= m
  BY <1>1, SmallestOfNats
<1> QED
  BY <1>2

\* One slot stays free.
LEMMA FullIf ==
  ASSUME CompAssumption, NEW r \in EvSlots, NEW w \in EvSlots
  PROVE  EvNext(w) = r <=> InRing(r, w) = EvSize - 1
<1> PICK E : E = EvSize
  OBVIOUS
<1>1. E \in Nat \ {0, 1} /\ r \in 0 .. E - 1 /\ w \in 0 .. E - 1
  BY DEF CompAssumption, EvSlots
<1>2. EvNext(w) = RingPlace(w + 1)
  <2>1. w + 1 \in 0 .. 2 * EvSize - 1
    BY <1>1
  <2> QED
    BY <2>1, RingTurn DEF EvNext
<1>3. RingPlace(w + 1) = (IF w + 1 < E THEN w + 1 ELSE w + 1 - E)
      /\ InRing(r, w) = (IF r <= w THEN w - r ELSE w + E - r)
  BY <1>1 DEF RingPlace, InRing
<1>4. (IF w + 1 < E THEN w + 1 ELSE w + 1 - E) = r <=> (IF r <= w THEN w - r ELSE w + E - r) = E - 1
  BY <1>1
<1> QED
  BY <1>2, <1>3, <1>4

LEMMA FullIs ==
  ASSUME CompAssumption, EventRingTypes
  PROVE  Full <=> InRing(g_event_read, g_event_write) = EvSize - 1
  BY FullIf DEF Full, EventRingTypes

\* What a masked push of events does: a step that loses nothing appends them.
IsPushed(evs) ==
  /\ EventRingTypes' /\ (lost => lost') /\ g_event_read' = g_event_read
  /\ ~lost' => /\ Queued' = Queued \o evs
               /\ g_event_write' = g_event_write \/ ~Cuts
LEMMA PushAllIs ==
  ASSUME CompAssumption, EventRingTypes, NEW evs \in Seq(EventsOf), PushAll(evs)
  PROVE  IsPushed(evs)
<1> PICK r, w, E, l : r = g_event_read /\ w = g_event_write /\ E = EvSize /\ l = Len(evs)
  OBVIOUS
<1>1. E \in Nat \ {0, 1} /\ r \in 0 .. E - 1 /\ w \in 0 .. E - 1 /\ EvSlots = 0 .. E - 1 /\ l \in Nat
  BY DEF CompAssumption, EvSlots, EventRingTypes
<1> PICK room, n : room = (r + E - w - 1) % E /\ n = Min({room, l})
  OBVIOUS
<1> PICK in : in = [k \in 1 .. n |-> (w + k - 1) % E]
  OBVIOUS
<1>2. /\ g_event_buf' = [s \in EvSlots |->
           IF \E k \in 1 .. n : in[k] = s THEN evs[CHOOSE k \in 1 .. n : in[k] = s] ELSE g_event_buf[s]]
      /\ g_event_write' = (w + n) % E
      /\ lost' = (lost \/ n < l \/ (n > 0 /\ Cuts))
      /\ g_event_read' = r
  BY DEF PushAll
<1>3. room \in Nat /\ room = E - 1 - InRing(r, w) /\ InRing(r, w) \in 0 .. E - 1
  <2> PICK x : x = r + E - w - 1
    OBVIOUS
  <2>1. x \in 0 .. 2 * E - 1
    BY <1>1
  <2>2. room = RingPlace(x)
    BY <2>1, RingTurn
  <2>3. RingPlace(x) = IF x < E THEN x ELSE x - E
    BY DEF RingPlace
  <2>4. InRing(r, w) = IF r <= w THEN w - r ELSE w + E - r
    BY DEF InRing
  <2>5. (IF x < E THEN x ELSE x - E) = E - 1 - (IF r <= w THEN w - r ELSE w + E - r)
        /\ (IF r <= w THEN w - r ELSE w + E - r) \in 0 .. E - 1
    BY <1>1
  <2> QED
    BY <1>1, <2>2, <2>3, <2>4, <2>5
<1>4. n \in Nat /\ n <= room /\ n <= l /\ n <= E - 1 /\ (n = l \/ n < l)
  <2>1. n = IF room <= l THEN room ELSE l
    BY <1>1, <1>3, MinOfTwo
  <2>2. room \in Nat /\ l \in Nat /\ room <= E - 1 /\ E \in Nat
    BY <1>1, <1>3
  <2> QED
    BY ONLY <2>1, <2>2
<1>5. \A k \in 1 .. n : in[k] = RingPlace(w + k - 1) /\ in[k] \in EvSlots
  <2> SUFFICES ASSUME NEW k \in 1 .. n PROVE in[k] = RingPlace(w + k - 1) /\ in[k] \in EvSlots
    OBVIOUS
  <2>1. w + k - 1 \in 0 .. 2 * E - 1
    BY <1>1, <1>4
  <2> QED
    BY <2>1, RingTurn
<1>6. \A j, k \in 1 .. n : in[j] = in[k] => j = k
  <2> SUFFICES ASSUME NEW j \in 1 .. n, NEW k \in 1 .. n, in[j] = in[k] PROVE j = k
    OBVIOUS
  <2>1. RingPlace(w + j - 1) = (IF w + j - 1 < E THEN w + j - 1 ELSE w + j - 1 - E)
        /\ RingPlace(w + k - 1) = (IF w + k - 1 < E THEN w + k - 1 ELSE w + k - 1 - E)
    BY <1>1, <1>4 DEF RingPlace
  <2>2. (IF w + j - 1 < E THEN w + j - 1 ELSE w + j - 1 - E) = (IF w + k - 1 < E THEN w + k - 1 ELSE w + k - 1 - E)
    <3>1. in[j] = RingPlace(w + j - 1) /\ in[k] = RingPlace(w + k - 1)
      BY <1>5, Zenon
    <3>2. RingPlace(w + j - 1) = RingPlace(w + k - 1)
      BY <3>1, Zenon
    <3> QED
      BY ONLY <2>1, <3>2, Zenon
  <2>3. E \in Nat \ {0, 1} /\ w \in 0 .. E - 1 /\ n \in Nat /\ n <= E - 1 /\ j \in 1 .. n /\ k \in 1 .. n
    BY <1>1, <1>4
  <2>4. E \in Int /\ w \in Int /\ j \in Int /\ k \in Int /\ j - k < E /\ k - j < E
    BY ONLY <2>3
  <2>5. CASE w + j - 1 < E /\ w + k - 1 < E
    BY ONLY <2>2, <2>4, <2>5
  <2>6. CASE w + j - 1 < E /\ ~(w + k - 1 < E)
    BY ONLY <2>2, <2>4, <2>6
  <2>7. CASE ~(w + j - 1 < E) /\ w + k - 1 < E
    BY ONLY <2>2, <2>4, <2>7
  <2>8. CASE ~(w + j - 1 < E) /\ ~(w + k - 1 < E)
    BY ONLY <2>2, <2>4, <2>8
  <2> QED
    BY <2>5, <2>6, <2>7, <2>8
<1> PICK c : c = g_event_buf'
  OBVIOUS
<1>7. \A k \in 1 .. n : c[in[k]] = evs[k]
  <2> SUFFICES ASSUME NEW k \in 1 .. n PROVE c[in[k]] = evs[k]
    OBVIOUS
  <2>1. (CHOOSE j \in 1 .. n : in[j] = in[k]) = k
    <3>1. \E j \in 1 .. n : in[j] = in[k]
      OBVIOUS
    <3>2. PICK j : j = CHOOSE i \in 1 .. n : in[i] = in[k]
      OBVIOUS
    <3>3. j \in 1 .. n /\ in[j] = in[k]
      BY <3>1, <3>2
    <3> QED
      BY <1>6, <3>2, <3>3
  <2>2. in[k] \in EvSlots
    BY <1>5
  <2> QED
    BY <1>2, <2>1, <2>2
<1>8. \A s \in EvSlots : (\A k \in 1 .. n : s # in[k]) => c[s] = g_event_buf[s]
  BY <1>2
<1>9. c \in [EvSlots -> EventsOf]
  <2>1. \A s \in EvSlots : c[s] \in EventsOf
    <3> SUFFICES ASSUME NEW s \in EvSlots PROVE c[s] \in EventsOf
      OBVIOUS
    <3>1. CASE \E k \in 1 .. n : in[k] = s
      <4>1. PICK k \in 1 .. n : in[k] = s
        BY <3>1
      <4>2. k \in 1 .. l
        BY <1>1, <1>4
      <4>3. evs[k] \in EventsOf
        BY <4>2
      <4> QED
        BY <1>7, <4>1, <4>3
    <3>2. CASE ~\E k \in 1 .. n : in[k] = s
      BY <1>8, <3>2 DEF EventRingTypes
    <3> QED
      BY <3>1, <3>2
  <2>2. c = [s \in EvSlots |-> c[s]]
    BY <1>2
  <2> QED
    BY <2>1, <2>2
<1>10. g_event_write' = RingPlace(w + n) /\ g_event_write' \in EvSlots
  <2>1. w + n \in 0 .. 2 * E - 1
    BY <1>1, <1>4
  <2> QED
    BY <1>2, <2>1, RingTurn
<1>11. EventRingTypes'
  <2>1. lost' \in BOOLEAN
    BY <1>2
  <2> QED
    BY <1>2, <1>9, <1>10, <2>1 DEF EventRingTypes, EvSlots, EventsOf
<1>12. ASSUME ~lost'
       PROVE  Queued' = Queued \o evs /\ (g_event_write' = g_event_write \/ ~Cuts)
  <2>1. n = l /\ (n > 0 => ~Cuts)
    BY <1>1, <1>2, <1>4, <1>12
  <2>2. RingFrom(c, r, g_event_write') = RingFrom(g_event_buf, r, w) \o evs
    <3>1. Len(evs) <= EvSize - 1 - InRing(r, w)
      BY <1>3, <1>4, <2>1
    <3>2. \A k \in 1 .. Len(evs) : c[RingPlace(w + k - 1)] = evs[k]
      BY <1>5, <1>7, <2>1
    <3>3. \A s \in EvSlots : (\A k \in 1 .. Len(evs) : s # RingPlace(w + k - 1)) => c[s] = g_event_buf[s]
      <4> SUFFICES ASSUME NEW s \in EvSlots, \A k \in 1 .. Len(evs) : s # RingPlace(w + k - 1)
                   PROVE  c[s] = g_event_buf[s]
        OBVIOUS
      <4>1. \A k \in 1 .. n : s # in[k]
        BY <1>5, <2>1
      <4> QED
        BY <1>8, <4>1
    <3>4. g_event_buf \in [EvSlots -> EventsOf] /\ r \in EvSlots /\ w \in EvSlots
      BY DEF EventRingTypes
    <3>5. g_event_write' = RingPlace(w + Len(evs))
      BY <1>10, <2>1
    <3>6. PICK x, b : x = g_event_write' /\ b = g_event_buf
      OBVIOUS
    <3>7. Pushes(b, c, r, w, x, evs)
      BY <1>9, <3>1, <3>2, <3>3, <3>4, <3>5, <3>6 DEF Pushes
    <3>8. RingFrom(c, r, x) = RingFrom(b, r, w) \o evs
      BY <3>7, PushedAfter
    <3> QED
      BY <3>6, <3>8
  <2>3. Queued' = RingFrom(c, r, g_event_write')
    BY <1>2 DEF Queued, RingFrom
  <2>4. n = 0 => g_event_write' = w
    BY <1>1, <1>10 DEF RingPlace
  <2> QED
    BY <1>4, <2>1, <2>2, <2>3, <2>4, QueuedIs
<1> QED
  BY <1>2, <1>11, <1>12 DEF IsPushed

\* The processes that push are those that pushed before.
PushersStay == \A p \in Proc \cup {Boot} : pc'[p].at = "push" => pc'[p] = pc[p]

\* A step that leaves the handles alone.
IsSame == HandleInv' /\ Handles' = Handles
LEMMA HandlesKeep ==
  ASSUME HandleInv, g_window_generation' = g_window_generation, dead' = dead, older' \subseteq older \cup Handles,
         \A i \in WinSlots : /\ g_windows'[i].active = g_windows[i].active
                             /\ g_windows'[i].handle = g_windows[i].handle
  PROVE  IsSame
<1>1. Active' = Active
  BY DEF Active
<1>2. \A i \in Active : g_windows'[i].handle = g_windows[i].handle
  BY DEF Active
<1>3. Handles' = Handles
  BY <1>1, <1>2 DEF Handles
<1> QED
  BY <1>1, <1>2, <1>3 DEF HandleInv, IsSame

\* A step that leaves the events alone, too.
LEMMA EventsKeep ==
  ASSUME EventInv, UNCHANGED <<ring, lost, g_compositor_pid, told>>, Handles' = Handles, PushersStay
  PROVE  EventInv'
<1>1. Queued' = Queued /\ Full' = Full
  BY DEF Queued, Full, EvNext, ring
<1>2. EventRingTypes' /\ TellInv'
  BY <1>1 DEF EventInv, EventRingTypes, TellInv, ring, told, EvSlots, EventsOf
<1>3. PushInv'
  BY <1>1 DEF EventInv, PushInv, PushersStay, ring, EvSlots
<1> QED
  BY <1>2, <1>3 DEF EventInv

\* A step that tells the compositor of what it does to the windows.
LEMMA TellKeeps ==
  ASSUME CompAssumption, EventInv, NEW evs \in Seq(EventsOf), Tell(evs),
         UNCHANGED <<g_compositor_pid, told>>, PushersStay,
         Seen(Handles \ older, evs) = Handles' \ older
  PROVE  EventInv'
<1>0. EventRingTypes /\ PushInv /\ TellInv
  BY DEF EventInv
<1>1. CASE g_compositor_pid = Nobody
  <2>1. UNCHANGED <<ring, lost>>
    BY <1>1 DEF Tell
  <2>2. Queued' = Queued /\ Full' = Full
    BY <2>1 DEF Queued, Full, EvNext, ring
  <2>3. EventRingTypes' /\ TellInv'
    BY <1>0, <1>1, <2>1, <2>2 DEF EventRingTypes, TellInv, ring, EvSlots, EventsOf
  <2>4. PushInv'
    BY <1>0, <2>1, <2>2 DEF PushInv, PushersStay, ring, EvSlots
  <2> QED
    BY <2>3, <2>4 DEF EventInv
<1>2. CASE g_compositor_pid # Nobody
  <2>1. PushAll(evs)
    BY <1>2 DEF Tell
  <2>2. IsPushed(evs)
    BY <1>0, <2>1, PushAllIs
  <2>3. EventRingTypes' /\ (lost => lost') /\ g_event_read' = g_event_read
    BY <2>2 DEF IsPushed
  <2>4. TellInv'
    <3>1. ASSUME ~lost'
          PROVE  Seen(known', Queued') = Handles' \ older'
      <4>1. ~lost /\ Queued' = Queued \o evs
        BY <2>2, <2>3, <3>1 DEF IsPushed
      <4>2. Seen(known, Queued) = Handles \ older
        BY <1>0, <1>2, <4>1 DEF TellInv
      <4>3. Queued \in Seq(EventsOf)
        BY <1>0, QueuedIs, RingIs DEF IsQueued, EventRingTypes
      <4>4. Seen(known, Queued \o evs) = Seen(Seen(known, Queued), evs)
        BY <4>3, SeenBoth
      <4> QED
        BY <4>1, <4>2, <4>4 DEF told
    <3> QED
      BY <1>2, <3>1 DEF TellInv
  <2>5. PushInv'
    <3> SUFFICES ASSUME NEW p \in Proc \cup {Boot}, pc'[p].at = "push"
                 PROVE  pc'[p].write \in EvSlots /\ (~lost' => pc'[p].write = g_event_write' /\ ~Full')
      BY DEF PushInv, EvSlots
    <3>1. pc'[p] = pc[p] /\ pc[p].at = "push" /\ pc[p].write \in EvSlots
      BY <1>0 DEF PushersStay, PushInv
    <3>2. ASSUME ~lost'
          PROVE  pc[p].write = g_event_write' /\ ~Full'
      <4>1. ~lost /\ g_event_write' = g_event_write
        BY <2>2, <2>3, <3>1, <3>2 DEF IsPushed, Cuts
      <4>2. Full' = Full
        BY <2>3, <4>1 DEF Full, EvNext
      <4> QED
        BY <1>0, <3>1, <4>1, <4>2 DEF PushInv
    <3> QED
      BY <3>1, <3>2
  <2> QED
    BY <2>3, <2>4, <2>5 DEF EventInv
<1> QED
  BY <1>1, <1>2

\* The two halves of a push with interrupts enabled.
LEMMA PushStepsKeep ==
  ASSUME CompAssumption, WindowInv, NEW p \in Proc \cup {Boot}, PushCheck(p) \/ PushRead(p) \/ PushStore(p)
  PROVE  WindowInv'
<1>0. QueueInv /\ HandleInv /\ EventInv /\ EventRingTypes /\ PushInv /\ TellInv /\ DOMAIN pc = Proc \cup {Boot}
  BY DEF WindowInv, EventInv, QueueInv, RouteTypes
<1>1. QueueInv'
  BY <1>0, PushesKeep
<1>2. HandleInv' /\ Handles' = Handles
  <2>1. UNCHANGED <<windowVars, told, dead>>
    BY DEF PushCheck, PushRead, PushStore
  <2> QED
    BY <1>0, <2>1, HandlesKeep DEF IsSame, windowVars, told
<1>3. CASE PushCheck(p)
  <2>1. UNCHANGED <<ring, lost, g_compositor_pid, told>> /\ pc' = [pc EXCEPT ![p] = [at |-> "present"]]
    BY <1>3 DEF PushCheck
  <2>2. PushersStay
    BY <1>0, <2>1 DEF PushersStay
  <2> QED
    BY <1>0, <1>1, <1>2, <2>1, <2>2, EventsKeep DEF WindowInv
<1>4. CASE PushRead(p)
  <2>1. /\ UNCHANGED <<ring, lost, g_compositor_pid, told>>
        /\ pc' = [pc EXCEPT ![p] = IF Full THEN Idle ELSE [at |-> "push", write |-> g_event_write]]
    BY <1>4 DEF PushRead
  <2>2. Queued' = Queued /\ Full' = Full
    BY <2>1 DEF Queued, Full, EvNext, ring
  <2>3. EventRingTypes' /\ TellInv'
    BY <1>0, <1>2, <2>1, <2>2 DEF EventRingTypes, TellInv, ring, told, EvSlots, EventsOf
  <2>4. PushInv'
    <3> SUFFICES ASSUME NEW q \in Proc \cup {Boot}, pc'[q].at = "push"
                 PROVE  pc'[q].write \in EvSlots /\ (~lost' => pc'[q].write = g_event_write' /\ ~Full')
      BY DEF PushInv, EvSlots
    <3>1. CASE q = p
      <4>1. pc'[q] = IF Full THEN Idle ELSE [at |-> "push", write |-> g_event_write]
        BY <1>0, <2>1, <3>1
      <4>2. ~Full /\ pc'[q].write = g_event_write
        BY <4>1 DEF Idle
      <4> QED
        BY <1>0, <2>1, <2>2, <4>2 DEF EventRingTypes, ring
    <3>2. CASE q # p
      <4>1. pc'[q] = pc[q]
        BY <1>0, <2>1, <3>2
      <4> QED
        BY <1>0, <2>1, <2>2, <4>1 DEF PushInv, ring
    <3> QED
      BY <3>1, <3>2
  <2> QED
    BY <1>1, <1>2, <2>3, <2>4 DEF WindowInv, EventInv
<1>5. CASE PushStore(p)
  <2> PICK r, w, v : r = g_event_read /\ w = g_event_write /\ v = pc[p].write
    OBVIOUS
  <2>1. /\ pc[p].at = "push"
        /\ g_event_buf' = [g_event_buf EXCEPT ![v] = Other] /\ g_event_write' = EvNext(v)
        /\ g_event_read' = r /\ pc' = [pc EXCEPT ![p] = Idle]
        /\ lost' = (lost \/ \E q \in DOMAIN pc \ {p} : pc[q].at = "push")
        /\ UNCHANGED <<g_compositor_pid, told>>
    BY <1>5 DEF PushStore
  <2>2. v \in EvSlots /\ r \in EvSlots /\ w \in EvSlots
    BY <1>0, <2>1 DEF PushInv, EventRingTypes
  <2>3. Other \in EventsOf
    BY DEF Other, NoHandle, Handle, EventsOf
  <2>4. EventRingTypes'
    <3>1. EvNext(v) \in EvSlots
      <4>1. v + 1 \in 0 .. 2 * EvSize - 1
        BY <2>2 DEF EvSlots, CompAssumption
      <4> QED
        BY <4>1, RingTurn DEF EvNext
    <3>2. g_event_buf' \in [EvSlots -> EventsOf] /\ lost' \in BOOLEAN
      BY <1>0, <2>1, <2>3 DEF EventRingTypes
    <3> QED
      BY <2>1, <2>2, <3>1, <3>2 DEF EventRingTypes, EvSlots, EventsOf
  <2>5. ASSUME ~lost'
        PROVE  ~lost /\ v = w /\ ~Full /\ \A q \in Proc \cup {Boot} : pc'[q].at # "push"
    <3>1. ~lost /\ \A q \in (Proc \cup {Boot}) \ {p} : pc[q].at # "push"
      BY <1>0, <2>1, <2>5
    <3>2. v = w /\ ~Full
      BY <1>0, <2>1, <3>1 DEF PushInv
    <3> QED
      BY <1>0, <2>1, <3>1, <3>2 DEF Idle
  <2>6. ASSUME ~lost'
        PROVE  Queued' = Queued \o <<Other>>
    <3>1. v = w /\ ~Full
      BY <2>5, <2>6
    <3>2. PICK b, c, x, evs : b = g_event_buf /\ c = g_event_buf' /\ x = g_event_write' /\ evs = <<Other>>
      OBVIOUS
    <3>3. EvSize \in Nat \ {0, 1} /\ w \in 0 .. EvSize - 1 /\ InRing(r, w) \in 0 .. EvSize - 1
          /\ InRing(r, w) # EvSize - 1 /\ EvSlots = 0 .. EvSize - 1
      <4>1. IsQueued(RingFrom(g_event_buf, r, w), g_event_buf, r, w)
        BY <1>0, <2>2, RingIs DEF EventRingTypes
      <4> QED
        BY <1>0, <2>2, <3>1, <4>1, FullIs DEF CompAssumption, EvSlots, IsQueued
    <3>4. x = RingPlace(w + 1) /\ RingPlace(w) = w
      <4>1. w + 1 \in 0 .. 2 * EvSize - 1
        BY <3>3
      <4>2. x = (w + 1) % EvSize
        BY <2>1, <3>1, <3>2 DEF EvNext
      <4>3. x = RingPlace(w + 1)
        BY <4>1, <4>2, RingTurn
      <4>4. RingPlace(w) = w
        BY <3>3 DEF RingPlace
      <4> QED
        BY <4>3, <4>4
    <3>5. evs \in Seq(EventsOf) /\ Len(evs) = 1 /\ evs[1] = Other
      BY <2>3, <3>2
    <3>6. b \in [EvSlots -> EventsOf] /\ c \in [EvSlots -> EventsOf] /\ c = [b EXCEPT ![w] = Other]
      BY <1>0, <2>1, <2>4, <3>1, <3>2 DEF EventRingTypes, EvSlots, EventsOf
    <3>7. Pushes(b, c, r, w, x, evs)
      <4>1. \A k \in 1 .. Len(evs) : k = 1 /\ RingPlace(w + k - 1) = w
        BY <3>3, <3>4, <3>5
      <4>2. \A k \in 1 .. Len(evs) : c[RingPlace(w + k - 1)] = evs[k]
        BY <2>2, <3>5, <3>6, <4>1
      <4>3. \A s \in EvSlots : (\A k \in 1 .. Len(evs) : s # RingPlace(w + k - 1)) => c[s] = b[s]
        BY <3>5, <3>6, <4>1
      <4>4. Len(evs) <= EvSize - 1 - InRing(r, w) /\ x = RingPlace(w + Len(evs))
        BY <3>3, <3>4, <3>5
      <4> QED
        BY <2>2, <3>5, <3>6, <4>2, <4>3, <4>4 DEF Pushes
    <3>8. RingFrom(c, r, x) = RingFrom(b, r, w) \o evs
      BY <3>7, PushedAfter
    <3>9. Queued' = RingFrom(c, r, x) /\ Queued = RingFrom(b, r, w)
      BY <2>1, <3>2 DEF Queued, RingFrom
    <3> QED
      BY <3>2, <3>8, <3>9
  <2>7. ASSUME ~lost'
        PROVE  IF g_compositor_pid = Nobody THEN OtherOnly(Queued') ELSE Seen(known, Queued') = Handles \ older
    <3>1. PICK q, evs, z : q = Queued /\ evs = <<Other>> /\ z = Queued'
      OBVIOUS
    <3>2. q \in Seq(EventsOf)
      BY <1>0, <3>1, QueuedIs, RingIs DEF IsQueued, EventRingTypes
    <3>3. evs \in Seq(EventsOf) /\ OtherOnly(evs) /\ Len(evs) = 1 /\ z = q \o evs
      BY <2>3, <2>6, <2>7, <3>1 DEF OtherOnly, Other
    <3>4. Seen(known, z) = Seen(known, q)
      <4>1. Seen(known, q \o evs) = Seen(Seen(known, q), evs)
        BY <3>2, <3>3, SeenBoth
      <4> QED
        BY <3>3, <4>1, SeenOther
    <3>5. OtherOnly(q) => OtherOnly(z)
      <4>1. PICK n : n = Len(q)
        OBVIOUS
      <4>2. n \in Nat /\ Len(z) = n + 1 /\ \A k \in 1 .. n + 1 : z[k] = IF k <= n THEN q[k] ELSE evs[k - n]
        <5>1. q \in Seq(EventsOf) /\ evs \in Seq(EventsOf)
          BY <3>2, <3>3
        <5>2. /\ Len(q \o evs) = Len(q) + Len(evs)
              /\ \A i \in 1 .. Len(q) + Len(evs) : (q \o evs)[i] = IF i <= Len(q) THEN q[i] ELSE evs[i - Len(q)]
          BY <5>1, ConcatProperties, Zenon
        <5>3. Len(q) = n /\ Len(evs) = 1 /\ z = q \o evs /\ n \in Nat
          BY <3>2, <3>3, <4>1
        <5> QED
          BY <5>2, <5>3, Zenon
      <4>3. \A k \in 1 .. n + 1 : z[k] = (IF k \in 1 .. n THEN q[k] ELSE evs[1])
        <5>1. \A k \in 1 .. n + 1 : IF k \in 1 .. n THEN k <= n ELSE ~(k <= n) /\ k - n = 1
          BY <4>2
        <5> QED
          BY <4>2, <5>1
      <4> QED
        BY <3>3, <4>1, <4>2, <4>3 DEF OtherOnly
    <3>6. IF g_compositor_pid = Nobody THEN OtherOnly(q) ELSE Seen(known, q) = Handles \ older
      BY <1>0, <2>5, <2>7, <3>1 DEF TellInv
    <3> QED
      BY <3>1, <3>4, <3>5, <3>6
  <2>8. TellInv'
    BY <1>2, <2>1, <2>7 DEF TellInv, told, OtherOnly
  <2>9. PushInv'
    <3> SUFFICES ASSUME NEW q \in Proc \cup {Boot}, pc'[q].at = "push"
                 PROVE  pc'[q].write \in EvSlots /\ (~lost' => pc'[q].write = g_event_write' /\ ~Full')
      BY DEF PushInv, EvSlots
    <3>1. q # p /\ pc'[q] = pc[q]
      BY <1>0, <2>1 DEF Idle
    <3> QED
      BY <1>0, <2>5, <3>1 DEF PushInv
  <2> QED
    BY <1>1, <1>2, <2>4, <2>8, <2>9 DEF WindowInv, EventInv
<1> QED
  BY <1>3, <1>4, <1>5

\* Calls that leave the windows, or their handles, as they are.
LEMMA QuietStepsKeep ==
  ASSUME CompAssumption, WindowInv, QueueInv', NEW p \in Proc,
         \/ Claim(p) \/ ClaimBuffer(p) \/ RouteStore(p)
         \/ \E h \in Handles, d \in Data : RouteFind(p, h, d)
         \/ \E n \in {1, MaxWin * QSize}, S \in {WinSlots} \cup {{i} : i \in WinSlots} : WinputPoll(p, S, n)
  PROVE  WindowInv'
<1>0. QueueInv /\ HandleInv /\ EventInv /\ EventRingTypes /\ PushInv /\ TellInv /\ DOMAIN pc = Proc \cup {Boot}
  BY DEF WindowInv, EventInv, QueueInv, RouteTypes
<1>1. ASSUME UNCHANGED <<windowVars, dead>>, older' \subseteq older \cup Handles
      PROVE  HandleInv' /\ Handles' = Handles
  BY <1>0, <1>1, HandlesKeep DEF IsSame, windowVars
<1>2. CASE Claim(p)
  <2>1. /\ UNCHANGED <<windowVars, dead, ring, lost>> /\ pc' = pc
        /\ g_compositor_pid = Nobody /\ g_compositor_pid' = p /\ known' = {} /\ older' = Handles
    BY <1>2 DEF Claim
  <2>2. HandleInv' /\ Handles' = Handles
    BY <1>1, <2>1
  <2>3. Queued' = Queued /\ Full' = Full
    BY <2>1 DEF Queued, Full, EvNext, ring
  <2>4. EventRingTypes' /\ PushInv'
    BY <1>0, <2>1, <2>3 DEF EventRingTypes, PushInv, ring, EvSlots, EventsOf
  <2>5. ~lost => Seen({}, Queued) = {}
    <3>1. Queued \in Seq(EventsOf)
      BY <1>0, QueuedIs, RingIs DEF IsQueued, EventRingTypes
    <3> QED
      BY <1>0, <2>1, <3>1, SeenOther DEF TellInv
  <2>6. TellInv'
    <3>1. ~lost => Seen(known', Queued') = Handles' \ older'
      BY <2>1, <2>2, <2>3, <2>5
    <3>2. g_compositor_pid' # Nobody /\ lost' = lost
      BY <2>1 DEF CompAssumption
    <3> QED
      BY <3>1, <3>2 DEF TellInv
  <2> QED
    BY <2>2, <2>4, <2>6 DEF WindowInv, EventInv
<1>3. CASE ClaimBuffer(p)
  <2>1. /\ UNCHANGED <<windowVars, dead, g_compositor_pid, told>> /\ pc' = pc
        /\ g_compositor_pid # Nobody /\ PushAll(<<Other>>)
    BY <1>3 DEF ClaimBuffer
  <2>2. HandleInv' /\ Handles' = Handles
    BY <1>1, <2>1 DEF told
  <2>3. PICK evs : evs = <<Other>>
    OBVIOUS
  <2>4. Other \in EventsOf
    BY DEF Other, NoHandle, Handle, EventsOf
  <2>5. evs \in Seq(EventsOf) /\ OtherOnly(evs)
    BY <2>3, <2>4 DEF OtherOnly, Other
  <2>6. Seen(Handles \ older, evs) = Handles' \ older
    BY <2>2, <2>5, SeenOther
  <2>7. Tell(evs) /\ PushersStay
    BY <2>1, <2>3 DEF Tell, PushersStay
  <2>8. EventInv'
    BY <1>0, <2>1, <2>5, <2>6, <2>7, TellKeeps
  <2> QED
    BY <2>2, <2>8 DEF WindowInv
<1>4. ASSUME UNCHANGED <<g_window_generation, dead, ring, lost, g_compositor_pid, told>>, PushersStay,
             \A i \in WinSlots : /\ g_windows'[i].active = g_windows[i].active
                                 /\ g_windows'[i].handle = g_windows[i].handle
      PROVE  WindowInv'
  <2>1. HandleInv' /\ Handles' = Handles
    BY <1>0, <1>4, HandlesKeep DEF IsSame, told
  <2>2. EventInv'
    BY <1>0, <1>4, <2>1, EventsKeep
  <2> QED
    BY <2>1, <2>2 DEF WindowInv
<1>5. ASSUME NEW h, NEW d, RouteFind(p, h, d)
      PROVE  WindowInv'
  <2>1. UNCHANGED <<g_window_generation, dead, ring, lost, g_compositor_pid, told>> /\ g_windows' = g_windows
    BY <1>5 DEF RouteFind, windowVars
  <2>2. PICK i : pc' = [pc EXCEPT ![p] = [at |-> "route", slot |-> i, data |-> d]]
    BY <1>5 DEF RouteFind
  <2>3. PushersStay
    BY <1>0, <2>2 DEF PushersStay
  <2> QED
    BY <1>4, <2>1, <2>3
<1>6. CASE RouteStore(p)
  <2>1. UNCHANGED <<g_window_generation, dead, ring, lost, g_compositor_pid, told>> /\ pc' = [pc EXCEPT ![p] = Idle]
    BY <1>6 DEF RouteStore
  <2>2. PushersStay
    BY <1>0, <2>1 DEF PushersStay, Idle
  <2>3. PICK i, w, d : i = pc[p].slot /\ w = g_windows[i] /\ d = pc[p].data
    OBVIOUS
  <2>4. i \in WinSlots /\ w \in Windows
    BY <1>0, <1>6, <2>3 DEF QueueInv, RouteTypes, RouteStore
  <2>5. \/ g_windows' = g_windows
        \/ g_windows' = [g_windows EXCEPT ![i].buf[w.write] = d, ![i].write = QNext(w.write)]
    BY <1>6, <2>3 DEF RouteStore
  <2>6. ASSUME g_windows' = [g_windows EXCEPT ![i].buf[w.write] = d, ![i].write = QNext(w.write)],
               NEW j \in WinSlots
        PROVE  g_windows'[j].active = g_windows[j].active /\ g_windows'[j].handle = g_windows[j].handle
    <3>1. CASE j = i
      <4>1. g_windows'[i] = [[w EXCEPT !.buf[w.write] = d] EXCEPT !.write = QNext(w.write)]
        BY <1>0, <2>3, <2>4, <2>6 DEF QueueInv
      <4> QED
        BY <2>3, <2>4, <3>1, <4>1 DEF Windows
    <3>2. CASE j # i
      BY <1>0, <2>4, <2>6, <3>2 DEF QueueInv
    <3> QED
      BY <3>1, <3>2
  <2>7. \A j \in WinSlots : /\ g_windows'[j].active = g_windows[j].active
                            /\ g_windows'[j].handle = g_windows[j].handle
    BY <2>5, <2>6
  <2> QED
    BY <1>4, <2>1, <2>2, <2>7
<1>7. ASSUME NEW n, NEW S, WinputPoll(p, S, n)
      PROVE  WindowInv'
  <2>1. UNCHANGED <<g_window_generation, dead, ring, lost, g_compositor_pid, told>> /\ pc' = pc
    BY <1>7 DEF WinputPoll
  <2>2. PushersStay
    BY <2>1 DEF PushersStay
  <2>3. PICK r : g_windows' = [i \in WinSlots |-> [g_windows[i] EXCEPT !.read = r[i]]]
    <3> DEFINE mine == {i \in Active : g_windows[i].pid = p} \cap S
               room == LeftBefore(mine, n)
               take(i) == IF i \in mine THEN room[i] - room[i + 1] ELSE 0
               R == [i \in WinSlots |-> (g_windows[i].read + take(i)) % QSize]
    <3>1. g_windows' = [i \in WinSlots |-> [g_windows[i] EXCEPT !.read = (@ + take(i)) % QSize]]
      BY <1>7, Zenon DEF WinputPoll
    <3> HIDE DEF take
    <3>2. g_windows' = [i \in WinSlots |-> [g_windows[i] EXCEPT !.read = R[i]]]
      BY <3>1
    <3> HIDE DEF R
    <3> QED
      BY <3>2
  <2>4. \A j \in WinSlots : /\ g_windows'[j].active = g_windows[j].active
                            /\ g_windows'[j].handle = g_windows[j].handle
    BY <1>0, <2>3 DEF QueueInv, Windows
  <2> QED
    BY <1>4, <2>1, <2>2, <2>4
<1> QED
  BY <1>2, <1>3, <1>5, <1>6, <1>7

\* A poll of the events takes the first ones.
LEMMA PollEventsKeeps ==
  ASSUME CompAssumption, WindowInv, NEW p \in Proc, NEW n \in {1, EvSize}, PollEvents(p, n)
  PROVE  WindowInv'
<1>0. QueueInv /\ HandleInv /\ EventInv /\ EventRingTypes /\ PushInv /\ TellInv
  BY DEF WindowInv, EventInv
<1> PICK q, k : q = Queued /\ k = Min({n, Len(q)})
  OBVIOUS
<1>1. /\ p = g_compositor_pid /\ k > 0 /\ g_event_read' = (g_event_read + k) % EvSize
      /\ known' = Seen(known, SubSeq(q, 1, k)) /\ pc' = pc /\ older' = older
      /\ UNCHANGED <<g_compositor_pid, windowVars, g_event_buf, g_event_write, lost, dead>>
  BY DEF PollEvents
<1> PICK r, w, b, x : r = g_event_read /\ w = g_event_write /\ b = g_event_buf /\ x = g_event_read'
  OBVIOUS
<1>2. r \in EvSlots /\ w \in EvSlots /\ b \in [EvSlots -> EventsOf] /\ q = RingFrom(b, r, w)
  BY <1>0, QueuedIs DEF EventRingTypes
<1>3. q \in Seq(EventsOf) /\ Len(q) = InRing(r, w) /\ InRing(r, w) \in 0 .. EvSize - 1
  BY <1>2, RingIs DEF IsQueued
<1>4. k \in 0 .. InRing(r, w)
  <2>1. n \in Nat /\ Len(q) \in Nat
    BY <1>3 DEF CompAssumption
  <2> QED
    BY <1>1, <1>3, <2>1, MinOfTwo
<1>5. /\ x \in EvSlots /\ InRing(x, w) = InRing(r, w) - k
      /\ q = SubSeq(q, 1, k) \o RingFrom(b, x, w)
      /\ SubSeq(q, 1, k) \in Seq(EventsOf) /\ RingFrom(b, x, w) \in Seq(EventsOf)
  <2>1. x = (r + k) % EvSize
    BY <1>1
  <2>2. Polls(b, r, w, k, x)
    BY <1>2, <1>4, <2>1, PolledFirst
  <2> QED
    BY <1>2, <2>2 DEF Polls
<1>6. Queued' = RingFrom(b, x, w)
  BY <1>1 DEF Queued, RingFrom
<1>7. QueueInv'
  <2>1. PollEvents(p, n)
    OBVIOUS
  <2> QED
    BY <1>0, <2>1, WindowsAloneKeep
<1>8. HandleInv' /\ Handles' = Handles
  BY <1>0, <1>1, HandlesKeep DEF IsSame, windowVars
<1>9. EventRingTypes'
  BY <1>0, <1>1, <1>5 DEF EventRingTypes, EvSlots, EventsOf
<1>10. ~Full'
  <2>1. InRing(x, w) # EvSize - 1
    BY <1>1, <1>3, <1>4, <1>5 DEF CompAssumption
  <2>2. Full' <=> InRing(x, w) = EvSize - 1
    <3>1. Full' <=> EvNext(w) = x
      BY <1>1 DEF Full, EvNext
    <3> QED
      BY <1>2, <1>5, <3>1, FullIf
  <2> QED
    BY <2>1, <2>2
<1>11. PushInv'
  BY <1>0, <1>1, <1>10 DEF PushInv, EvSlots
<1>12. TellInv'
  <2>1. p # Nobody /\ g_compositor_pid' = p
    BY <1>1 DEF CompAssumption
  <2>2. ASSUME ~lost
        PROVE  Seen(known', Queued') = Handles' \ older'
    <3>1. Seen(known, q) = Handles \ older
      BY <1>0, <1>1, <2>1, <2>2 DEF TellInv
    <3>2. PICK s, z : s = SubSeq(q, 1, k) /\ z = RingFrom(b, x, w)
      OBVIOUS
    <3>3. s \in Seq(EventsOf) /\ z \in Seq(EventsOf)
      BY <1>5, <3>2
    <3>4. Seen(known, s \o z) = Seen(Seen(known, s), z)
      BY <3>3, SeenBoth
    <3> QED
      BY <1>1, <1>5, <1>6, <1>8, <3>1, <3>2, <3>4
  <2> QED
    BY <1>1, <2>1, <2>2 DEF TellInv
<1> QED
  BY <1>7, <1>8, <1>9, <1>11, <1>12 DEF WindowInv, EventInv

\* The windows are finitely many.
LEMMA HandlesFinite ==
  ASSUME CompAssumption
  PROVE  IsFiniteSet(Active) /\ IsFiniteSet(Handles)
<1>1. IsFiniteSet(WinSlots)
  BY FS_Interval DEF WinSlots, CompAssumption
<1>2. IsFiniteSet(Active)
  BY <1>1, FS_Subset DEF Active
<1>3. PICK f : f = [i \in Active |-> g_windows[i].handle]
  OBVIOUS
<1>4. f \in Surjection(Active, Handles)
  BY <1>3 DEF Surjection, Handles
<1> QED
  BY <1>2, <1>4, FS_Surjection

\* A new window has a handle that no window had before.
LEMMA CreateStepKeeps ==
  ASSUME CompAssumption, MaxMade + 1 < GenSpace, WindowInv, NEW p \in Proc, Create(p)
  PROVE  WindowInv'
<1>0. QueueInv /\ HandleInv /\ EventInv /\ QueueInv'
  BY CreateKeeps DEF WindowInv
<1> PICK i, g, h, all : /\ i = Min(WinSlots \ Active) /\ g = g_window_generation
                        /\ h = <<g + 1, i>> /\ all = dead \cup Handles
  OBVIOUS
<1>1. i \in WinSlots \ Active
  <2>1. WinSlots \ Active \subseteq Nat /\ WinSlots \ Active # {}
    BY DEF Create, Active, WinSlots, CompAssumption
  <2> QED
    BY <2>1, SmallestOfNats
<1>2. IsFiniteSet(all) /\ Cardinality(all) \in Nat /\ Cardinality(all) < MaxMade
  <2>1. IsFiniteSet(all)
    BY <1>0, HandlesFinite, FS_Union DEF HandleInv
  <2> QED
    BY <2>1, FS_CardinalityType DEF Create
<1>3. g \in Nat \ {0} /\ NextGeneration(g) = g + 1 /\ g <= Cardinality(all) + 1
  BY <1>0, <1>2 DEF HandleInv, NextGeneration, CompAssumption
<1> PICK w : w = Made(p, i)
  OBVIOUS
<1>4. w.active = TRUE /\ w.handle = h
  BY <1>3 DEF Made, NoWindow, Handle
<1>5. /\ g_windows' = [g_windows EXCEPT ![i] = w] /\ g_window_generation' = g + 1
      /\ UNCHANGED <<g_compositor_pid, pc, told, dead>>
  BY <1>3 DEF Create
<1>6. g_windows'[i] = w /\ \A j \in WinSlots \ {i} : g_windows'[j] = g_windows[j]
  BY <1>0, <1>1, <1>5 DEF QueueInv
<1>7. Active' = Active \cup {i}
  BY <1>1, <1>4, <1>6 DEF Active
<1>8. Handles' = Handles \cup {h}
  <2>1. \A j \in Active : j \in WinSlots \ {i}
    BY <1>1 DEF Active
  <2>2. Handles' = {g_windows'[j].handle : j \in Active \cup {i}}
    BY <1>7 DEF Handles
  <2>3. g_windows'[i].handle = h /\ \A j \in Active : g_windows'[j].handle = g_windows[j].handle
    BY <1>4, <1>6, <2>1
  <2>4. \A x : x \in Handles' <=> x \in Handles \/ x = h
    BY <2>2, <2>3 DEF Handles
  <2> QED
    BY <2>4
<1>9. h[1] = g + 1 /\ h[2] = i /\ h \notin all \cup older
  BY <1>0, <1>3 DEF HandleInv
<1>10. HandleInv'
  <2>1. dead' \cup Handles' = all \cup {h} /\ Cardinality(all \cup {h}) = Cardinality(all) + 1
    BY <1>2, <1>5, <1>8, <1>9, FS_AddElement
  <2>2. g_window_generation' \in Nat \ {0} /\ IsFiniteSet(dead')
        /\ g_window_generation' <= Cardinality(dead' \cup Handles') + 1
    <3>1. IsFiniteSet(dead') /\ g_window_generation' = g + 1
      BY <1>0, <1>5 DEF HandleInv
    <3>2. Cardinality(dead' \cup Handles') = Cardinality(all) + 1
      BY <2>1
    <3>3. g + 1 \in Nat \ {0} /\ g + 1 <= (Cardinality(all) + 1) + 1
      BY <1>2, <1>3
    <3> QED
      BY <3>1, <3>2, <3>3
  <2>3. \A x \in dead' \cup Handles' \cup older' : x[1] \in Int /\ x[1] <= g_window_generation'
    <3> SUFFICES ASSUME NEW x \in dead' \cup Handles' \cup older'
                 PROVE  x[1] \in Int /\ x[1] <= g + 1
      BY <1>5
    <3>1. x = h \/ x \in dead \cup Handles \cup older
      BY <1>5, <1>8 DEF told
    <3> QED
      BY <1>0, <1>3, <1>9, <3>1 DEF HandleInv
  <2>4. \A j \in Active' : g_windows'[j].handle[2] = j
    <3> SUFFICES ASSUME NEW j \in Active' PROVE g_windows'[j].handle[2] = j
      OBVIOUS
    <3>1. CASE j = i
      BY <1>4, <1>6, <1>9, <3>1
    <3>2. CASE j # i
      <4>1. j \in Active /\ j \in WinSlots \ {i}
        BY <1>7, <3>2 DEF Active
      <4> QED
        BY <1>0, <1>6, <4>1 DEF HandleInv
    <3> QED
      BY <3>1, <3>2
  <2>5. dead' \cap Handles' = {}
    BY <1>0, <1>5, <1>8, <1>9 DEF HandleInv
  <2> QED
    BY <2>2, <2>3, <2>4, <2>5 DEF HandleInv
<1>11. EventInv'
  <2> PICK evs : evs = <<[type |-> "created", win |-> h]>>
    OBVIOUS
  <2>1. Tell(evs)
    BY <1>4, <1>6 DEF Create
  <2>2. evs \in Seq(EventsOf)
    <3>1. h \in Int \X Int
      BY <1>1, <1>3 DEF WinSlots
    <3>2. [type |-> "created", win |-> h] \in EventsOf
      BY <3>1 DEF EventsOf
    <3> QED
      BY <3>2
  <2>3. Seen(Handles \ older, evs) = Handles' \ older
    <3>1. Seen(Handles \ older, evs) = (Handles \ older) \cup {h}
      BY SeenCreated
    <3> QED
      BY <1>8, <1>9, <3>1
  <2>4. PushersStay
    BY <1>5 DEF PushersStay
  <2> QED
    BY <1>0, <1>5, <2>1, <2>2, <2>3, <2>4, TellKeeps
<1> QED
  BY <1>0, <1>10, <1>11 DEF WindowInv

\* Windows that go leave the other handles alone.
IsGone(mine) == HandleInv' /\ Handles' = Handles \ {g_windows[i].handle : i \in mine}
LEMMA GoneKeeps ==
  ASSUME CompAssumption, HandleInv, g_window_generation' = g_window_generation, older' \subseteq older,
         NEW mine, mine \subseteq Active, dead' = dead \cup {g_windows[i].handle : i \in mine},
         \A i \in WinSlots : /\ g_windows'[i].active = IF i \in mine THEN FALSE ELSE g_windows[i].active
                             /\ g_windows'[i].handle = g_windows[i].handle
  PROVE  IsGone(mine)
<1> PICK gone : gone = {g_windows[i].handle : i \in mine}
  OBVIOUS
<1>1. Active' = Active \ mine
  BY DEF Active
<1>2. \A i, j \in Active : g_windows[i].handle = g_windows[j].handle => i = j
  <2> SUFFICES ASSUME NEW i \in Active, NEW j \in Active, g_windows[i].handle = g_windows[j].handle PROVE i = j
    OBVIOUS
  <2>1. g_windows[i].handle[2] = i /\ g_windows[j].handle[2] = j
    BY DEF HandleInv
  <2> QED
    BY <2>1
<1>3. Handles' = Handles \ gone
  <2>1. Handles' = {g_windows'[i].handle : i \in Active \ mine}
    BY <1>1 DEF Handles
  <2>2. \A i \in Active : g_windows'[i].handle = g_windows[i].handle
    BY DEF Active
  <2>3. Handles' = {g_windows[i].handle : i \in Active \ mine}
    BY <2>1, <2>2
  <2>4. \A i \in Active \ mine : g_windows[i].handle \notin gone
    BY <1>2
  <2>5. \A x : x \in Handles' <=> \E i \in Active \ mine : x = g_windows[i].handle
    BY <2>3
  <2>6. \A x : x \in Handles <=> \E i \in Active : x = g_windows[i].handle
    BY DEF Handles
  <2>7. \A x : x \in gone <=> \E i \in mine : x = g_windows[i].handle
    OBVIOUS
  <2>8. \A x : x \in Handles' <=> x \in Handles /\ x \notin gone
    BY ONLY <2>4, <2>5, <2>6, <2>7
  <2> QED
    BY <2>8
<1>4. gone \subseteq Handles /\ dead' = dead \cup gone
  BY DEF Handles
<1>5. dead' \cup Handles' = dead \cup Handles
  BY <1>3, <1>4
<1>6. IsFiniteSet(dead')
  <2>1. IsFiniteSet(gone)
    BY <1>4, HandlesFinite, FS_Subset
  <2>2. IsFiniteSet(dead)
    BY DEF HandleInv
  <2>3. IsFiniteSet(dead \cup gone)
    BY <2>1, <2>2, FS_Union
  <2> QED
    BY <1>4, <2>3
<1>7. \A i \in Active' : g_windows'[i].handle[2] = i
  <2>1. \A i \in Active' : i \in Active /\ g_windows'[i].handle = g_windows[i].handle
    BY <1>1 DEF Active
  <2> QED
    BY <2>1 DEF HandleInv
<1>8. dead' \cap Handles' = {}
  BY <1>3, <1>4 DEF HandleInv
<1>9. \A x \in dead' \cup Handles' \cup older' : x \in dead \cup Handles \cup older
  BY <1>5
<1>10. HandleInv'
  BY <1>5, <1>6, <1>7, <1>8, <1>9 DEF HandleInv
<1> QED
  BY <1>3, <1>10 DEF IsGone

\* A window is destroyed.
LEMMA DestroyStepKeeps ==
  ASSUME CompAssumption, WindowInv, NEW p \in Proc, NEW h \in Handles, Destroy(p, h)
  PROVE  WindowInv'
<1>0. QueueInv /\ HandleInv /\ EventInv /\ QueueInv'
  BY DestroyKeeps DEF WindowInv
<1>1. PICK i \in Found(h) : g_windows' = [g_windows EXCEPT ![i].active = FALSE]
  BY DEF Destroy
<1>2. i \in Active /\ i \in WinSlots /\ g_windows[i].handle = h /\ g_windows[i] \in Windows
  BY <1>0, <1>1 DEF Found, Active, QueueInv
<1>3. dead' = dead \cup {h} /\ UNCHANGED <<g_compositor_pid, g_window_generation, pc, told>>
  BY DEF Destroy
<1>4. IsGone({i})
  <2>1. PICK mine : mine = {i}
    OBVIOUS
  <2>2. \A j \in WinSlots : /\ g_windows'[j].active = IF j \in mine THEN FALSE ELSE g_windows[j].active
                            /\ g_windows'[j].handle = g_windows[j].handle
    BY <1>0, <1>1, <1>2, <2>1 DEF QueueInv, Windows
  <2>3. mine \subseteq Active /\ {g_windows[j].handle : j \in mine} = {h}
    BY <1>2, <2>1
  <2> QED
    BY <1>0, <1>3, <2>1, <2>2, <2>3, GoneKeeps DEF told
<1>5. HandleInv' /\ Handles' = Handles \ {h}
  <2>1. {g_windows[j].handle : j \in {i}} = {h}
    BY <1>2
  <2> QED
    BY <1>4, <2>1 DEF IsGone
<1>6. EventInv'
  <2> PICK evs : evs = <<[type |-> "destroyed", win |-> h]>>
    OBVIOUS
  <2>1. Tell(evs) /\ PushersStay
    BY <1>3 DEF Destroy, PushersStay
  <2>2. evs \in Seq(EventsOf)
    <3>1. h \in Int \X Int
      BY <1>2 DEF Windows
    <3>2. [type |-> "destroyed", win |-> h] \in EventsOf
      BY <3>1 DEF EventsOf
    <3> QED
      BY <3>2
  <2>3. Seen(Handles \ older, evs) = (Handles \ older) \ {h}
    <3>1. Len(evs) = 1 /\ evs[1].type = "destroyed" /\ evs[1].win = h /\ \A j \in 1 .. Len(evs) : j = 1
      OBVIOUS
    <3>2. \A j \in 1 .. Len(evs) : evs[j].type = "destroyed"
      BY <3>1
    <3>3. AllGone(evs, {h})
      BY <2>2, <3>1, <3>2 DEF AllGone
    <3> QED
      BY <3>3, SeenDestroyed
  <2>4. Seen(Handles \ older, evs) = Handles' \ older
    BY <1>5, <2>3
  <2> QED
    BY <1>0, <1>3, <2>1, <2>2, <2>4, TellKeeps
<1> QED
  BY <1>0, <1>5, <1>6 DEF WindowInv

\* All windows of a process go with it; with the compositor the events do.
LEMMA ExitStepKeeps ==
  ASSUME CompAssumption, WindowInv, NEW p \in Proc, Exit(p)
  PROVE  WindowInv'
<1>0. QueueInv /\ HandleInv /\ EventInv /\ QueueInv' /\ EventRingTypes /\ PushInv /\ TellInv
      /\ DOMAIN pc = Proc \cup {Boot}
  BY ExitKeeps DEF WindowInv, EventInv, QueueInv, RouteTypes
<1> PICK mine, n : mine = {i \in Active : g_windows[i].pid = p} /\ n = Cardinality(mine)
  OBVIOUS
<1> PICK evs : evs = [k \in 1 .. n |-> [type |-> "destroyed", win |-> g_windows[NthOf(mine, k)].handle]]
  OBVIOUS
<1> PICK gone : gone = {g_windows[i].handle : i \in mine}
  OBVIOUS
<1>1. /\ g_windows' = [i \in WinSlots |->
           IF i \in mine THEN [g_windows[i] EXCEPT !.active = FALSE] ELSE g_windows[i]]
      /\ dead' = dead \cup gone
      /\ IF p = g_compositor_pid
         THEN /\ g_compositor_pid' = Nobody /\ g_event_read' = g_event_write
              /\ known' = {} /\ older' = {}
              /\ UNCHANGED <<g_event_buf, g_event_write, lost>>
         ELSE Tell(evs) /\ UNCHANGED <<g_compositor_pid, told>>
  BY DEF Exit, ChildCleanup, Drained
<1>2. pc' = [pc EXCEPT ![p] = Idle] /\ g_window_generation' = g_window_generation
  BY DEF Exit
<1>3. mine \subseteq Active /\ Active \subseteq WinSlots /\ mine \subseteq Nat /\ IsFiniteSet(mine) /\ n \in Nat
  <2>1. mine \subseteq Active /\ Active \subseteq WinSlots
    BY DEF Active
  <2>2. IsFiniteSet(mine)
    BY <2>1, HandlesFinite, FS_Subset
  <2>3. WinSlots \subseteq Nat
    BY DEF WinSlots, CompAssumption
  <2>4. Cardinality(mine) \in Nat
    BY <2>2, FS_CardinalityType
  <2> QED
    BY <2>1, <2>2, <2>3, <2>4
<1>4. HandleInv' /\ Handles' = Handles \ gone
  <2>1. \A j \in WinSlots : /\ g_windows'[j].active = IF j \in mine THEN FALSE ELSE g_windows[j].active
                            /\ g_windows'[j].handle = g_windows[j].handle
    BY <1>0, <1>1 DEF QueueInv, Windows
  <2>2. older' \subseteq older
    BY <1>1 DEF told
  <2>3. IsGone(mine)
    BY <1>0, <1>1, <1>2, <1>3, <2>1, <2>2, GoneKeeps
  <2> QED
    BY <2>3 DEF IsGone
<1>5. PushersStay
  BY <1>0, <1>2 DEF PushersStay, Idle
<1>6. CASE p = g_compositor_pid
  <2>1. /\ g_compositor_pid' = Nobody /\ g_event_read' = g_event_write
        /\ UNCHANGED <<g_event_buf, g_event_write, lost>>
    BY <1>1, <1>6
  <2>2. EventRingTypes'
    BY <1>0, <2>1 DEF EventRingTypes, EvSlots, EventsOf
  <2>3. PICK w : w = g_event_write
    OBVIOUS
  <2>4. w \in EvSlots /\ InRing(w, w) = 0 /\ EvSize - 1 # 0
    BY <1>0, <2>3 DEF EventRingTypes, InRing, EvSlots, CompAssumption
  <2>5. ~Full'
    <3>1. Full' <=> EvNext(w) = w
      BY <2>1, <2>3 DEF Full, EvNext
    <3> QED
      BY <2>4, <3>1, FullIf
  <2>6. OtherOnly(Queued')
    <3>1. Queued' = RingFrom(g_event_buf, w, w)
      BY <2>1, <2>3 DEF Queued, RingFrom
    <3>2. Len(Queued') = 0
      BY <1>0, <2>4, <3>1, RingIs DEF IsQueued, EventRingTypes
    <3> QED
      BY <3>2 DEF OtherOnly
  <2>7. TellInv'
    BY <2>1, <2>6 DEF TellInv, OtherOnly
  <2>8. PushInv'
    BY <1>0, <1>5, <2>1, <2>5 DEF PushInv, PushersStay, EvSlots
  <2> QED
    BY <1>0, <1>4, <2>2, <2>7, <2>8 DEF WindowInv, EventInv
<1>7. CASE p # g_compositor_pid
  <2>1. Tell(evs) /\ UNCHANGED <<g_compositor_pid, told>>
    BY <1>1, <1>7
  <2>2. IsNth(mine)
    BY <1>3, NthCounts
  <2>3. \A k \in 1 .. n : NthOf(mine, k) \in mine
    BY <2>2 DEF IsNth
  <2>4. \A k \in 1 .. n : evs[k].type = "destroyed" /\ evs[k].win = g_windows[NthOf(mine, k)].handle
                          /\ evs[k] \in EventsOf
    <3> SUFFICES ASSUME NEW k \in 1 .. n
                 PROVE  evs[k].type = "destroyed" /\ evs[k].win = g_windows[NthOf(mine, k)].handle
                        /\ evs[k] \in EventsOf
      OBVIOUS
    <3>1. PICK x : x = g_windows[NthOf(mine, k)].handle
      OBVIOUS
    <3>2. evs[k] = [type |-> "destroyed", win |-> x]
      BY <3>1
    <3>3. x \in Int \X Int
      BY <1>0, <1>3, <2>3, <3>1 DEF QueueInv, Windows
    <3> QED
      BY <3>1, <3>2, <3>3 DEF EventsOf
  <2>5. evs \in Seq(EventsOf) /\ Len(evs) = n
    BY <1>3, <2>4
  <2>6. ASSUME NEW i \in mine
        PROVE  \E k \in 1 .. n : evs[k].win = g_windows[i].handle
    <3>1. PICK k \in 1 .. n : NthOf(mine, k) = i
      BY <2>2 DEF IsNth
    <3> QED
      BY <2>4, <3>1
  <2>7. AllGone(evs, gone)
    <3>1. \A h : h \in gone <=> \E i \in mine : h = g_windows[i].handle
      OBVIOUS
    <3>2. \A k \in 1 .. n : evs[k].win \in gone
      BY <2>3, <2>4, <3>1
    <3>3. \A h : h \in gone => \E k \in 1 .. n : evs[k].win = h
      <4> SUFFICES ASSUME NEW h \in gone PROVE \E k \in 1 .. n : evs[k].win = h
        OBVIOUS
      <4>1. PICK i \in mine : h = g_windows[i].handle
        BY <3>1
      <4>2. PICK k \in 1 .. n : evs[k].win = g_windows[i].handle
        BY <2>6
      <4> QED
        BY <4>1, <4>2
    <3>4. \A h : h \in gone <=> \E k \in 1 .. Len(evs) : evs[k].win = h
      <4> SUFFICES ASSUME NEW h PROVE h \in gone <=> \E k \in 1 .. n : evs[k].win = h
        BY <2>5
      <4>1. ASSUME NEW k \in 1 .. n, evs[k].win = h PROVE h \in gone
        BY <3>2, <4>1
      <4> QED
        BY <3>3, <4>1
    <3>5. \A k \in 1 .. Len(evs) : evs[k].type = "destroyed"
      BY <2>4, <2>5
    <3> QED
      BY <2>5, <3>4, <3>5 DEF AllGone
  <2>8. Seen(Handles \ older, evs) = Handles' \ older
    <3>1. PICK K : K = Handles \ older
      OBVIOUS
    <3>2. Seen(K, evs) = K \ gone
      BY <2>7, SeenDestroyed
    <3> QED
      BY <1>4, <3>1, <3>2
  <2>9. EventInv'
    BY <1>0, <1>5, <2>1, <2>5, <2>8, TellKeeps
  <2> QED
    BY <1>0, <1>4, <2>9 DEF WindowInv
<1> QED
  BY <1>6, <1>7

\* The compositor learns of every window that comes and goes, and a handle of a
\* window that is gone leads nowhere, for every number of slots, of processes
\* and of events the ring holds, while fewer windows are made than there are
\* generations (window.create, window.destroy, compositor_child_cleanup).
THEOREM WindowsAreKnown ==
  ASSUME MaxMade + 1 < GenSpace
  PROVE  CompSpec => []WindowsKnown
<1> USE CompAssumption
<1>1. CompInit => WindowInv
  <2> SUFFICES ASSUME CompInit PROVE WindowInv
    OBVIOUS
  <2>1. QueueInv
    BY CompInitInv
  <2>2. Active = {} /\ Handles = {}
    BY DEF CompInit, Active, Handles, NoWindow
  <2>3. HandleInv
    <3>1. IsFiniteSet({}) /\ Cardinality({}) = 0
      BY FS_EmptySet
    <3>2. dead = {} /\ older = {} /\ g_window_generation = 1
      BY DEF CompInit
    <3>3. dead \cup Handles = {}
      BY <2>2, <3>2
    <3> QED
      BY <2>2, <3>1, <3>2, <3>3 DEF HandleInv
  <2>4. Other \in EventsOf /\ 0 \in EvSlots
    BY DEF Other, NoHandle, Handle, EventsOf, EvSlots, CompAssumption
  <2>5. EventRingTypes
    BY <2>4 DEF CompInit, EventRingTypes
  <2>6. PushInv
    BY DEF CompInit, PushInv, Idle
  <2>7. TellInv
    <3>1. InRing(0, 0) = 0 /\ g_event_read = 0 /\ g_event_write = 0
      BY DEF InRing, CompInit
    <3>2. Len(Queued) = 0
      BY <2>4, <2>5, <3>1, QueuedIs, RingIs DEF IsQueued, EventRingTypes
    <3> QED
      BY <3>2 DEF TellInv, OtherOnly, CompInit
  <2> QED
    BY <2>1, <2>3, <2>5, <2>6, <2>7 DEF WindowInv, EventInv
<1>2. WindowInv /\ [CompNext]_compVars => WindowInv'
  <2> SUFFICES ASSUME WindowInv, [CompNext]_compVars
               PROVE  WindowInv'
    OBVIOUS
  <2>1. QueueInv /\ QueueInv'
    BY CompQueueStep DEF WindowInv
  <2>2. CASE UNCHANGED compVars
    <3>1. HandleInv' /\ Handles' = Handles
      BY <2>2, HandlesKeep DEF WindowInv, IsSame, compVars, windowVars, told
    <3>2. EventInv'
      BY <2>2, <3>1, EventsKeep DEF WindowInv, compVars, PushersStay
    <3> QED
      BY <2>1, <3>1, <3>2 DEF WindowInv
  <2>3. CASE CompNext
    BY <2>1, <2>3, QuietStepsKeep, PollEventsKeeps, CreateStepKeeps, DestroyStepKeeps, ExitStepKeeps,
       PushStepsKeep DEF CompNext
  <2> QED
    BY <2>2, <2>3
<1>3. WindowInv => WindowsKnown
  <2> SUFFICES ASSUME WindowInv PROVE WindowsKnown
    OBVIOUS
  <2>0. HandleInv /\ TellInv
    BY DEF WindowInv, EventInv
  <2>1. WmKnowsWindows
    BY <2>0 DEF WmKnowsWindows, TellInv
  <2>2. \A h \in dead : Found(h) = {}
    BY <2>0 DEF HandleInv, Found, Handles
  <2>3. \A i, j \in Active : g_windows[i].handle = g_windows[j].handle => i = j
    <3> SUFFICES ASSUME NEW i \in Active, NEW j \in Active, g_windows[i].handle = g_windows[j].handle PROVE i = j
      OBVIOUS
    <3>1. g_windows[i].handle[2] = i /\ g_windows[j].handle[2] = j
      BY <2>0 DEF HandleInv
    <3> QED
      BY <3>1
  <2> QED
    BY <2>1, <2>2, <2>3 DEF WindowsKnown, StaleHandlesFail
<1> QED
  BY <1>1, <1>2, <1>3, PTL DEF CompSpec
==============================================================================

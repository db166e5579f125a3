------------------------------ MODULE WmScreen -------------------------------
(* What is on the screen while the window manager has it: the frame and the  *)
(* cursor that wm.c keeps in two buffers, what display.present and           *)
(* presentRect copy of it (kern_compositor.c), and the text that             *)
(* session_switch puts over it (kern_terminal.c).                            *)
(*                                                                           *)
(* A frame is even or odd, the other one after every composite; the cursor   *)
(* is a square.  present asks whether the session of the window manager is   *)
(* shown, and copies later: between the two another thread may switch.       *)
EXTENDS Integers, Sequences, FiniteSets, FiniteSetsExt

CONSTANTS
  Width, Height, Arm,  \* the screen, and how far the cursor reaches
  Steps,               \* mouse movements <<dx, dy>>
  EventRoom            \* events the queue of the compositor takes

ASSUME ScreenAssumption ==
  /\ Width \in Nat \ {0} /\ Height \in Nat \ {0} /\ Arm \in Nat
  /\ Steps \subseteq Int \X Int /\ EventRoom \in Nat \ {0}

VARIABLES
  events,        \* the queue of the compositor: movements, or Dirty for what asks for a new frame
  dropped,       \* history: an event found the queue full
  cursor, prev_cursor,
  clean,         \* clean_fb_offset: the frame
  fb,            \* fb_offset: what each pixel shows
  screen,        \* the same of the hardware
  redraw, mouse_moved,
  wmat,          \* where the window manager is
  damage,        \* the pixels that the present under way copies
  shownsession,  \* is the session of the compositor the active one
  switching      \* where session_switch is
screenVars == <<events, dropped, cursor, prev_cursor, clean, fb, screen, redraw, mouse_moved, wmat,
                damage, shownsession, switching>>

Pixels == (0 .. Width - 1) \X (0 .. Height - 1)
CursorAt(c) == {p \in Pixels : \A d \in {1, 2} : p[d] - c[d] \in -Arm .. Arm}
Overlay(f, c) == [p \in Pixels |-> IF p \in CursorAt(c) THEN "cursor" ELSE f]
Centre == <<Width \div 2, Height \div 2>>

Dirty == <<>>
Another(f) == IF f = "even" THEN "odd" ELSE "even"

ScreenInit ==
  /\ events = <<>> /\ dropped = FALSE
  /\ cursor = Centre /\ prev_cursor = Centre
  /\ clean = "even" /\ fb = Overlay(clean, Centre) /\ screen = fb
  /\ redraw = FALSE /\ mouse_moved = FALSE
  /\ wmat = "poll" /\ damage = {}
  /\ shownsession = TRUE /\ switching = "no"

(* compositor_push_event.                                                    *)
PushEvent(e) ==
  /\ events' = IF Len(events) < EventRoom THEN Append(events, e) ELSE events
  /\ dropped' = (dropped \/ Len(events) = EventRoom)

(* A movement, or a key or a button that has the windows drawn again.        *)
UserEvent ==
  /\ shownsession /\ \E e \in Steps \cup {Dirty} : PushEvent(e)
  /\ UNCHANGED <<cursor, prev_cursor, clean, fb, screen, redraw, mouse_moved, wmat, damage,
                 shownsession, switching>>

Clamped(x, n) == Max({0, Min({x, n - 1})})
HandleEvent ==
  /\ wmat = "poll" /\ events # <<>> /\ events' = Tail(events)
  /\ IF Head(events) = Dirty THEN redraw' = TRUE /\ UNCHANGED <<cursor, mouse_moved>>
     ELSE /\ cursor' = <<Clamped(cursor[1] + Head(events)[1], Width),
                         Clamped(cursor[2] + Head(events)[2], Height)>>
          /\ mouse_moved' = TRUE /\ UNCHANGED redraw
  /\ UNCHANGED <<dropped, prev_cursor, clean, fb, screen, wmat, damage, shownsession, switching>>

(* composite_frame up to the present.                                        *)
CompositeFrame ==
  /\ wmat = "poll" /\ redraw
  /\ clean' = Another(clean) /\ fb' = Overlay(clean', cursor)
  /\ damage' = Pixels /\ wmat' = "present"
  /\ UNCHANGED <<events, dropped, cursor, prev_cursor, screen, redraw, mouse_moved, shownsession, switching>>

(* The pixels from one corner to the other, around both cursors.  A faulty   *)
(* variant takes the far edge for the first pixel outside.                   *)
AroundShort(a, b) ==
  {p \in Pixels : \A d \in {1, 2} : Min({a[d], b[d]}) - Arm <= p[d] /\ p[d] < Max({a[d], b[d]}) + Arm}
Around(a, b) ==
  {p \in Pixels : \A d \in {1, 2} : Min({a[d], b[d]}) - Arm <= p[d] /\ p[d] < Max({a[d], b[d]}) + Arm + 1}

(* restore_cursor, draw_cursor, and the rectangle for presentRect.           *)
MoveCursor ==
  /\ wmat = "poll" /\ ~redraw /\ mouse_moved /\ cursor # prev_cursor
  /\ fb' = [p \in Pixels |-> IF p \in CursorAt(cursor) THEN "cursor"
                             ELSE IF p \in CursorAt(prev_cursor) THEN clean ELSE fb[p]]
  /\ damage' = Around(prev_cursor, cursor) /\ wmat' = "present"
  /\ UNCHANGED <<events, dropped, cursor, prev_cursor, clean, screen, redraw, mouse_moved, shownsession,
                 switching>>

PresentCheck ==
  /\ wmat = "present"
  /\ wmat' = IF shownsession THEN "copy" ELSE "done"
  /\ UNCHANGED <<events, dropped, cursor, prev_cursor, clean, fb, screen, redraw, mouse_moved, damage,
                 shownsession, switching>>

PresentCopy ==
  /\ wmat = "copy" /\ wmat' = "done"
  /\ screen' = [p \in Pixels |-> IF p \in damage THEN fb[p] ELSE screen[p]]
  /\ UNCHANGED <<events, dropped, cursor, prev_cursor, clean, fb, redraw, mouse_moved, damage, shownsession,
                 switching>>

Presented ==
  /\ wmat = "done" /\ wmat' = "poll"
  /\ prev_cursor' = cursor /\ redraw' = FALSE /\ mouse_moved' = FALSE /\ damage' = {}
  /\ UNCHANGED <<events, dropped, cursor, clean, fb, screen, shownsession, switching>>

(* session_switch: the active session changes; then, with interrupts on      *)
(* again, the text is drawn or the window manager is told.                   *)
SessionSwitch ==
  /\ switching = "no"
  /\ shownsession' = ~shownsession /\ switching' = "draw"
  /\ UNCHANGED <<events, dropped, cursor, prev_cursor, clean, fb, screen, redraw, mouse_moved, wmat, damage>>

SessionDraw ==
  /\ switching = "draw" /\ switching' = "no"
  /\ IF shownsession THEN PushEvent(Dirty) /\ UNCHANGED screen
     ELSE screen' = [p \in Pixels |-> "text"] /\ UNCHANGED <<events, dropped>>
  /\ UNCHANGED <<cursor, prev_cursor, clean, fb, redraw, mouse_moved, wmat, damage, shownsession>>

ScreenNext ==
  \/ UserEvent \/ HandleEvent \/ CompositeFrame \/ MoveCursor \/ PresentCheck \/ PresentCopy \/ Presented
  \/ SessionSwitch \/ SessionDraw
ScreenSpec == ScreenInit /\ [][ScreenNext]_screenVars

------------------------------------------------------------------------------
(* When the window manager has handled what it was sent and its session is   *)
(* shown, the screen is the last frame with one cursor, where the mouse is:  *)
(* no trail is left, no edge is missed, and nothing of a text session that   *)
(* was shown in between, whenever the switches came; unless an event was     *)
(* dropped (the main loop of wm.c, present, presentRect, session_switch).     *)
Settled == wmat = "poll" /\ events = <<>> /\ ~redraw /\ cursor = prev_cursor /\ switching = "no"
ScreenShowsFrame == Settled /\ shownsession /\ ~dropped => screen = Overlay(clean, cursor)
==============================================================================

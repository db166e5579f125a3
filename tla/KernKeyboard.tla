----------------------------- MODULE KernKeyboard ----------------------------
(***************************************************************************)
(* The decoding half of kern_keyboard.c: the PS/2 set-1 byte stream with   *)
(* its E0 prefixes, one interrupt per byte, the modifier state derived     *)
(* from it and the codes it queues.  The keyboard itself, with its keys    *)
(* held, repeated and released in any order, is the environment.  The ring *)
(* is a bounded sequence here; KernInput models its pointers.              *)
(***************************************************************************)
EXTENDS Integers, Sequences

CONSTANTS Keys,   \* the keys of this keyboard, a subset of DOMAIN Layout
          Room    \* KEY_QUEUE_SIZE - 1, the keys the ring holds

VARIABLES
  held,             \* the keys physically down
  wire,             \* bytes the controller has still to deliver
  is_extended,
  scancode_pressed, \* the scancodes whose flag is set
  shift_down,
  queue             \* the codes in the ring

kbdVars == <<held, wire, is_extended, scancode_pressed, shift_down, queue>>

\* Key, set-1 scancode, and whether the device sends the E0 prefix.
Layout == [LCTRL  |-> [sc |-> 29, ext |-> FALSE],
           RCTRL  |-> [sc |-> 29, ext |-> TRUE],
           LSHIFT |-> [sc |-> 42, ext |-> FALSE],
           RSHIFT |-> [sc |-> 54, ext |-> FALSE],
           LALT   |-> [sc |-> 56, ext |-> FALSE],
           C      |-> [sc |-> 46, ext |-> FALSE],
           SPACE  |-> [sc |-> 57, ext |-> FALSE],
           UP     |-> [sc |-> 72, ext |-> TRUE]]

ASSUME KeyboardAssumption == Keys \subseteq DOMAIN Layout /\ Room \in Nat

E0 == [sc |-> 96, down |-> FALSE]
Bytes(k, d) ==
  LET code == [sc |-> Layout[k].sc, down |-> d]
  IN IF Layout[k].ext THEN <<E0, code>> ELSE <<code>>

KbdInit ==
  /\ held = {} /\ wire = << >>
  /\ is_extended = FALSE /\ scancode_pressed = {} /\ shift_down = FALSE
  /\ queue = << >>

------------------------------------------------------------------------------
(* The keyboard *)

\* A key goes down, or repeats while it is held.
Press(k) ==
  /\ wire = << >>
  /\ held' = held \cup {k}
  /\ wire' = Bytes(k, TRUE)
  /\ UNCHANGED <<is_extended, scancode_pressed, shift_down, queue>>

Release(k) ==
  /\ wire = << >> /\ k \in held
  /\ held' = held \ {k}
  /\ wire' = Bytes(k, FALSE)
  /\ UNCHANGED <<is_extended, scancode_pressed, shift_down, queue>>

------------------------------------------------------------------------------
(* The kernel *)

IsShift(sc) == sc \in {42, 54}

\* get_ascii_from_scancode, keyboard_shift and the Ctrl and Alt encodings, for
\* the scancodes of the layout; "" is no code.
Encode(sc, ext, shift, pressed) ==
  IF ext THEN IF sc = 72 THEN "UP" ELSE ""
  ELSE CASE sc = 46 -> IF shift THEN "C" ELSE IF 29 \in pressed THEN "^C" ELSE "c"
         [] sc = 57 -> IF 56 \in pressed THEN "ESC" ELSE " "
         [] OTHER   -> ""

\* Faulty variants of the next three: the break code of an extended key is not
\* taken; the break code of a shift key is not.
PressedLate(b) ==
  IF b.down THEN scancode_pressed \cup {b.sc}
  ELSE IF is_extended THEN scancode_pressed ELSE scancode_pressed \ {b.sc}
ShiftStuck(b) == shift_down \/ (~is_extended /\ IsShift(b.sc) /\ b.down)

\* The pressed flags and the shift state after the make or break code b, and
\* the ring after queueing a code that is dropped when the ring is full.
Pressed(b) ==
  IF b.down THEN scancode_pressed \cup {b.sc} ELSE scancode_pressed \ {b.sc}
Shift(b) == IF ~is_extended /\ IsShift(b.sc) THEN b.down ELSE shift_down
Queued(ascii) == IF Len(queue) < Room THEN Append(queue, ascii) ELSE queue

\* keyboard_handle_keypress for one byte, with kbd_inject_scancode_set1: the
\* prefix is remembered for the next byte; a make or break code updates the
\* pressed flags and the shift state, and a make code is encoded and queued
\* unless the ring is full.
KeyInterrupt ==
  LET b == Head(wire)
  IN /\ wire # << >>
     /\ wire' = Tail(wire)
     /\ IF b = E0
        THEN /\ is_extended' = TRUE
             /\ UNCHANGED <<scancode_pressed, shift_down, queue>>
        ELSE /\ is_extended' = FALSE
             /\ scancode_pressed' = Pressed(b)
             /\ shift_down' = Shift(b)
             /\ LET ascii == Encode(b.sc, is_extended, shift_down', scancode_pressed')
                IN queue' = IF b.down /\ ascii # "" THEN Queued(ascii) ELSE queue
     /\ UNCHANGED held

\* keyboard_eat_key
EatKey ==
  /\ queue # << >>
  /\ queue' = Tail(queue)
  /\ UNCHANGED <<held, wire, is_extended, scancode_pressed, shift_down>>

\* keyboard_flush_queue, when Doom ends: the ring and the modifiers are cleared
\* whatever is still held.
FlushQueue ==
  /\ queue' = << >> /\ shift_down' = FALSE /\ scancode_pressed' = {}
  /\ UNCHANGED <<held, wire, is_extended>>

KbdNext ==
  \/ \E k \in Keys : Press(k) \/ Release(k)
  \/ KeyInterrupt \/ EatKey \/ FlushQueue

KbdSpec == KbdInit /\ [][KbdNext]_kbdVars

------------------------------------------------------------------------------
(* Properties *)

\* No modifier sticks: with every byte delivered, a flag that is set belongs to
\* a key that is down, in whatever order keys were pressed, repeated, released
\* and flushed.
NoStuckModifier ==
  wire = << >> =>
    /\ scancode_pressed \subseteq {Layout[k].sc : k \in held}
    /\ shift_down => \E k \in held : IsShift(Layout[k].sc)
    /\ ~is_extended

\* Ctrl+C, which kills the foreground process, is queued only for the C key with
\* a Ctrl key down.
InterruptIsCtrlC ==
  [][Len(queue') > Len(queue) /\ queue'[Len(queue')] = "^C"
       => "C" \in held /\ held \cap {"LCTRL", "RCTRL"} # {}]_kbdVars
==============================================================================

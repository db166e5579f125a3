---- MODULE KernMouse ----
(* The PS/2 mouse of kern_mouse.c: packets of three bytes, put together by   *)
(* the interrupt handler a byte at a time, the ring of events, and the         *)
(* consumer that adds the movements up and keeps the buttons.                *)
(*                                                                           *)
(* A byte is its number and its bits.  A movement in a packet has a ninth bit, *)
(* its sign, in the first byte, which also holds the buttons, whether a        *)
(* movement did not fit, and a bit that is always set.                       *)
EXTENDS Integers, Sequences, FiniteSetsExt

CONSTANTS
  Btns,        \* the buttons: 1 is left, 2 right, 3 middle
  Moves,       \* movements <<dx, dy>> the mouse makes, with dy upwards
  MouseRoom,   \* MOUSE_EVENT_QUEUE_SIZE
  MaxReports   \* bound: packets of the mouse

ASSUME MouseAssumption ==
  /\ Btns \subseteq 1 .. 3 /\ Moves \subseteq Int \X Int
  /\ MouseRoom \in Nat \ {0, 1} /\ MaxReports \in Nat

VARIABLES
  buttons, spot, reports,      \* the mouse: its buttons, where it has gone as the screen counts, packets made
  packet,                      \* the bytes of the packet that are not read yet
  g_mouse_cycle, g_mouse_bytes,
  g_btn_state,
  mqueue,                 \* the events in the ring
  pressed, pointer,            \* the consumer: the buttons it takes for pressed, and the sum of the movements
  full, missed,           \* history: an event found the ring full; that, a lost byte, or a movement that was not one byte
  realigns, told          \* history, of the last packet: see WholePacket
packVars == <<realigns, told>>
mouseVars == <<buttons, spot, reports, packet, g_mouse_cycle, g_mouse_bytes, g_btn_state, mqueue, pressed, pointer,
               full, missed, packVars>>

SignBit == 128
AsByte(d) == d % (2 * SignBit)
AsI8(b) == IF b >= SignBit THEN b - 2 * SignBit ELSE b    \* (i8) b
Fits(d) == d \in -SignBit + 1 .. SignBit - 1
BitsOf(n) == {i \in 0 .. 7 : (n \div 2 ^ i) % 2 = 1}
Byte(n) == [n |-> n, bits |-> BitsOf(n)]
Overflows(d) == d \notin -2 * SignBit .. 2 * SignBit - 1

MouseInit ==
  /\ buttons = {} /\ spot = <<0, 0>> /\ reports = 0 /\ packet = <<>>
  /\ g_mouse_cycle = 0 /\ g_mouse_bytes = <<>> /\ g_btn_state = {}
  /\ mqueue = <<>> /\ pressed = {} /\ pointer = <<0, 0>>
  /\ full = FALSE /\ missed = FALSE /\ realigns = TRUE /\ told = TRUE

(* The first byte of a packet.                                               *)
FlagBits(btns, m) ==
  {3} \cup {b - 1 : b \in btns} \cup {i \in {4, 5} : m[i - 3] < 0} \cup {i \in {6, 7} : Overflows(m[i - 5])}
Flags(btns, m) == [n |-> MapThenSumSet(LAMBDA i : 2 ^ i, FlagBits(btns, m)), bits |-> FlagBits(btns, m)]

(* The mouse reports buttons and a movement.  A packet that begins when one   *)
(* is due, or whose movements cannot be taken for a first byte, ends when one  *)
(* is due; the first kind also tells the buttons.                            *)
WholePacket(btns, m) ==
  /\ realigns' = (g_mouse_cycle = 0 \/ 3 \notin BitsOf(AsByte(m[1])) \cup BitsOf(AsByte(m[2])))
  /\ told' = (g_mouse_cycle = 0 /\ ~Overflows(m[1]) /\ ~Overflows(m[2]))
MouseReports(btns, m) ==
  /\ packet = <<>> /\ reports < MaxReports /\ reports' = reports + 1
  /\ buttons' = btns /\ spot' = <<spot[1] + m[1], spot[2] - m[2]>>
  /\ packet' = <<Flags(btns, m), Byte(AsByte(m[1])), Byte(AsByte(m[2]))>>
  /\ missed' = (missed \/ ~Fits(m[1]) \/ ~Fits(m[2]))
  /\ WholePacket(btns, m)
  /\ UNCHANGED <<g_mouse_cycle, g_mouse_bytes, g_btn_state, mqueue, pressed, pointer, full>>

(* A byte does not reach the handler (external).                             *)
LoseByte ==
  /\ packet # <<>> /\ packet' = Tail(packet)
  /\ missed' = TRUE /\ realigns' = FALSE /\ told' = FALSE
  /\ UNCHANGED <<buttons, spot, reports, g_mouse_cycle, g_mouse_bytes, g_btn_state, mqueue, pressed, pointer, full>>

(* mouse_handle_interrupt for one of the first two bytes; what comes first    *)
(* must have bit 3.  A faulty variant takes any byte for the first.           *)
BeginsAny(byte) == TRUE
Begins(byte) == 3 \in byte.bits
MouseByte ==
  /\ packet # <<>> /\ g_mouse_cycle < 2 /\ packet' = Tail(packet)
  /\ IF g_mouse_cycle = 0 /\ ~Begins(Head(packet)) THEN UNCHANGED <<g_mouse_cycle, g_mouse_bytes>>
     ELSE g_mouse_cycle' = g_mouse_cycle + 1 /\ g_mouse_bytes' = Append(g_mouse_bytes, Head(packet))
  /\ UNCHANGED <<buttons, spot, reports, g_btn_state, mqueue, pressed, pointer, full, missed, packVars>>

BtnEvent(b, isdown) == [type |-> "btn", btn |-> b, down |-> isdown]
MoveEvent(dx, dy) == [type |-> "move", dx |-> dx, dy |-> dy]

(* A button that changed is reported.  A faulty variant reports a button that   *)
(* is down in every packet.                                                  *)
ReportedHeld(b, old, new) == IF b \in new THEN <<BtnEvent(b, TRUE)>> ELSE <<>>
Reported(b, old, new) == IF b \in old <=> b \in new THEN <<>> ELSE <<BtnEvent(b, b \in new)>>
Moved(dx, dy) == IF dx # 0 \/ dy # 0 THEN <<MoveEvent(dx, dy)>> ELSE <<>>

(* What the ring has room for.                                               *)
Kept(all) == IF Len(all) < MouseRoom THEN all ELSE SubSeq(all, 1, MouseRoom - 1)

(* The third byte: the packet is decoded, unless it says that a movement did *)
(* not fit.  What finds the ring full is dropped.                            *)
MousePacket ==
  /\ packet # <<>> /\ g_mouse_cycle = 2 /\ g_mouse_cycle' = 0
  /\ g_mouse_bytes' = <<>> /\ packet' = Tail(packet)
  /\ LET flags == g_mouse_bytes[1].bits
         new == {b \in 1 .. 3 : b - 1 \in flags}
         dx == AsI8(g_mouse_bytes[2].n)
         dy == AsI8(AsByte(-AsI8(Head(packet).n)))
         Btn(b) == Reported(b, g_btn_state, new)
         all == mqueue \o Btn(1) \o Btn(2) \o Btn(3) \o Moved(dx, dy)
     IN IF flags \cap {6, 7} # {} THEN UNCHANGED <<g_btn_state, mqueue, full, missed>>
        ELSE /\ g_btn_state' = new
             /\ mqueue' = Kept(all)
             /\ full' = (full \/ Len(all) > MouseRoom - 1)
             /\ missed' = (missed \/ Len(all) > MouseRoom - 1)
  /\ UNCHANGED <<buttons, spot, reports, pressed, pointer, packVars>>

(* mouse_eat_event, and what its consumer does with the event.               *)
MouseEat ==
  /\ mqueue # <<>> /\ mqueue' = Tail(mqueue)
  /\ LET e == Head(mqueue) IN
     IF e.type = "btn" THEN /\ pressed' = IF e.down THEN pressed \cup {e.btn} ELSE pressed \ {e.btn}
                            /\ UNCHANGED pointer
     ELSE pointer' = <<pointer[1] + e.dx, pointer[2] + e.dy>> /\ UNCHANGED pressed
  /\ UNCHANGED <<buttons, spot, reports, packet, g_mouse_cycle, g_mouse_bytes, g_btn_state, full, missed, packVars>>

MouseNext ==
  \/ \E btns \in SUBSET Btns, m \in Moves : MouseReports(btns, m)
  \/ LoseByte \/ MouseByte \/ MousePacket \/ MouseEat
MouseSpec == MouseInit /\ [][MouseNext]_mouseVars

-----------------------------------------------------------------------------
(* With every event read the consumer has the buttons and the place of the   *)
(* mouse, however its packets and the reads fall together, until a byte is   *)
(* lost, an event finds the ring full or a movement does not fit a signed     *)
(* byte: the sign in the first byte is not looked at (kern_mouse.c 106-165). *)
PointerFollows == packet = <<>> /\ mqueue = <<>> /\ ~missed => pressed = buttons /\ pointer = spot

(* After lost bytes the handler is back in step at the end of the first        *)
(* packet whose movements cannot be taken for a first byte, and the packet      *)
(* after that one that fits gives it, and the consumer, the buttons of the     *)
(* mouse, whatever was made of the bytes between them (kern_mouse.c 107-142). *)
MouseRealigns ==
  packet = <<>> =>
    /\ realigns => g_mouse_cycle = 0
    /\ told => g_btn_state = buttons /\ (mqueue = <<>> /\ ~full => pressed = buttons)
====

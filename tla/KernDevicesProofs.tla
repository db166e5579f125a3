-------------------------- MODULE KernDevicesProofs --------------------------
(***************************************************************************)
(* Proofs about the decoding of the PS/2 keyboard, for every set of its    *)
(* keys and every length of the ring, over any sequence of presses,        *)
(* repeats, releases and flushes.                                          *)
(*                                                                         *)
(* While nothing is on the wire, a flag that is set belongs to a key that  *)
(* is down.  While the bytes of a key are under way, the decoder may still *)
(* have to clear what that key had set, and after an E0 prefix it is half  *)
(* way through a key that has one (Underway).                              *)
(*                                                                         *)
(* And about the USB driver, for any number of ports and slots and length  *)
(* of its rings.  It forgets answers and takes those of commands it has    *)
(* given up, but of every slot at most one good answer is on its way or    *)
(* can still come (OneAnswer), and the driver posts a command about a slot *)
(* only when it has taken that one.  So a slot that was found to be a      *)
(* keyboard stays its own, and a report of it is decoded, is marked ready  *)
(* or waits in the event ring (KbdsInv, CyclesInv, DecodeInv).             *)
(*                                                                         *)
(* And about the mouse, for every size of its ring and until a byte is     *)
(* lost: the events that wait in the ring lead the consumer to where the   *)
(* mouse was before the packet that is under way (Leads, MouseInv).        *)
(***************************************************************************)
EXTENDS KernKeyboard, KernXhci, KernMouse, SequenceTheorems, TLAPS

Code(k, d) == [sc |-> Layout[k].sc, down |-> d]
HeldCodes == {Layout[k].sc : k \in held}
AShift == \E k \in held : IsShift(Layout[k].sc)

\* Every flag belongs to a key that is down, with those of a key that goes up
\* excepted.
FlagsHeld(up) ==
  /\ scancode_pressed \subseteq HeldCodes \cup {Layout[k].sc : k \in up}
  /\ shift_down => AShift \/ \E k \in up : IsShift(Layout[k].sc)

\* The bytes of k going down or up have not been delivered, or only the prefix.
Underway(k, d) ==
  /\ k \in Keys /\ d \in BOOLEAN /\ (d <=> k \in held)
  /\ \/ wire = Bytes(k, d) /\ ~is_extended
     \/ wire = <<Code(k, d)>> /\ Layout[k].ext /\ is_extended
  /\ FlagsHeld(IF d THEN {} ELSE {k})

\* What Encode makes of a scancode.
Ascii == {"UP", "C", "^C", "c", "ESC", " ", ""}

KbdTypes ==
  /\ held \in SUBSET Keys /\ scancode_pressed \in SUBSET Nat
  /\ shift_down \in BOOLEAN /\ is_extended \in BOOLEAN
  /\ queue \in Seq(Ascii)

KbdInv ==
  /\ KbdTypes
  /\ \/ wire = << >> /\ ~is_extended /\ FlagsHeld({})
     \/ \E k \in Keys, d \in BOOLEAN : Underway(k, d)
------------------------------------------------------------------------------
\* What the layout says of a key: the prefix byte is no scancode, only C and the
\* two Ctrl keys have theirs, and no shift key has a prefix.
LEMMA LayoutFacts ==
  ASSUME NEW k \in Keys
  PROVE  /\ Layout[k].sc \in Nat \ {96}
         /\ Layout[k].ext = TRUE \/ Layout[k].ext = FALSE
         /\ Layout[k].sc = 46 => k = "C"
         /\ Layout[k].sc = 29 => k \in {"LCTRL", "RCTRL"}
         /\ Layout[k].ext => ~IsShift(Layout[k].sc)
<1>1. k \in {"LCTRL", "RCTRL", "LSHIFT", "RSHIFT", "LALT", "C", "SPACE", "UP"}
  BY KeyboardAssumption DEF KeyboardAssumption, Layout
<1>2. CASE k \in {"LCTRL", "RCTRL", "UP"}
  BY <1>2 DEF Layout, IsShift
<1>3. CASE k \in {"LSHIFT", "RSHIFT"}
  BY <1>3 DEF Layout, IsShift
<1>4. CASE k \in {"LALT", "C", "SPACE"}
  BY <1>4 DEF Layout, IsShift
<1> QED
  BY <1>1, <1>2, <1>3, <1>4

\* What the interrupt finds at the head of the wire: the prefix, or the code of
\* the key under way.
LEMMA NextByte ==
  ASSUME NEW k \in Keys, NEW d \in BOOLEAN, Underway(k, d)
  PROVE  \/ /\ Head(wire) = E0 /\ Tail(wire) = <<Code(k, d)>>
            /\ Layout[k].ext /\ ~is_extended
         \/ /\ Head(wire) = Code(k, d) /\ Head(wire) # E0 /\ Tail(wire) = << >>
            /\ is_extended <=> Layout[k].ext
<1>1. (Layout[k].ext = TRUE \/ Layout[k].ext = FALSE) /\ Code(k, d) # E0
  <2>1. Layout[k].sc # 96
    BY LayoutFacts
  <2> QED
    BY <2>1, LayoutFacts DEF Code, E0
<1>2. CASE wire = <<Code(k, d)>> /\ Layout[k].ext /\ is_extended
  BY <1>1, <1>2
<1>3. CASE wire = Bytes(k, d) /\ ~is_extended /\ Layout[k].ext
  <2>1. wire = <<E0, Code(k, d)>>
    BY <1>3 DEF Bytes, Code
  <2> QED
    BY <1>3, <2>1
<1>4. CASE wire = Bytes(k, d) /\ ~is_extended /\ ~Layout[k].ext
  <2>1. wire = <<Code(k, d)>>
    BY <1>4 DEF Bytes, Code
  <2>2. Head(wire) = Code(k, d) /\ Tail(wire) = << >>
    BY <2>1
  <2> QED
    BY <1>1, <1>4, <2>2
<1> QED
  BY <1>1, <1>2, <1>3, <1>4 DEF Underway

\* No key is down at first.
LEMMA KbdInitInv == KbdInit => KbdInv
<1> SUFFICES ASSUME KbdInit PROVE KbdInv
  OBVIOUS
<1>1. KbdTypes
  <2>1. << >> \in Seq(Ascii)
    OBVIOUS
  <2> QED
    BY <2>1 DEF KbdInit, KbdTypes
<1> QED
  BY <1>1 DEF KbdInit, KbdInv, FlagsHeld

\* A key can only go down, repeat or go up while nothing is on the wire.
LEMMA KeyboardStep ==
  ASSUME KbdInv, NEW k \in Keys, Press(k) \/ Release(k)
  PROVE  KbdInv'
<1>1. wire = << >> /\ ~is_extended /\ FlagsHeld({}) /\ KbdTypes
  <2>1. ASSUME NEW j \in Keys, NEW d \in BOOLEAN PROVE ~Underway(j, d) \/ wire # << >>
    BY DEF Underway, Bytes, Code
  <2> QED
    BY <2>1 DEF KbdInv, Press, Release
<1>2. KbdTypes' /\ UNCHANGED <<is_extended, scancode_pressed, shift_down>>
  BY <1>1 DEF KbdTypes, Press, Release
<1>3. CASE Press(k)
  <2>1. held' = held \cup {k} /\ wire' = Bytes(k, TRUE)
    BY <1>3 DEF Press
  <2>2. Underway(k, TRUE)'
    BY <1>1, <1>2, <2>1 DEF Underway, FlagsHeld, HeldCodes, AShift
  <2> QED
    BY <1>2, <2>2 DEF KbdInv
<1>4. CASE Release(k)
  <2>1. held' = held \ {k} /\ wire' = Bytes(k, FALSE)
    BY <1>4 DEF Release
  <2>2. FlagsHeld({k})'
    BY <1>1, <1>2, <2>1 DEF FlagsHeld, HeldCodes, AShift
  <2>3. Underway(k, FALSE)'
    BY <1>1, <1>2, <2>1, <2>2 DEF Underway
  <2> QED
    BY <1>2, <2>3 DEF KbdInv
<1> QED
  BY <1>3, <1>4

\* The interrupt for the byte that completes a key: its flags follow the key.
LEMMA CodeTaken ==
  ASSUME KbdTypes, NEW k \in Keys, NEW d \in BOOLEAN, Underway(k, d), KeyInterrupt,
         Head(wire) = Code(k, d), Head(wire) # E0
  PROVE  FlagsHeld({})' /\ ~is_extended'
<1>1. /\ held' = held /\ is_extended' = FALSE
      /\ scancode_pressed' = Pressed(Code(k, d)) /\ shift_down' = Shift(Code(k, d))
  BY DEF KeyInterrupt
<1>2. Code(k, d).down = d /\ Code(k, d).sc = Layout[k].sc
  BY DEF Code
<1>3. d <=> k \in held
  BY DEF Underway
<1>4. scancode_pressed' \subseteq HeldCodes
  <2>1. CASE d
    BY <1>1, <1>2, <1>3, <2>1 DEF Pressed, Underway, FlagsHeld, HeldCodes
  <2>2. CASE ~d
    BY <1>1, <1>2, <1>3, <2>2 DEF Pressed, Underway, FlagsHeld, HeldCodes
  <2> QED
    BY <2>1, <2>2
<1>5. shift_down' => AShift
  <2>1. CASE ~is_extended /\ IsShift(Layout[k].sc)
    BY <1>1, <1>2, <1>3, <2>1 DEF Shift, AShift
  <2>2. CASE ~IsShift(Layout[k].sc)
    BY <1>1, <1>2, <1>3, <2>2 DEF Shift, AShift, Underway, FlagsHeld
  <2>3. CASE is_extended /\ IsShift(Layout[k].sc)
    <3>1. Layout[k].ext
      BY <2>3, NextByte DEF KbdTypes
    <3> QED
      BY <2>3, <3>1, LayoutFacts
  <2> QED
    BY <2>1, <2>2, <2>3
<1> QED
  BY <1>1, <1>4, <1>5 DEF FlagsHeld, HeldCodes, AShift

\* An interrupt finds a key under way.
LEMMA InterruptHasKey ==
  ASSUME KbdInv, KeyInterrupt
  PROVE  \E k \in Keys, d \in BOOLEAN : Underway(k, d)
<1> QED
  BY DEF KbdInv, KeyInterrupt

\* The scan code of a key changes at most the modifier it is for.
LEMMA InterruptStep ==
  ASSUME KbdInv, KeyInterrupt
  PROVE  KbdInv'
<1>1. PICK k \in Keys, d \in BOOLEAN : Underway(k, d)
  BY InterruptHasKey
<1>2. KbdTypes /\ held' = held /\ wire' = Tail(wire)
  BY DEF KbdInv, KeyInterrupt
<1>3. CASE Head(wire) = E0 /\ Tail(wire) = <<Code(k, d)>> /\ Layout[k].ext
  <2>1. is_extended' = TRUE /\ UNCHANGED <<scancode_pressed, shift_down, queue>>
    BY <1>3 DEF KeyInterrupt
  <2>2. Underway(k, d)'
    BY <1>1, <1>2, <1>3, <2>1 DEF Underway, FlagsHeld, HeldCodes, AShift, Code
  <2>3. KbdTypes'
    BY <1>2, <2>1 DEF KbdTypes
  <2> QED
    BY <2>2, <2>3 DEF KbdInv
<1>4. CASE Head(wire) = Code(k, d) /\ Head(wire) # E0 /\ Tail(wire) = << >>
  <2>1. FlagsHeld({})' /\ ~is_extended'
    BY <1>1, <1>2, <1>4, CodeTaken
  <2>2. scancode_pressed' \in SUBSET Nat /\ shift_down' \in BOOLEAN /\ is_extended' \in BOOLEAN
    <3>1. Code(k, d).sc \in Nat /\ Code(k, d).down = d
      BY LayoutFacts DEF Code
    <3>2. /\ is_extended' = FALSE /\ scancode_pressed' = Pressed(Code(k, d))
          /\ shift_down' = Shift(Code(k, d))
      BY <1>4 DEF KeyInterrupt
    <3> QED
      BY <1>2, <3>1, <3>2 DEF KbdTypes, Pressed, Shift
  <2>3. queue' \in Seq(Ascii)
    <3>1. ASSUME NEW ascii \in Ascii PROVE Queued(ascii) \in Seq(Ascii)
      BY <1>2 DEF Queued, KbdTypes
    <3>2. ASSUME NEW sc, NEW x, NEW s, NEW p PROVE Encode(sc, x, s, p) \in Ascii
      BY DEF Encode, Ascii
    <3>3. \E ascii \in Ascii : queue' = Queued(ascii) \/ queue' = queue
      <4>1. \E ascii : /\ ascii = Encode(Head(wire).sc, is_extended, shift_down', scancode_pressed')
                       /\ queue' = Queued(ascii) \/ queue' = queue
        BY <1>4 DEF KeyInterrupt
      <4> QED
        BY <3>2, <4>1
    <3> QED
      BY <1>2, <3>1, <3>3 DEF KbdTypes
  <2> QED
    BY <1>2, <1>4, <2>1, <2>2, <2>3 DEF KbdInv, KbdTypes
<1> QED
  BY <1>1, <1>3, <1>4, NextByte

\* Every scan code keeps the modifiers in step with the keys.
LEMMA KbdInvStep == KbdInv /\ [KbdNext]_kbdVars => KbdInv'
<1> SUFFICES ASSUME KbdInv, [KbdNext]_kbdVars PROVE KbdInv'
  OBVIOUS
<1>1. CASE \E k \in Keys : Press(k) \/ Release(k)
  BY <1>1, KeyboardStep
<1>2. CASE KeyInterrupt
  BY <1>2, InterruptStep
<1>3. CASE EatKey
  <2>1. UNCHANGED <<held, wire, is_extended, scancode_pressed, shift_down>>
    BY <1>3 DEF EatKey
  <2>2. queue' \in Seq(Ascii)
    BY <1>3 DEF EatKey, KbdInv, KbdTypes
  <2> QED
    BY <2>1, <2>2 DEF KbdInv, KbdTypes, Underway, FlagsHeld, HeldCodes, AShift
<1>4. CASE FlushQueue
  <2>1. /\ UNCHANGED <<held, wire, is_extended>>
        /\ queue' = << >> /\ shift_down' = FALSE /\ scancode_pressed' = {}
    BY <1>4 DEF FlushQueue
  <2>2. KbdTypes' /\ \A up : FlagsHeld(up)'
    <3>1. << >> \in Seq(Ascii)
      OBVIOUS
    <3> QED
      BY <2>1, <3>1 DEF KbdInv, KbdTypes, FlagsHeld
  <2>3. \A k \in Keys, d \in BOOLEAN : Underway(k, d) => Underway(k, d)'
    BY <2>1, <2>2 DEF Underway
  <2> QED
    BY <2>1, <2>2, <2>3 DEF KbdInv
<1>5. CASE UNCHANGED kbdVars
  BY <1>5 DEF kbdVars, KbdInv, KbdTypes, Underway, FlagsHeld, HeldCodes, AShift
<1> QED
  BY <1>1, <1>2, <1>3, <1>4, <1>5 DEF KbdNext

\* So the modifiers always follow the keys.
LEMMA KbdInvariance == KbdSpec => []KbdInv
<1> QED
  BY KbdInitInv, KbdInvStep, PTL DEF KbdSpec
------------------------------------------------------------------------------
\* No modifier sticks: with every byte delivered, each flag of
\* keyboard_handle_keypress that is set, and the shift state, belongs to a key
\* that is down, although two Ctrl keys share a scancode, keys repeat, and
\* keyboard_flush_queue may clear the flags between any two bytes.
THEOREM ModifiersFollow == KbdSpec => []NoStuckModifier
<1>1. KbdInv => NoStuckModifier
  <2> SUFFICES ASSUME KbdInv, wire = << >>
               PROVE  /\ scancode_pressed \subseteq {Layout[k].sc : k \in held}
                      /\ shift_down => \E k \in held : IsShift(Layout[k].sc)
                      /\ ~is_extended
    BY DEF NoStuckModifier
  <2>1. ASSUME NEW k \in Keys, NEW d \in BOOLEAN PROVE ~Underway(k, d)
    BY DEF Underway, Bytes, Code
  <2> QED
    BY <2>1 DEF KbdInv, FlagsHeld, HeldCodes, AShift
<1> QED
  BY <1>1, KbdInvariance, PTL

\* The Ctrl+C that kills the foreground process is queued only while the C key
\* and a Ctrl key are down: not for an extended key, not with a stale Ctrl flag
\* (keyboard_handle_keypress and the Ctrl encoding of kern_keyboard.c).
THEOREM CtrlCMeansCtrlC == KbdSpec => InterruptIsCtrlC
<1>1. ASSUME KbdInv, [KbdNext]_kbdVars, Len(queue') > Len(queue), queue'[Len(queue')] = "^C"
      PROVE  "C" \in held /\ held \cap {"LCTRL", "RCTRL"} # {}
  <2>1. KeyInterrupt
    <3>1. queue \in Seq(Ascii)
      BY <1>1 DEF KbdInv, KbdTypes
    <3>2. ~EatKey /\ ~FlushQueue
      BY <1>1, <3>1 DEF EatKey, FlushQueue
    <3>3. queue' # queue
      BY <1>1, <3>1
    <3> QED
      BY <1>1, <3>2, <3>3 DEF KbdNext, Press, Release, kbdVars
  <2>2. PICK k \in Keys, d \in BOOLEAN : Underway(k, d)
    BY <1>1, <2>1, InterruptHasKey
  <2> DEFINE ascii == Encode(Layout[k].sc, is_extended, shift_down', scancode_pressed')
  <2>3. Head(wire) = Code(k, d) /\ Head(wire) # E0 /\ d /\ queue' = Append(queue, ascii)
    <3>1. queue' # queue /\ Code(k, d).down = d /\ Code(k, d).sc = Layout[k].sc
      BY <1>1 DEF KbdInv, KbdTypes, Code
    <3>2. Head(wire) = Code(k, d) /\ Head(wire) # E0
      BY <2>1, <2>2, <3>1, NextByte DEF KeyInterrupt
    <3>3. queue' = IF d /\ ascii # "" THEN Queued(ascii) ELSE queue
      BY <2>1, <3>1, <3>2 DEF KeyInterrupt
    <3> QED
      BY <3>1, <3>2, <3>3 DEF Queued
  <2>4. ascii = "^C"
    BY <1>1, <2>3 DEF KbdInv, KbdTypes
  <2>5. Layout[k].sc = 46 /\ 29 \in scancode_pressed'
    BY <2>4 DEF Encode
  <2>6. k = "C" /\ k \in held
    BY <2>2, <2>3, <2>5, LayoutFacts DEF Underway
  <2>7. 29 \in HeldCodes
    <3>1. scancode_pressed' \subseteq HeldCodes /\ held' = held
      <4>1. FlagsHeld({})' /\ held' = held
        BY <1>1, <2>1, <2>2, <2>3, CodeTaken DEF KbdInv, KeyInterrupt
      <4> QED
        BY <4>1 DEF FlagsHeld, HeldCodes
    <3> QED
      BY <2>5, <3>1
  <2>8. PICK j \in held : Layout[j].sc = 29
    BY <2>7 DEF HeldCodes
  <2>9. j \in Keys
    BY <1>1 DEF KbdInv, KbdTypes
  <2> QED
    BY <2>6, <2>8, <2>9, LayoutFacts, ZenonT(60)
<1>2. KbdInv /\ [KbdNext]_kbdVars =>
        [Len(queue') > Len(queue) /\ queue'[Len(queue')] = "^C"
           => "C" \in held /\ held \cap {"LCTRL", "RCTRL"} # {}]_kbdVars
  BY <1>1
<1> QED
  BY <1>2, KbdInvariance, PTL DEF KbdSpec, InterruptIsCtrlC
------------------------------------------------------------------------------
(* The USB driver                                                            *)

Stages == {"enabled", "addressed", "configured"}
Commands == [t : {"enable"}] \cup [t : {"address"}, slot : Nat, port : Nat] \cup [t : {"configure"}, slot : Nat]

\* The steps of the driver with a device whose slot has been addressed.
Talking == {"flush", "dev", "cfg9", "cfg", "setconf", "setproto"}
Watched == Talking \cup {"address", "confep"}

\* A command that has not been taken and that the controller may carry out, and
\* good answers about a slot: in the event ring, and taken from it.
Hopes(i, s) ==
  /\ cmds[i].t # "enable" /\ cmds[i].slot = s
  /\ hw_slots[s].st = IF cmds[i].t = "address" THEN "enabled" ELSE "addressed"
RingOk(j, s) == event_ring[j].e.t = "cmd" /\ event_ring[j].e.ok /\ event_ring[j].e.slot = s
CompOk(s) == cmd_complete /\ cmd_comp.ok /\ cmd_comp.slot = s

RingTypes ==
  /\ DOMAIN event_ring = 0 .. EvTrbs - 1
  /\ \A i \in 0 .. EvTrbs - 1 :
       /\ DOMAIN event_ring[i] = {"c", "e"}
       /\ event_ring[i].e.t = "cmd" => event_ring[i].e.ok \in BOOLEAN /\ event_ring[i].e.slot \in Nat
       /\ event_ring[i].e.t = "port" => event_ring[i].e.port \in Nat

XhciTypes ==
  /\ hw_slots \in Seq([st : Stages, port : Nat]) /\ cmds \in Seq(Commands)
  /\ uport \in Nat /\ pending_enumerate \in Nat
  /\ event_dequeue \in 0 .. EvTrbs - 1 /\ hw_enqueue \in 0 .. EvTrbs - 1
  /\ cmd_complete \in BOOLEAN /\ cmd_comp \in [ok : BOOLEAN, slot : Nat]
  /\ RingTypes

\* What is said of a slot is said of one that was given out.
GivenOut ==
  /\ \A i \in DOMAIN cmds : cmds[i].t # "enable" =>
       /\ cmds[i].slot \in DOMAIN hw_slots
       /\ cmds[i].t = "configure" => hw_slots[cmds[i].slot].st # "enabled"
  /\ \A j \in DOMAIN event_ring, s \in Nat : RingOk(j, s) => s \in DOMAIN hw_slots
  /\ cmd_comp.ok => cmd_comp.slot \in DOMAIN hw_slots

\* Of every slot there is at most one good answer, come or still to come.
OneAnswer ==
  \A s \in DOMAIN hw_slots :
    /\ \A i, j \in DOMAIN cmds : Hopes(i, s) /\ Hopes(j, s) => i = j
    /\ \A i, j \in DOMAIN event_ring : RingOk(i, s) /\ RingOk(j, s) => i = j
    /\ \A i \in DOMAIN cmds, j \in DOMAIN event_ring : ~(Hopes(i, s) /\ RingOk(j, s))
    /\ CompOk(s) => (\A i \in DOMAIN cmds : ~Hopes(i, s)) /\ (\A j \in DOMAIN event_ring : ~RingOk(j, s))

\* A good answer about s has come.
GoodAnswer(s) == CompOk(s) \/ \E j \in DOMAIN event_ring : RingOk(j, s)
Mine == hw_slots[uslot].st # "enabled" /\ hw_slots[uslot].port = uport

\* What the driver waits for is what it may be told.
Addressing ==
  /\ \A i \in DOMAIN cmds : Hopes(i, uslot) => cmds[i].t = "address" /\ cmds[i].port = uport
  /\ GoodAnswer(uslot) => Mine
Addressed ==
  /\ Mine
  /\ (\A i \in DOMAIN cmds : ~Hopes(i, uslot)) /\ (\A j \in DOMAIN event_ring : ~RingOk(j, uslot))
Configuring == Mine /\ (GoodAnswer(uslot) => hw_slots[uslot].st = "configured")
DriverKnows ==
  /\ upc \in Watched => uslot \in DOMAIN hw_slots
  /\ upc = "address" => Addressing
  /\ upc \in Talking => Addressed
  /\ upc = "confep" => Configuring
PollsConfigured == \A s \in polling : s \in DOMAIN hw_slots /\ hw_slots[s].st = "configured"

XhciInv == XhciTypes /\ GivenOut /\ OneAnswer /\ DriverKnows /\ PollsConfigured

\* The fields of a command.
LEMMA CommandIs ==
  ASSUME NEW c \in Commands
  PROVE  /\ c.t \in {"enable", "address", "configure"}
         /\ c.t # "enable" => c.slot \in Nat
         /\ c.t = "address" => c.port \in Nat
  BY DEF Commands

\* A slot that was given out.
LEMMA SlotIs ==
  ASSUME XhciTypes, NEW s \in DOMAIN hw_slots
  PROVE  hw_slots[s] \in [st : Stages, port : Nat] /\ s \in Nat \ {0} /\ s <= Len(hw_slots)
<1>1. hw_slots \in Seq([st : Stages, port : Nat]) /\ DOMAIN hw_slots = 1 .. Len(hw_slots) /\ Len(hw_slots) \in Nat
  BY DEF XhciTypes
<1>2. hw_slots[s] \in [st : Stages, port : Nat]
  BY <1>1, ElementOfSeq, Zenon
<1> QED
  BY <1>1, <1>2

\* Nothing is posted or polled.
LEMMA XhciInitInv ==
  ASSUME XhciAssumption, XhciInit
  PROVE  XhciInv
<1>1. DOMAIN event_ring = 0 .. EvTrbs - 1 /\ 0 \in 0 .. EvTrbs - 1
      /\ \A i \in 0 .. EvTrbs - 1 : event_ring[i] = [c |-> 1, e |-> Link] \/ event_ring[i] = [c |-> 0, e |-> NoEvent]
  BY DEF XhciInit, XhciAssumption
<1>2. Link.t = "link" /\ NoEvent.t = "none"
  BY DEF Link, NoEvent
<1>3. \A i \in 0 .. EvTrbs - 1 : DOMAIN event_ring[i] = {"c", "e"} /\ event_ring[i].e.t \in {"link", "none"}
  BY <1>1, <1>2
<1>4. XhciTypes
  <2>1. /\ hw_slots = <<>> /\ cmds = <<>> /\ uport = 1 /\ pending_enumerate = 0 /\ event_dequeue = 0
        /\ hw_enqueue = 0 /\ cmd_complete = FALSE /\ cmd_comp = [ok |-> FALSE, slot |-> 0]
    BY DEF XhciInit
  <2>2. RingTypes
    BY <1>1, <1>3 DEF RingTypes
  <2>3. hw_slots \in Seq([st : Stages, port : Nat]) /\ cmds \in Seq(Commands)
    BY <2>1
  <2>4. cmd_comp \in [ok : BOOLEAN, slot : Nat] /\ cmd_complete \in BOOLEAN
    BY <2>1
  <2> QED
    BY <1>1, <2>1, <2>2, <2>3, <2>4 DEF XhciTypes
<1>5. \A j \in DOMAIN event_ring : \A s : ~RingOk(j, s)
  BY <1>1, <1>3 DEF RingOk
<1>6. GivenOut /\ OneAnswer
  BY <1>5 DEF XhciInit, GivenOut, OneAnswer, CompOk
<1>7. DriverKnows /\ PollsConfigured
  BY DEF XhciInit, DriverKnows, Talking, Watched, PollsConfigured
<1> QED
  BY <1>4, <1>6, <1>7 DEF XhciInv

\* A step that leaves commands, events and slots alone.
Quiet ==
  /\ UNCHANGED <<hw_slots, cmds, event_ring, event_dequeue, hw_enqueue, cmd_comp>>
  /\ (cmd_complete' = cmd_complete \/ cmd_complete' = FALSE)
  /\ uport' \in Nat /\ pending_enumerate' \in Nat

\* And the driver waits for nothing new.
Calm ==
  /\ \/ upc' \notin Watched
     \/ UNCHANGED <<upc, uslot, uport>>
     \/ UNCHANGED <<uslot, uport>> /\ upc \in Talking /\ upc' \in Talking
  /\ polling' = polling

\* Nothing new is heard in such a step,
LEMMA QuietAnswers ==
  ASSUME Quiet
  PROVE  /\ \A i, s : Hopes(i, s)' <=> Hopes(i, s)
         /\ \A j, s : RingOk(j, s)' <=> RingOk(j, s)
         /\ \A s : CompOk(s)' => CompOk(s)
<1>1. \A i, s : Hopes(i, s)' <=> Hopes(i, s)
  BY DEF Quiet, Hopes
<1>2. \A j, s : RingOk(j, s)' <=> RingOk(j, s)
  BY DEF Quiet, RingOk
<1>3. ASSUME NEW s, CompOk(s)'
      PROVE  CompOk(s)
  <2>1. cmd_complete' /\ cmd_comp'.ok /\ cmd_comp'.slot = s
    BY <1>3 DEF CompOk
  <2>2. cmd_complete' = cmd_complete
    BY <2>1 DEF Quiet
  <2>3. cmd_comp' = cmd_comp
    BY DEF Quiet
  <2> QED
    BY <2>1, <2>2, <2>3, Zenon DEF CompOk
<1> QED
  BY <1>1, <1>2, <1>3

\* so what was known of the slots stays so,
LEMMA QuietTypes ==
  ASSUME XhciInv, Quiet
  PROVE  XhciTypes' /\ GivenOut' /\ OneAnswer'
<1>1. XhciTypes'
  BY DEF XhciInv, XhciTypes, Quiet, RingTypes, Stages, Commands
<1>2. /\ \A i, s : Hopes(i, s)' <=> Hopes(i, s)
      /\ \A j, s : RingOk(j, s)' <=> RingOk(j, s)
      /\ \A s : CompOk(s)' => CompOk(s)
  BY QuietAnswers
<1>3. GivenOut'
  BY <1>2 DEF XhciInv, Quiet, GivenOut
<1>4. OneAnswer'
  BY <1>2 DEF XhciInv, Quiet, OneAnswer
<1> QED
  BY <1>1, <1>3, <1>4

\* and what the driver knows.
LEMMA QuietKeeps ==
  ASSUME XhciInv, Quiet, Calm
  PROVE  XhciInv'
<1>1. /\ \A i, s : Hopes(i, s)' <=> Hopes(i, s)
      /\ \A j, s : RingOk(j, s)' <=> RingOk(j, s)
      /\ \A s : GoodAnswer(s)' => GoodAnswer(s)
  BY QuietAnswers DEF GoodAnswer, Quiet
<1>2. PollsConfigured'
  BY DEF XhciInv, PollsConfigured, Quiet, Calm
<1>a. ASSUME UNCHANGED <<uslot, uport>>
      PROVE  (Addressing => Addressing') /\ (Addressed => Addressed') /\ (Configuring => Configuring')
  <2>1. uslot' = uslot /\ uport' = uport /\ (Mine => Mine')
    BY <1>a DEF Mine, Quiet
  <2>2. Addressing => Addressing'
    BY <1>1, <2>1 DEF Addressing, Quiet
  <2>3. Addressed => Addressed'
    BY <1>1, <2>1 DEF Addressed, Quiet
  <2>4. Configuring => Configuring'
    BY <1>1, <2>1 DEF Configuring, Quiet
  <2> QED
    BY <2>2, <2>3, <2>4
<1>3. ASSUME upc' \notin Watched
      PROVE  DriverKnows'
  <2>1. upc' \notin Watched /\ upc' # "address" /\ upc' # "confep" /\ upc' \notin Talking
    BY <1>3 DEF Watched
  <2> QED
    BY <2>1, Zenon DEF DriverKnows
<1>4. ASSUME UNCHANGED <<upc, uslot, uport>>
      PROVE  DriverKnows'
  <2>1. upc' = upc /\ uslot' = uslot /\ uport' = uport /\ hw_slots' = hw_slots
    BY <1>4 DEF Quiet
  <2>2. DriverKnows
    BY DEF XhciInv
  <2> QED
    BY <1>a, <2>1, <2>2, Zenon DEF DriverKnows
<1>5. ASSUME UNCHANGED <<uslot, uport>> /\ upc \in Talking /\ upc' \in Talking
      PROVE  DriverKnows'
  <2>1. upc' # "address" /\ upc' # "confep" /\ upc \in Watched
    BY <1>5 DEF Talking, Watched
  <2> QED
    <3>1. Addressed /\ uslot \in DOMAIN hw_slots
      BY <1>5, <2>1, Zenon DEF XhciInv, DriverKnows
    <3>2. Addressed' /\ uslot' \in DOMAIN hw_slots'
      BY <1>a, <1>5, <3>1 DEF Quiet
    <3> QED
      BY <2>1, <3>2, Zenon DEF DriverKnows
<1>6. DriverKnows'
  BY <1>3, <1>4, <1>5, Zenon DEF Calm
<1> QED
  BY <1>2, <1>6, QuietTypes DEF XhciInv

\* Giving up on a port.
LEMMA GivesUp ==
  ASSUME XhciInv, GiveUp
  PROVE  upc' \notin Watched /\ uport' \in Nat
<1>1. upc' \in {"port", "main"}
  BY DEF GiveUp
<1>2. uport' \in Nat
  BY DEF GiveUp, XhciInv, XhciTypes
<1> QED
  BY <1>1, <1>2 DEF Watched, Talking

\* xhci_init touches no ring after it has set them up.
LEMMA BringUpKeeps ==
  ASSUME XhciInv, BringUp
  PROVE  XhciInv'
<1>1. upc' \notin Watched
  BY DEF BringUp, Watched, Talking
<1>2. Quiet
  BY DEF BringUp, Quiet, flagVars, evInVars, evOutVars, cmdVars, XhciInv, XhciTypes
<1>3. Calm
  BY <1>1 DEF BringUp, Calm, devVars
<1> QED
  BY <1>2, <1>3, QuietKeeps

\* Keys are the keyboard's.
LEMMA UsbKeyKeeps ==
  ASSUME XhciInv, NEW s, NEW k, UsbKey(s, k)
  PROVE  XhciInv'
<1>1. Quiet
  BY DEF UsbKey, HwUnchanged, drvVars, Quiet, flagVars, evInVars, evOutVars, XhciInv, XhciTypes
<1>2. Calm
  BY DEF UsbKey, HwUnchanged, drvVars, Calm, devVars
<1> QED
  BY <1>1, <1>2, QuietKeeps

\* The first control transfer.
LEMMA FlushedKeeps ==
  ASSUME XhciInv, Flushed
  PROVE  XhciInv'
<1>1. Quiet
  BY DEF Flushed, Control, Goes, DrvUnchanged, Quiet, cmdVars, evInVars, evOutVars, XhciInv, XhciTypes
<1>2. Calm
  BY DEF Flushed, Control, Goes, DrvUnchanged, Calm, Talking
<1> QED
  BY <1>1, <1>2, QuietKeeps

\* The other ones, or the end of the scan.
LEMMA NextStageKeeps ==
  ASSUME XhciInv, NextStage
  PROVE  XhciInv'
<1>1. Quiet
  <2>1. UNCHANGED <<hw_slots, cmds, event_ring, event_dequeue, hw_enqueue, cmd_comp, cmd_complete, pending_enumerate>>
    BY DEF NextStage, DrvUnchanged, cmdVars, evInVars, evOutVars
  <2>2. uport' = uport \/ GiveUp
    BY DEF NextStage, Control, Goes
  <2> QED
    BY <2>1, <2>2, GivesUp DEF Quiet, XhciInv, XhciTypes
<1>2. Calm
  <2>1. polling' = polling
    BY DEF NextStage
  <2>2. GiveUp \/ (UNCHANGED <<uslot, uport>> /\ upc \in Talking /\ upc' \in Talking)
    <3>1. GiveUp \/ (UNCHANGED <<uslot, uport>> /\ upc \in {"dev", "cfg9", "cfg", "setconf"}
                     /\ upc' \in {"cfg9", "cfg", "setconf", "setproto"})
      BY Zenon DEF NextStage, Control, Goes
    <3> QED
      BY <3>1 DEF Talking
  <2> QED
    BY <2>1, <2>2, GivesUp DEF Calm
<1> QED
  BY <1>1, <1>2, QuietKeeps

\* xhci_kbd_get_report.
LEMMA GetReportKeeps ==
  ASSUME XhciInv, NEW s, GetReport(s)
  PROVE  XhciInv'
<1>1. Quiet
  BY DEF GetReport, DrvUnchanged, drvVars, Quiet, cmdVars, evInVars, evOutVars, XhciInv, XhciTypes
<1>2. Calm
  BY DEF GetReport, drvVars, Calm, devVars
<1> QED
  BY <1>1, <1>2, QuietKeeps

\* kbd_hid_process_report.
LEMMA ProcessReportKeeps ==
  ASSUME XhciInv, ProcessReport
  PROVE  XhciInv'
<1>1. Quiet
  BY DEF ProcessReport, DrvUnchanged, drvVars, Quiet, cmdVars, evInVars, evOutVars, XhciInv, XhciTypes
<1>2. Calm
  BY DEF ProcessReport, drvVars, Calm, devVars
<1> QED
  BY <1>1, <1>2, QuietKeeps

\* The main loop begins a new scan.
LEMMA HotplugKeeps ==
  ASSUME XhciInv, Hotplug
  PROVE  XhciInv'
<1>1. Quiet
  BY DEF Hotplug, Quiet, cmdVars, evInVars, evOutVars, XhciInv, XhciTypes
<1>2. Calm
  BY DEF Hotplug, Calm, devVars, Watched, Talking
<1> QED
  BY <1>1, <1>2, QuietKeeps

\* A step of another component.
LEMMA NothingKeeps ==
  ASSUME XhciInv, UNCHANGED xhciVars
  PROVE  XhciInv'
<1>1. Quiet
  BY DEF xhciVars, drvVars, flagVars, Quiet, cmdVars, evInVars, evOutVars, XhciInv, XhciTypes
<1>2. Calm
  BY DEF xhciVars, drvVars, Calm, devVars
<1> QED
  BY <1>1, <1>2, QuietKeeps

\* A command that is posted: the last one that came is forgotten.
Posts(c) ==
  /\ cmds' = Append(cmds, c) /\ cmd_complete' = FALSE
  /\ UNCHANGED <<hw_slots, event_ring, event_dequeue, hw_enqueue, cmd_comp, pending_enumerate, polling>>
  /\ uport' \in Nat
\* No good answer about s has come or will, but for the one that is taken.
Unanswered(s) ==
  (\A i \in DOMAIN cmds : ~Hopes(i, s)) /\ (\A j \in DOMAIN event_ring : ~RingOk(j, s))
\* What is known of the slot a command is about.
Fit(c) ==
  c.t # "enable" =>
    /\ c.slot \in DOMAIN hw_slots /\ (c.t = "configure" => hw_slots[c.slot].st # "enabled")
    /\ Unanswered(c.slot)

\* A command that is posted can be answered; nothing else is new.
LEMMA PostAnswers ==
  ASSUME XhciInv, NEW c \in Commands, Posts(c), NEW n, n = Len(cmds) + 1
  PROVE  /\ DOMAIN cmds = 1 .. Len(cmds) /\ Len(cmds) \in Nat /\ DOMAIN cmds' = DOMAIN cmds \cup {n}
         /\ n \notin DOMAIN cmds
         /\ \A i \in DOMAIN cmds : cmds'[i] = cmds[i]
         /\ cmds'[n] = c
         /\ \A i \in DOMAIN cmds : \A s : Hopes(i, s)' <=> Hopes(i, s)
         /\ \A s : Hopes(n, s)' => c.t # "enable" /\ c.slot = s
         /\ \A j, s : RingOk(j, s)' <=> RingOk(j, s)
         /\ \A s : ~CompOk(s)'
<1>1. cmds \in Seq(Commands) /\ cmds' = Append(cmds, c)
  BY DEF XhciInv, XhciTypes, Posts
<1>2. /\ DOMAIN cmds = 1 .. Len(cmds) /\ Len(cmds) \in Nat /\ DOMAIN cmds' = DOMAIN cmds \cup {n}
      /\ n \notin DOMAIN cmds
      /\ \A i \in DOMAIN cmds : cmds'[i] = cmds[i]
      /\ cmds'[n] = c
  BY <1>1
<1>3. \A i \in DOMAIN cmds : \A s : Hopes(i, s)' <=> Hopes(i, s)
  BY <1>2 DEF Hopes, Posts
<1>4. \A s : Hopes(n, s)' => c.t # "enable" /\ c.slot = s
  BY <1>2 DEF Hopes
<1>5. \A j, s : RingOk(j, s)' <=> RingOk(j, s)
  BY DEF RingOk, Posts
<1>6. \A s : ~CompOk(s)'
  BY DEF CompOk, Posts
<1> QED
  BY <1>2, <1>3, <1>4, <1>5, <1>6

\* If nothing else is to come about its slot, the invariant stands.
LEMMA PostKeeps ==
  ASSUME XhciInv, NEW c \in Commands, Posts(c), Fit(c)
  PROVE  XhciTypes' /\ GivenOut' /\ OneAnswer' /\ PollsConfigured'
<1> PICK n : n = Len(cmds) + 1
  OBVIOUS
<1> DEFINE D == DOMAIN cmds
<1>0. /\ DOMAIN cmds' = D \cup {n} /\ n \notin D
      /\ \A i \in D : cmds'[i] = cmds[i]
      /\ cmds'[n] = c
      /\ \A i \in D : \A s : Hopes(i, s)' <=> Hopes(i, s)
      /\ \A s : Hopes(n, s)' => c.t # "enable" /\ c.slot = s
      /\ \A j, s : RingOk(j, s)' <=> RingOk(j, s)
      /\ \A s : ~CompOk(s)'
  BY PostAnswers, ZenonT(60)
<1>1. XhciTypes'
  <2>1. cmds' \in Seq(Commands)
    BY DEF XhciInv, XhciTypes, Posts
  <2>2. hw_slots' \in Seq([st : Stages, port : Nat]) /\ cmd_complete' \in BOOLEAN /\ RingTypes'
    BY DEF XhciInv, XhciTypes, Posts, RingTypes
  <2> QED
    BY <2>1, <2>2 DEF XhciInv, XhciTypes, Posts, Commands, Stages
<1>2. GivenOut'
  <2>1. ASSUME NEW i \in DOMAIN cmds', cmds'[i].t # "enable"
        PROVE  cmds'[i].slot \in DOMAIN hw_slots' /\ (cmds'[i].t = "configure" => hw_slots'[cmds'[i].slot].st # "enabled")
    <3>1. CASE i \in D
      BY <1>0, <2>1, <3>1 DEF XhciInv, GivenOut, Posts
    <3>2. CASE i = n
      BY <1>0, <2>1, <3>2 DEF Fit, Posts
    <3> QED
      BY <1>0, <3>1, <3>2
  <2>2. \A j \in DOMAIN event_ring', s \in Nat : RingOk(j, s)' => s \in DOMAIN hw_slots'
    BY <1>0 DEF XhciInv, GivenOut, Posts
  <2>3. cmd_comp'.ok => cmd_comp'.slot \in DOMAIN hw_slots'
    BY DEF XhciInv, GivenOut, Posts
  <2> QED
    BY <2>1, <2>2, <2>3 DEF GivenOut
<1>3. OneAnswer'
  <2> SUFFICES ASSUME NEW s \in DOMAIN hw_slots'
               PROVE  /\ \A i, j \in DOMAIN cmds' : Hopes(i, s)' /\ Hopes(j, s)' => i = j
                      /\ \A i, j \in DOMAIN event_ring' : RingOk(i, s)' /\ RingOk(j, s)' => i = j
                      /\ \A i \in DOMAIN cmds', j \in DOMAIN event_ring' : ~(Hopes(i, s)' /\ RingOk(j, s)')
                      /\ CompOk(s)' => (\A i \in DOMAIN cmds' : ~Hopes(i, s)') /\ (\A j \in DOMAIN event_ring' : ~RingOk(j, s)')
    BY Zenon DEF OneAnswer
  <2>1. s \in DOMAIN hw_slots /\ event_ring' = event_ring
    BY DEF Posts
  <2>2. /\ \A i, j \in D : Hopes(i, s) /\ Hopes(j, s) => i = j
        /\ \A i, j \in DOMAIN event_ring : RingOk(i, s) /\ RingOk(j, s) => i = j
        /\ \A i \in D, j \in DOMAIN event_ring : ~(Hopes(i, s) /\ RingOk(j, s))
    BY <2>1 DEF XhciInv, OneAnswer
  <2>3. Hopes(n, s)' => (\A i \in D : ~Hopes(i, s)) /\ (\A j \in DOMAIN event_ring : ~RingOk(j, s))
    BY <1>0 DEF Fit, Unanswered
  <2> QED
    BY <1>0, <2>1, <2>2, <2>3
<1>4. PollsConfigured'
  BY DEF XhciInv, PollsConfigured, Posts
<1> QED
  BY <1>1, <1>2, <1>3, <1>4

\* A slot is asked for: a command about none.
LEMMA PortResetKeeps ==
  ASSUME XhciInv, PortReset
  PROVE  XhciInv'
<1>1. UNCHANGED <<hw_slots, event_ring, event_dequeue, hw_enqueue, cmd_comp, pending_enumerate, polling>>
  BY DEF PortReset, DrvUnchanged, evInVars, evOutVars, devVars
<1>2. CASE GiveUp /\ UNCHANGED <<cmdVars, cmd_complete>>
  <2>1. Quiet /\ Calm
    BY <1>1, <1>2, GivesUp DEF Quiet, Calm, cmdVars, XhciInv, XhciTypes
  <2> QED
    BY <2>1, QuietKeeps
<1>3. CASE Post([t |-> "enable"]) /\ Goes("enable") /\ cmd_complete' = FALSE
  <2> PICK c : c = [t |-> "enable"]
    OBVIOUS
  <2>1. c \in Commands /\ Fit(c)
    BY DEF Commands, Fit
  <2>2. Posts(c)
    BY <1>1, <1>3 DEF Posts, Post, Goes, XhciInv, XhciTypes
  <2>3. upc' \notin Watched
    BY <1>3 DEF Goes, Watched, Talking
  <2>4. DriverKnows'
    <3>1. upc' # "address" /\ upc' # "confep" /\ upc' \notin Talking
      BY <2>3 DEF Watched
    <3> QED
      BY <2>3, <3>1, Zenon DEF DriverKnows
  <2> QED
    BY <2>1, <2>2, <2>4, PostKeeps DEF XhciInv
<1> QED
  BY <1>2, <1>3 DEF PortReset

\* A good answer about a slot that has come is the only one.
LEMMA OnlyAnswer ==
  ASSUME XhciInv, CompOk(cmd_comp.slot)
  PROVE  cmd_comp.slot \in DOMAIN hw_slots /\ cmd_comp.slot \in Nat /\ Unanswered(cmd_comp.slot)
<1>1. cmd_comp.slot \in DOMAIN hw_slots
  BY DEF XhciInv, GivenOut, CompOk
<1>2. Unanswered(cmd_comp.slot)
  BY <1>1, Zenon DEF XhciInv, OneAnswer, Unanswered
<1> QED
  BY <1>1, <1>2, SlotIs DEF XhciInv

\* A slot is given by an answer: nothing else about it is to come.
LEMMA EnableDoneKeeps ==
  ASSUME XhciInv, EnableDone
  PROVE  XhciInv'
<1>1. UNCHANGED <<hw_slots, event_ring, event_dequeue, hw_enqueue, cmd_comp, pending_enumerate, polling>>
  BY DEF EnableDone, DrvUnchanged, evInVars, evOutVars, devVars
<1> PICK s : s = cmd_comp.slot
  OBVIOUS
<1>2. CASE GiveUp /\ UNCHANGED <<cmdVars, trbs_laid, cmd_complete>>
  <2>1. Quiet /\ Calm
    BY <1>1, <1>2, GivesUp DEF Quiet, Calm, cmdVars, XhciInv, XhciTypes
  <2> QED
    BY <2>1, QuietKeeps
<1>3. CASE /\ cmd_comp.ok /\ uslot' = s /\ upc' = "address" /\ UNCHANGED uport
           /\ Post([t |-> "address", slot |-> s, port |-> uport]) /\ cmd_complete' = FALSE
  <2> PICK c : c = [t |-> "address", slot |-> s, port |-> uport]
    OBVIOUS
  <2>1. s \in DOMAIN hw_slots /\ s \in Nat /\ Unanswered(s)
    <3>1. CompOk(s)
      BY <1>3, Zenon DEF EnableDone, Answered, CompOk
    <3> QED
      BY <3>1, OnlyAnswer
  <2>2. c \in Commands /\ Fit(c)
    BY <2>1 DEF Commands, Fit, XhciInv, XhciTypes
  <2>3. Posts(c)
    BY <1>1, <1>3 DEF Posts, Post, XhciInv, XhciTypes
  <2>4. Addressing'
    <3> PICK n : n = Len(cmds) + 1
      OBVIOUS
    <3>0. /\ DOMAIN cmds' = DOMAIN cmds \cup {n} /\ cmds'[n] = c
          /\ \A i \in DOMAIN cmds : Hopes(i, s)' <=> Hopes(i, s)
          /\ \A j : RingOk(j, s)' <=> RingOk(j, s)
          /\ ~CompOk(s)'
      BY <2>2, <2>3, PostAnswers, ZenonT(60)
    <3>1. \A i \in DOMAIN cmds' : Hopes(i, s)' => cmds'[i].t = "address" /\ cmds'[i].port = uport
      BY <2>1, <3>0 DEF Unanswered
    <3>2. ~GoodAnswer(s)'
      <4>1. \A j \in DOMAIN event_ring' : ~RingOk(j, s)'
        BY <1>1, <2>1, <3>0 DEF Unanswered
      <4> QED
        BY <3>0, <4>1, Zenon DEF GoodAnswer
    <3>3. uslot' = s /\ uport' = uport
      BY <1>3
    <3> QED
      BY <3>1, <3>2, <3>3 DEF Addressing
  <2>5. DriverKnows'
    <3>1. upc' = "address" /\ upc' # "confep" /\ upc' \notin Talking /\ uslot' \in DOMAIN hw_slots'
      BY <1>1, <1>3, <2>1 DEF Talking
    <3> QED
      BY <2>4, <3>1, Zenon DEF DriverKnows
  <2> QED
    BY <2>2, <2>3, <2>5, PostKeeps DEF XhciInv
<1> QED
  BY <1>2, <1>3, Zenon DEF EnableDone

\* The endpoint is to be configured, after an answer or without one.
LEMMA ConfigureKeeps ==
  ASSUME XhciInv, upc = "setproto", Configure,
         UNCHANGED <<hw_slots, event_ring, event_dequeue, hw_enqueue, cmd_comp, pending_enumerate, polling>>
  PROVE  XhciInv'
<1>1. CASE GiveUp /\ UNCHANGED <<cmdVars, cmd_complete>>
  <2>1. Quiet /\ Calm
    BY <1>1, GivesUp DEF Quiet, Calm, cmdVars, XhciInv, XhciTypes
  <2> QED
    BY <2>1, QuietKeeps
<1>2. CASE Post([t |-> "configure", slot |-> uslot]) /\ Goes("confep") /\ cmd_complete' = FALSE
  <2> PICK c, s : s = uslot /\ c = [t |-> "configure", slot |-> s]
    OBVIOUS
  <2>1. uslot \in DOMAIN hw_slots /\ Addressed
    <3>1. upc \in Watched /\ upc \in Talking
      BY DEF Watched, Talking
    <3> QED
      BY <3>1, Zenon DEF XhciInv, DriverKnows
  <2>2. s \in DOMAIN hw_slots /\ s \in Nat /\ Unanswered(s) /\ Mine
    BY <2>1, SlotIs DEF Addressed, Unanswered, XhciInv
  <2>3. c \in Commands /\ Fit(c)
    BY <2>2 DEF Commands, Fit, Mine
  <2>4. Posts(c)
    BY <1>2 DEF Posts, Post, Goes, XhciInv, XhciTypes
  <2>5. Configuring'
    <3> PICK n : n = Len(cmds) + 1
      OBVIOUS
    <3>0. (\A j : RingOk(j, s)' <=> RingOk(j, s)) /\ ~CompOk(s)'
      BY <2>3, <2>4, PostAnswers
    <3>1. ~GoodAnswer(s)'
      BY <2>2, <3>0 DEF Unanswered, GoodAnswer, Posts
    <3>2. uslot' = s /\ Mine'
      BY <1>2, <2>2 DEF Mine, Goes
    <3> QED
      BY <3>1, <3>2 DEF Configuring
  <2>6. DriverKnows'
    <3>1. upc' = "confep" /\ upc' # "address" /\ upc' \notin Talking /\ uslot' \in DOMAIN hw_slots'
      BY <1>2, <2>2 DEF Talking, Goes
    <3> QED
      BY <2>5, <3>1, Zenon DEF DriverKnows
  <2> QED
    BY <2>3, <2>4, <2>6, PostKeeps DEF XhciInv
<1> QED
  BY <1>1, <1>2 DEF Configure

\* After an answer.
LEMMA ProtocolSetKeeps ==
  ASSUME XhciInv, ProtocolSet
  PROVE  XhciInv'
  BY ConfigureKeeps DEF ProtocolSet, DrvUnchanged, evInVars, evOutVars, devVars

\* Whatever is not answered in time.
LEMMA TimeoutKeeps ==
  ASSUME XhciInv, Timeout
  PROVE  XhciInv'
<1>1. UNCHANGED <<hw_slots, event_ring, event_dequeue, hw_enqueue, cmd_comp, pending_enumerate, polling>>
  BY DEF Timeout, DrvUnchanged, evInVars, evOutVars, devVars
<1>2. CASE GiveUp /\ UNCHANGED <<cmdVars, trbs_laid, cmd_complete>>
  <2>1. Quiet /\ Calm
    BY <1>1, <1>2, GivesUp DEF Quiet, Calm, cmdVars, XhciInv, XhciTypes
  <2> QED
    BY <2>1, QuietKeeps
<1>3. CASE upc = "setproto" /\ Configure
  BY <1>1, <1>3, ConfigureKeeps
<1> QED
  BY <1>2, <1>3 DEF Timeout

\* A good answer about the slot can only be that it was addressed for this port.
LEMMA AddressDoneKeeps ==
  ASSUME XhciInv, AddressDone
  PROVE  XhciInv'
<1>1. UNCHANGED <<hw_slots, event_ring, event_dequeue, hw_enqueue, cmd_comp, pending_enumerate, polling, cmds, cmd_complete>>
  BY DEF AddressDone, DrvUnchanged, evInVars, evOutVars, devVars, cmdVars
<1>2. CASE GiveUp
  <2>1. Quiet /\ Calm
    BY <1>1, <1>2, GivesUp DEF Quiet, Calm, cmdVars, XhciInv, XhciTypes
  <2> QED
    BY <2>1, QuietKeeps
<1>3. CASE OwnAnswer(uslot) /\ Goes("flush")
  <2>1. upc = "address" /\ upc \in Watched
    BY DEF AddressDone, Watched
  <2>2. uslot \in DOMAIN hw_slots /\ Addressing
    BY <2>1, Zenon DEF XhciInv, DriverKnows
  <2>3. CompOk(uslot) /\ uslot = cmd_comp.slot
    BY <1>3, Zenon DEF OwnAnswer, CompOk, AddressDone, Answered
  <2>4. Mine /\ Unanswered(uslot)
    BY <2>2, <2>3, OnlyAnswer DEF Addressing, GoodAnswer
  <2>5. Quiet /\ uslot' = uslot /\ uport' = uport /\ upc' = "flush"
    BY <1>1, <1>3 DEF Quiet, Goes, XhciInv, XhciTypes
  <2>6. Addressed'
    BY <2>4, <2>5, QuietAnswers DEF Addressed, Unanswered, Quiet, Mine
  <2>7. DriverKnows'
    <3>1. upc' # "confep" /\ upc' # "address" /\ uslot' \in DOMAIN hw_slots'
      BY <1>1, <2>2, <2>5
    <3> QED
      BY <2>6, <3>1, Zenon DEF DriverKnows
  <2>8. PollsConfigured'
    BY <1>1 DEF XhciInv, PollsConfigured
  <2> QED
    BY <2>5, <2>7, <2>8, QuietTypes DEF XhciInv
<1> QED
  BY <1>2, <1>3 DEF AddressDone

\* And here only that its endpoint was configured.
LEMMA ConfigureDoneKeeps ==
  ASSUME XhciInv, ConfigureDone
  PROVE  XhciInv'
<1>1. UNCHANGED <<hw_slots, event_ring, event_dequeue, hw_enqueue, cmd_comp, pending_enumerate, cmds, cmd_complete>>
  BY DEF ConfigureDone, DrvUnchanged, evInVars, evOutVars, devVars, cmdVars
<1>2. CASE GiveUp /\ UNCHANGED polling
  <2>1. Quiet /\ Calm
    BY <1>1, <1>2, GivesUp DEF Quiet, Calm, cmdVars, XhciInv, XhciTypes
  <2> QED
    BY <2>1, QuietKeeps
<1>3. CASE OwnAnswer(uslot) /\ upc' = "main" /\ UNCHANGED uport /\ polling' = polling \cup {uslot}
  <2>1. upc = "confep" /\ upc \in Watched
    BY DEF ConfigureDone, Watched
  <2>2. uslot \in DOMAIN hw_slots /\ Configuring
    BY <2>1, Zenon DEF XhciInv, DriverKnows
  <2>3. GoodAnswer(uslot)
    BY <1>3, Zenon DEF OwnAnswer, CompOk, ConfigureDone, Answered, GoodAnswer
  <2>4. PollsConfigured'
    BY <1>1, <1>3, <2>2, <2>3 DEF Configuring, PollsConfigured, XhciInv
  <2>5. Quiet
    BY <1>1, <1>3 DEF Quiet, XhciInv, XhciTypes
  <2>6. DriverKnows'
    <3>1. upc' # "address" /\ upc' # "confep" /\ upc' \notin Talking /\ upc' \notin Watched
      BY <1>3 DEF Watched, Talking
    <3> QED
      BY <3>1, Zenon DEF DriverKnows
  <2> QED
    BY <2>4, <2>5, <2>6, QuietTypes DEF XhciInv
<1> QED
  BY <1>2, <1>3 DEF ConfigureDone

\* Where a ring goes on.
LEMMA RemainderInRange ==
  ASSUME NEW x \in Int, NEW Q \in Nat \ {0}
  PROVE  x % Q \in 0 .. Q - 1
  OBVIOUS

\* An event is written at the controller's end, and nowhere else.
LEMMA EmitIs ==
  ASSUME XhciAssumption, XhciTypes, NEW e, Emit(e), NEW k, k = hw_enqueue
  PROVE  /\ k \in DOMAIN event_ring /\ DOMAIN event_ring' = DOMAIN event_ring /\ hw_enqueue' \in 0 .. EvTrbs - 1
         /\ DOMAIN event_ring'[k] = {"c", "e"} /\ event_ring'[k].e = e
         /\ \A j \in DOMAIN event_ring \ {k} : event_ring'[j] = event_ring[j]
<1>1. k \in 0 .. EvTrbs - 1 /\ DOMAIN event_ring = 0 .. EvTrbs - 1
  BY DEF XhciTypes, RingTypes
<1>2. event_ring' = [event_ring EXCEPT ![k] = [c |-> hw_ccs, e |-> e]]
  BY DEF Emit
<1>3. hw_enqueue' \in 0 .. EvTrbs - 1
  <2>1. hw_enqueue' = (k + 1) % EvTrbs
    BY DEF Emit
  <2>2. k + 1 \in Int /\ EvTrbs \in Nat \ {0}
    BY <1>1 DEF XhciAssumption
  <2> QED
    BY <2>1, <2>2, RemainderInRange
<1>4. event_ring'[k] = [c |-> hw_ccs, e |-> e]
  BY <1>1, <1>2
<1>5. DOMAIN event_ring'[k] = {"c", "e"} /\ event_ring'[k].e = e
  BY <1>4
<1>6. DOMAIN event_ring' = DOMAIN event_ring /\ \A j \in DOMAIN event_ring \ {k} : event_ring'[j] = event_ring[j]
  BY <1>2
<1> QED
  BY <1>1, <1>3, <1>5, <1>6

\* What an event is written over is not heard of again.
LEMMA EmitAnswers ==
  ASSUME XhciAssumption, XhciTypes, NEW e, Emit(e), NEW k, k = hw_enqueue,
         e.t = "cmd" => e.ok \in BOOLEAN /\ e.slot \in Nat,
         e.t = "port" => e.port \in Nat
  PROVE  /\ RingTypes' /\ DOMAIN event_ring' = DOMAIN event_ring /\ hw_enqueue' \in 0 .. EvTrbs - 1
         /\ \A j \in DOMAIN event_ring : \A s :
              RingOk(j, s)' <=> IF j = k THEN e.t = "cmd" /\ e.ok /\ e.slot = s ELSE RingOk(j, s)
<1>1. /\ k \in DOMAIN event_ring /\ DOMAIN event_ring' = DOMAIN event_ring /\ hw_enqueue' \in 0 .. EvTrbs - 1
      /\ DOMAIN event_ring'[k] = {"c", "e"} /\ event_ring'[k].e = e
      /\ \A j \in DOMAIN event_ring \ {k} : event_ring'[j] = event_ring[j]
  BY EmitIs
<1>2. DOMAIN event_ring = 0 .. EvTrbs - 1
  BY DEF XhciTypes, RingTypes
<1>3. RingTypes'
  <2> SUFFICES ASSUME NEW i \in 0 .. EvTrbs - 1
               PROVE  /\ DOMAIN event_ring'[i] = {"c", "e"}
                      /\ event_ring'[i].e.t = "cmd" => event_ring'[i].e.ok \in BOOLEAN /\ event_ring'[i].e.slot \in Nat
                      /\ event_ring'[i].e.t = "port" => event_ring'[i].e.port \in Nat
    BY <1>1, <1>2 DEF RingTypes
  <2>1. CASE i = k
    BY <1>1, <2>1
  <2>2. CASE i # k
    <3>1. event_ring'[i] = event_ring[i]
      BY <1>1, <1>2, <2>2
    <3> QED
      BY <3>1 DEF XhciTypes, RingTypes
  <2> QED
    BY <2>1, <2>2
<1>4. \A j \in DOMAIN event_ring : \A s :
              RingOk(j, s)' <=> IF j = k THEN e.t = "cmd" /\ e.ok /\ e.slot = s ELSE RingOk(j, s)
  <2> SUFFICES ASSUME NEW j \in DOMAIN event_ring, NEW s
               PROVE  RingOk(j, s)' <=> IF j = k THEN e.t = "cmd" /\ e.ok /\ e.slot = s ELSE RingOk(j, s)
    OBVIOUS
  <2>1. CASE j = k
    BY <1>1, <2>1 DEF RingOk
  <2>2. CASE j # k
    <3>1. event_ring'[j] = event_ring[j]
      BY <1>1, <2>2
    <3> QED
      BY <2>2, <3>1 DEF RingOk
  <2> QED
    BY <2>1, <2>2
<1> QED
  BY <1>1, <1>3, <1>4

\* A step after which there is no more to hear than before.
LEMMA FewerKeeps ==
  ASSUME XhciInv, XhciTypes', UNCHANGED <<hw_slots, upc, uslot, uport, polling>>,
         NEW f,
         \A i \in DOMAIN cmds' : f[i] \in DOMAIN cmds /\ cmds'[i] = cmds[f[i]],
         \A i, j \in DOMAIN cmds' : f[i] = f[j] => i = j,
         DOMAIN event_ring' = DOMAIN event_ring,
         \A j \in DOMAIN event_ring : \A s : RingOk(j, s)' => RingOk(j, s),
         cmd_comp' = cmd_comp, cmd_complete' = cmd_complete
  PROVE  XhciInv'
<1>1. \A i \in DOMAIN cmds' : \A s : Hopes(i, s)' <=> Hopes(f[i], s)
  BY DEF Hopes
<1>2. \A s : CompOk(s)' <=> CompOk(s)
  BY DEF CompOk
<1>3. GivenOut'
  <2>1. \A i \in DOMAIN cmds' : cmds'[i].t # "enable" =>
          /\ cmds'[i].slot \in DOMAIN hw_slots'
          /\ cmds'[i].t = "configure" => hw_slots'[cmds'[i].slot].st # "enabled"
    BY DEF XhciInv, GivenOut
  <2>2. \A j \in DOMAIN event_ring', s \in Nat : RingOk(j, s)' => s \in DOMAIN hw_slots'
    BY DEF XhciInv, GivenOut
  <2>3. cmd_comp'.ok => cmd_comp'.slot \in DOMAIN hw_slots'
    BY DEF XhciInv, GivenOut
  <2> QED
    BY <2>1, <2>2, <2>3, Zenon DEF GivenOut
<1>4. OneAnswer'
  <2> SUFFICES ASSUME NEW s \in DOMAIN hw_slots'
               PROVE  /\ \A i, j \in DOMAIN cmds' : Hopes(i, s)' /\ Hopes(j, s)' => i = j
                      /\ \A i, j \in DOMAIN event_ring' : RingOk(i, s)' /\ RingOk(j, s)' => i = j
                      /\ \A i \in DOMAIN cmds', j \in DOMAIN event_ring' : ~(Hopes(i, s)' /\ RingOk(j, s)')
                      /\ CompOk(s)' => (\A i \in DOMAIN cmds' : ~Hopes(i, s)') /\ (\A j \in DOMAIN event_ring' : ~RingOk(j, s)')
    BY Zenon DEF OneAnswer
  <2>1. /\ \A i, j \in DOMAIN cmds : Hopes(i, s) /\ Hopes(j, s) => i = j
        /\ \A i, j \in DOMAIN event_ring : RingOk(i, s) /\ RingOk(j, s) => i = j
        /\ \A i \in DOMAIN cmds, j \in DOMAIN event_ring : ~(Hopes(i, s) /\ RingOk(j, s))
        /\ CompOk(s) => (\A i \in DOMAIN cmds : ~Hopes(i, s)) /\ (\A j \in DOMAIN event_ring : ~RingOk(j, s))
    BY Zenon DEF XhciInv, OneAnswer
  <2> QED
    BY <1>1, <1>2, <2>1
<1>5. PollsConfigured'
  BY DEF XhciInv, PollsConfigured
<1>6. (Addressing => Addressing') /\ (Addressed => Addressed') /\ (Configuring => Configuring')
  <2>1. (Mine <=> Mine') /\ \A s : GoodAnswer(s)' => GoodAnswer(s)
    BY <1>2 DEF Mine, GoodAnswer
  <2>2. Addressing => Addressing'
    BY <1>1, <2>1 DEF Addressing
  <2>3. Addressed => Addressed'
    BY <1>1, <2>1 DEF Addressed
  <2>4. Configuring => Configuring'
    BY <2>1 DEF Configuring
  <2> QED
    BY <2>2, <2>3, <2>4
<1>7. DriverKnows'
  BY <1>6, Zenon DEF XhciInv, DriverKnows
<1> QED
  BY <1>3, <1>4, <1>5, <1>7 DEF XhciInv

\* An event that is no answer to a command.
LEMMA OtherEventKeeps ==
  ASSUME XhciAssumption, XhciInv, NEW e, Emit(e), e.t # "cmd", e.t = "port" => e.port \in Nat,
         UNCHANGED <<hw_slots, upc, uslot, uport, polling, cmds, cmd_comp, cmd_complete, event_dequeue, pending_enumerate>>
  PROVE  XhciInv'
<1> PICK k : k = hw_enqueue
  OBVIOUS
<1>1. /\ RingTypes' /\ DOMAIN event_ring' = DOMAIN event_ring /\ hw_enqueue' \in 0 .. EvTrbs - 1
      /\ \A j \in DOMAIN event_ring : \A s : RingOk(j, s)' => RingOk(j, s)
  BY EmitAnswers DEF XhciInv
<1>2. XhciTypes'
  BY <1>1 DEF XhciInv, XhciTypes, Commands, Stages
<1> DEFINE f == [i \in DOMAIN cmds |-> i]
<1>3. /\ \A i \in DOMAIN cmds' : f[i] \in DOMAIN cmds /\ cmds'[i] = cmds[f[i]]
      /\ \A i, j \in DOMAIN cmds' : f[i] = f[j] => i = j
  OBVIOUS
<1> HIDE DEF f
<1> QED
  BY <1>1, <1>2, <1>3, FewerKeeps

\* A control transfer.
LEMMA HwControlKeeps ==
  ASSUME XhciAssumption, XhciInv, NEW i, HwControl(i)
  PROVE  XhciInv'
<1>1. PICK ok \in BOOLEAN : Emit([t |-> "xfer", ok |-> ok, slot |-> trbs[i].slot])
  BY DEF HwControl
<1>2. UNCHANGED <<hw_slots, upc, uslot, uport, polling, cmds, cmd_comp, cmd_complete, event_dequeue, pending_enumerate>>
  BY DEF HwControl, HwUnchanged, drvVars, flagVars, evOutVars, devVars
<1> QED
  BY <1>1, <1>2, OtherEventKeeps

\* A report.
LEMMA HwReportKeeps ==
  ASSUME XhciAssumption, XhciInv, NEW i, HwReport(i)
  PROVE  XhciInv'
<1>1. Emit([t |-> "xfer", ok |-> TRUE, slot |-> trbs[i].slot])
  BY DEF HwReport
<1>2. UNCHANGED <<hw_slots, upc, uslot, uport, polling, cmds, cmd_comp, cmd_complete, event_dequeue, pending_enumerate>>
  BY DEF HwReport, HwUnchanged, drvVars, flagVars, evOutVars, devVars
<1> QED
  BY <1>1, <1>2, OtherEventKeeps

\* A device.
LEMMA PlugKeeps ==
  ASSUME XhciAssumption, XhciInv, NEW p \in 1 .. LastPort, Plug(p)
  PROVE  XhciInv'
<1>1. Emit([t |-> "port", port |-> p]) /\ p \in Nat
  BY DEF Plug, XhciAssumption
<1>2. UNCHANGED <<hw_slots, upc, uslot, uport, polling, cmds, cmd_comp, cmd_complete, event_dequeue, pending_enumerate>>
  BY DEF Plug, cmdVars, drvVars, flagVars, evOutVars, devVars
<1> QED
  BY <1>1, <1>2, OtherEventKeeps

\* The entry that is read is read once.
LEMMA DequeueIs ==
  ASSUME XhciAssumption, XhciTypes, Dequeue, NEW k, k = event_dequeue
  PROVE  /\ k \in DOMAIN event_ring /\ DOMAIN event_ring' = DOMAIN event_ring /\ event_dequeue' \in 0 .. EvTrbs - 1
         /\ RingTypes'
         /\ \A j \in DOMAIN event_ring : \A s : RingOk(j, s)' <=> j # k /\ RingOk(j, s)
<1>1. k \in DOMAIN event_ring /\ DOMAIN event_ring = 0 .. EvTrbs - 1 /\ DOMAIN event_ring[k] = {"c", "e"}
  BY DEF XhciTypes, RingTypes
<1>2. event_ring' = [event_ring EXCEPT ![k].e = NoEvent]
  BY DEF Dequeue
<1>3. event_dequeue' \in 0 .. EvTrbs - 1
  <2>1. event_dequeue' = (k + 1) % EvTrbs
    BY DEF Dequeue
  <2>2. k + 1 \in Int /\ EvTrbs \in Nat \ {0}
    BY <1>1 DEF XhciAssumption
  <2> QED
    BY <2>1, <2>2, RemainderInRange
<1>4. DOMAIN event_ring' = DOMAIN event_ring /\ \A j \in DOMAIN event_ring \ {k} : event_ring'[j] = event_ring[j]
  BY <1>2
<1>5. DOMAIN event_ring'[k] = {"c", "e"} /\ event_ring'[k].e = NoEvent
  BY <1>1, <1>2
<1>6. RingTypes'
  <2> SUFFICES ASSUME NEW i \in 0 .. EvTrbs - 1
               PROVE  /\ DOMAIN event_ring'[i] = {"c", "e"}
                      /\ event_ring'[i].e.t = "cmd" => event_ring'[i].e.ok \in BOOLEAN /\ event_ring'[i].e.slot \in Nat
                      /\ event_ring'[i].e.t = "port" => event_ring'[i].e.port \in Nat
    BY <1>1, <1>4 DEF RingTypes
  <2>1. CASE i = k
    BY <1>5, <2>1 DEF NoEvent
  <2>2. CASE i # k
    <3>1. event_ring'[i] = event_ring[i]
      BY <1>1, <1>4, <2>2
    <3> QED
      BY <3>1 DEF XhciTypes, RingTypes
  <2> QED
    BY <2>1, <2>2
<1>7. \A j \in DOMAIN event_ring : \A s : RingOk(j, s)' <=> j # k /\ RingOk(j, s)
  <2> SUFFICES ASSUME NEW j \in DOMAIN event_ring, NEW s
               PROVE  RingOk(j, s)' <=> j # k /\ RingOk(j, s)
    OBVIOUS
  <2>1. CASE j = k
    BY <1>5, <2>1 DEF RingOk, NoEvent
  <2>2. CASE j # k
    <3>1. event_ring'[j] = event_ring[j]
      BY <1>4, <2>2
    <3> QED
      BY <2>2, <3>1 DEF RingOk
  <2> QED
    BY <2>1, <2>2
<1> QED
  BY <1>1, <1>3, <1>4, <1>6, <1>7

\* An answer moves from the ring to the driver, which forgets the one before it.
LEMMA ProcessEventKeeps ==
  ASSUME XhciAssumption, XhciInv, ProcessEvent
  PROVE  XhciInv'
<1> PICK k, e : k = event_dequeue /\ e = event_ring[k].e
  OBVIOUS
<1>1. /\ k \in DOMAIN event_ring /\ DOMAIN event_ring' = DOMAIN event_ring /\ event_dequeue' \in 0 .. EvTrbs - 1
      /\ RingTypes'
      /\ \A j \in DOMAIN event_ring : \A s : RingOk(j, s)' <=> j # k /\ RingOk(j, s)
  BY DequeueIs DEF ProcessEvent, XhciInv
<1>2. UNCHANGED <<hw_slots, upc, uslot, uport, polling, cmds, hw_enqueue>>
  BY DEF ProcessEvent, Dequeue, drvVars, cmdVars, devVars
<1>3. pending_enumerate' \in Nat
  BY <1>1 DEF ProcessEvent, XhciInv, XhciTypes, RingTypes
<1>4. CASE e.t # "cmd"
  <2>1. cmd_comp' = cmd_comp /\ cmd_complete' = cmd_complete
    BY <1>4 DEF ProcessEvent
  <2>2. XhciTypes'
    BY <1>1, <1>2, <1>3, <2>1 DEF XhciInv, XhciTypes, Commands, Stages
  <2> DEFINE f == [i \in DOMAIN cmds |-> i]
  <2>3. /\ \A i \in DOMAIN cmds' : f[i] \in DOMAIN cmds /\ cmds'[i] = cmds[f[i]]
        /\ \A i, j \in DOMAIN cmds' : f[i] = f[j] => i = j
    BY <1>2
  <2> HIDE DEF f
  <2> QED
    BY <1>1, <1>2, <2>1, <2>2, <2>3, FewerKeeps
<1>5. CASE e.t = "cmd"
  <2>1. cmd_comp' = [ok |-> e.ok, slot |-> e.slot] /\ cmd_complete' = TRUE
    BY <1>5 DEF ProcessEvent
  <2>2. e.ok \in BOOLEAN /\ e.slot \in Nat
    BY <1>1, <1>5 DEF XhciInv, XhciTypes, RingTypes
  <2>3. XhciTypes'
    <3>1. cmd_comp' \in [ok : BOOLEAN, slot : Nat] /\ cmd_complete' \in BOOLEAN
      BY <2>1, <2>2
    <3> QED
      BY <1>1, <1>2, <1>3, <3>1 DEF XhciInv, XhciTypes, Commands, Stages
  <2>4. /\ \A i, s : Hopes(i, s)' <=> Hopes(i, s)
        /\ \A s : CompOk(s)' <=> RingOk(k, s)
    <3>1. \A i, s : Hopes(i, s)' <=> Hopes(i, s)
      BY <1>2 DEF Hopes
    <3>2. ASSUME NEW s
          PROVE  CompOk(s)' <=> RingOk(k, s)
      <4>1. cmd_comp'.ok = e.ok /\ cmd_comp'.slot = e.slot
        BY <2>1
      <4>2. RingOk(k, s) <=> e.ok /\ e.slot = s
        BY <1>5, Zenon DEF RingOk
      <4>3. CompOk(s)' <=> e.ok /\ e.slot = s
        BY <2>1, <4>1, Zenon DEF CompOk
      <4> QED
        BY <4>2, <4>3, Zenon
    <3> QED
      BY <3>1, <3>2
  <2>5. GivenOut'
    <3>1. \A i \in DOMAIN cmds' : cmds'[i].t # "enable" =>
            /\ cmds'[i].slot \in DOMAIN hw_slots'
            /\ cmds'[i].t = "configure" => hw_slots'[cmds'[i].slot].st # "enabled"
      BY <1>2 DEF XhciInv, GivenOut
    <3>2. \A j \in DOMAIN event_ring', s \in Nat : RingOk(j, s)' => s \in DOMAIN hw_slots'
      BY <1>1, <1>2 DEF XhciInv, GivenOut
    <3>3. cmd_comp'.ok => cmd_comp'.slot \in DOMAIN hw_slots'
      <4>1. cmd_comp'.ok = e.ok /\ cmd_comp'.slot = e.slot
        BY <2>1
      <4>2. e.ok => RingOk(k, e.slot)
        BY <1>5, Zenon DEF RingOk
      <4>3. e.ok => e.slot \in DOMAIN hw_slots
        BY <1>1, <2>2, <4>2, Zenon DEF XhciInv, GivenOut
      <4> QED
        BY <1>2, <4>1, <4>3
    <3> QED
      BY <3>1, <3>2, <3>3, Zenon DEF GivenOut
  <2>6. OneAnswer'
    <3> SUFFICES ASSUME NEW s \in DOMAIN hw_slots'
                 PROVE  /\ \A i, j \in DOMAIN cmds' : Hopes(i, s)' /\ Hopes(j, s)' => i = j
                        /\ \A i, j \in DOMAIN event_ring' : RingOk(i, s)' /\ RingOk(j, s)' => i = j
                        /\ \A i \in DOMAIN cmds', j \in DOMAIN event_ring' : ~(Hopes(i, s)' /\ RingOk(j, s)')
                        /\ CompOk(s)' => (\A i \in DOMAIN cmds' : ~Hopes(i, s)') /\ (\A j \in DOMAIN event_ring' : ~RingOk(j, s)')
      BY Zenon DEF OneAnswer
    <3>1. /\ \A i, j \in DOMAIN cmds : Hopes(i, s) /\ Hopes(j, s) => i = j
          /\ \A i, j \in DOMAIN event_ring : RingOk(i, s) /\ RingOk(j, s) => i = j
          /\ \A i \in DOMAIN cmds, j \in DOMAIN event_ring : ~(Hopes(i, s) /\ RingOk(j, s))
      BY <1>2, Zenon DEF XhciInv, OneAnswer
    <3> QED
      BY <1>1, <1>2, <2>4, <3>1
  <2>7. PollsConfigured'
    BY <1>2 DEF XhciInv, PollsConfigured
  <2>8. (Addressing => Addressing') /\ (Addressed => Addressed') /\ (Configuring => Configuring')
    <3>1. (Mine <=> Mine') /\ \A s : GoodAnswer(s)' => GoodAnswer(s)
      BY <1>1, <1>2, <2>4 DEF Mine, GoodAnswer
    <3>2. Addressing => Addressing'
      BY <1>2, <2>4, <3>1 DEF Addressing
    <3>3. Addressed => Addressed'
      BY <1>1, <1>2, <2>4, <3>1 DEF Addressed
    <3>4. Configuring => Configuring'
      BY <1>2, <3>1 DEF Configuring
    <3> QED
      BY <3>2, <3>3, <3>4
  <2>9. DriverKnows'
    BY <1>2, <2>8, Zenon DEF XhciInv, DriverKnows
  <2> QED
    BY <2>3, <2>5, <2>6, <2>7, <2>9 DEF XhciInv
<1> QED
  BY <1>4, <1>5

\* What the controller does with the first command.
Refuses(c) ==
  /\ hw_slots' = hw_slots
  /\ \E s : Emit([t |-> "cmd", ok |-> FALSE, slot |-> s]) /\ s \in Nat
Enables(c) ==
  /\ c.t = "enable" /\ Len(hw_slots) < UsbSlots /\ hw_slots' = Append(hw_slots, [st |-> "enabled", port |-> 0])
  /\ Emit([t |-> "cmd", ok |-> TRUE, slot |-> Len(hw_slots) + 1])
CarriesOut(c) ==
  /\ Emit([t |-> "cmd", ok |-> TRUE, slot |-> c.slot])
  /\ \/ /\ c.t = "address" /\ hw_slots[c.slot].st = "enabled"
        /\ hw_slots' = [hw_slots EXCEPT ![c.slot] = [st |-> "addressed", port |-> c.port]]
     \/ /\ c.t = "configure" /\ hw_slots[c.slot].st = "addressed"
        /\ hw_slots' = [hw_slots EXCEPT ![c.slot] = [@ EXCEPT !.st = "configured"]]

\* Those are all.
LEMMA HwCommandIs ==
  ASSUME XhciAssumption, XhciInv, HwCommand, NEW c, c = Head(cmds)
  PROVE  /\ Refuses(c) \/ Enables(c) \/ CarriesOut(c)
         /\ UNCHANGED <<upc, uslot, uport, polling, cmd_comp, cmd_complete, event_dequeue, pending_enumerate>>
         /\ cmds \in Seq(Commands) /\ cmds # << >> /\ cmds' = Tail(cmds)
<1>1. UNCHANGED <<upc, uslot, uport, polling, cmd_comp, cmd_complete, event_dequeue, pending_enumerate>>
  BY DEF HwCommand, HwUnchanged, drvVars, flagVars, evOutVars, devVars
<1>2. cmds \in Seq(Commands) /\ cmds # << >> /\ cmds' = Tail(cmds)
  BY DEF HwCommand, XhciInv, XhciTypes
<1>3. c \in Commands
  BY <1>2
<1>4. c.t \in {"enable", "address", "configure"} /\ (c.t # "enable" => c.slot \in Nat)
  BY <1>3, CommandIs
<1> DEFINE Can == CASE c.t = "enable" -> Len(hw_slots) < UsbSlots
                    [] c.t = "address" -> hw_slots[c.slot].st = "enabled"
                    [] c.t = "configure" -> hw_slots[c.slot].st = "addressed"
<1>5. PICK ok \in {Can, FALSE} :
        /\ hw_slots' = IF ~ok THEN hw_slots
                       ELSE IF c.t = "enable" THEN Append(hw_slots, [st |-> "enabled", port |-> 0])
                       ELSE [hw_slots EXCEPT ![c.slot] =
                              IF c.t = "address" THEN [st |-> "addressed", port |-> c.port]
                              ELSE [@ EXCEPT !.st = "configured"]]
        /\ Emit([t |-> "cmd", ok |-> ok,
                 slot |-> IF c.t # "enable" THEN c.slot ELSE IF ok THEN Len(hw_slots) + 1 ELSE 0])
  BY Zenon DEF HwCommand
<1>6. ok = FALSE \/ ok = Can
  OBVIOUS
<1>7. CASE ok = FALSE
  <2>1. hw_slots' = hw_slots /\ Emit([t |-> "cmd", ok |-> FALSE, slot |-> IF c.t # "enable" THEN c.slot ELSE 0])
    BY <1>5, <1>7
  <2>2. (IF c.t # "enable" THEN c.slot ELSE 0) \in Nat
    BY <1>4
  <2> QED
    BY <1>1, <1>2, <2>1, <2>2, Zenon DEF Refuses
<1>8. CASE ok = TRUE /\ Can /\ c.t = "enable"
  <2>1. Len(hw_slots) < UsbSlots
    BY <1>8
  <2>2. Enables(c)
    BY <1>5, <1>8, <2>1 DEF Enables
  <2> QED
    BY <1>1, <1>2, <2>2
<1>9. CASE ok = TRUE /\ Can /\ c.t = "address"
  <2>1. hw_slots[c.slot].st = "enabled"
    BY <1>9
  <2>2. CarriesOut(c)
    BY <1>5, <1>9, <2>1 DEF CarriesOut
  <2> QED
    BY <1>1, <1>2, <2>2
<1>10. CASE ok = TRUE /\ Can /\ c.t = "configure"
  <2>1. hw_slots[c.slot].st = "addressed"
    BY <1>10
  <2>2. CarriesOut(c)
    BY <1>5, <1>10, <2>1 DEF CarriesOut
  <2> QED
    BY <1>1, <1>2, <2>2
<1>11. Can \in BOOLEAN
  <2>1. CASE c.t = "enable"
    <3>1. Can = (Len(hw_slots) < UsbSlots)
      BY <2>1
    <3>2. Len(hw_slots) \in Nat /\ UsbSlots \in Nat
      BY DEF XhciInv, XhciTypes, XhciAssumption
    <3>3. (Len(hw_slots) < UsbSlots) \in BOOLEAN
      BY <3>2
    <3> QED
      BY <3>1, <3>3
  <2>2. CASE c.t = "address"
    <3>1. Can = (hw_slots[c.slot].st = "enabled")
      BY <2>2
    <3> QED
      BY <3>1
  <2>3. CASE c.t = "configure"
    <3>1. Can = (hw_slots[c.slot].st = "addressed")
      BY <2>3
    <3> QED
      BY <3>1
  <2> QED
    BY <1>4, <2>1, <2>2, <2>3
<1>12. ok = FALSE \/ (ok = TRUE /\ Can)
  <2> HIDE DEF Can
  <2> QED
    BY <1>6, <1>11
<1> QED
  BY <1>4, <1>7, <1>8, <1>9, <1>10, <1>12

\* The commands that are left.
LEMMA TailIs ==
  ASSUME NEW q \in Seq(Commands), q # << >>
  PROVE  /\ Tail(q) \in Seq(Commands) /\ 1 \in DOMAIN q /\ Head(q) = q[1] /\ Head(q) \in Commands
         /\ \A i \in DOMAIN Tail(q) : i + 1 \in DOMAIN q /\ i + 1 # 1 /\ Tail(q)[i] = q[i + 1]
         /\ \A i, j \in DOMAIN Tail(q) : i + 1 = j + 1 => i = j
  OBVIOUS

\* A refusal is no good answer.
LEMMA RefusesKeeps ==
  ASSUME XhciAssumption, XhciInv, HwCommand, NEW c, c = Head(cmds), Refuses(c)
  PROVE  XhciInv'
<1> PICK k, s : k = hw_enqueue /\ s \in Nat /\ Emit([t |-> "cmd", ok |-> FALSE, slot |-> s])
  BY DEF Refuses
<1>1. /\ UNCHANGED <<upc, uslot, uport, polling, cmd_comp, cmd_complete, event_dequeue, pending_enumerate>>
      /\ cmds \in Seq(Commands) /\ cmds # << >> /\ cmds' = Tail(cmds) /\ hw_slots' = hw_slots
  BY HwCommandIs DEF Refuses
<1>2. /\ RingTypes' /\ DOMAIN event_ring' = DOMAIN event_ring /\ hw_enqueue' \in 0 .. EvTrbs - 1
      /\ \A j \in DOMAIN event_ring : \A r : RingOk(j, r)' => RingOk(j, r)
  <2> PICK e : e = [t |-> "cmd", ok |-> FALSE, slot |-> s]
    OBVIOUS
  <2>1. e.t = "cmd" /\ e.ok = FALSE /\ e.slot = s /\ Emit(e)
    OBVIOUS
  <2> QED
    BY <2>1, EmitAnswers DEF XhciInv
<1>3. cmds' \in Seq(Commands)
  BY <1>1, TailIs
<1>4. XhciTypes'
  BY <1>1, <1>2, <1>3 DEF XhciInv, XhciTypes, Commands, Stages
<1> DEFINE f == [i \in DOMAIN cmds' |-> i + 1]
<1>5. /\ \A i \in DOMAIN cmds' : f[i] \in DOMAIN cmds /\ cmds'[i] = cmds[f[i]]
      /\ \A i, j \in DOMAIN cmds' : f[i] = f[j] => i = j
  BY <1>1, TailIs
<1> HIDE DEF f
<1> QED
  BY <1>1, <1>2, <1>4, <1>5, FewerKeeps

\* What a good answer about slot s changes: the first command is gone, and the
\* answer is in the ring.
LEMMA AnswerIs ==
  ASSUME XhciAssumption, XhciInv, HwCommand, NEW s \in Nat, Emit([t |-> "cmd", ok |-> TRUE, slot |-> s]),
         NEW k, k = hw_enqueue
  PROVE  /\ k \in DOMAIN event_ring /\ RingTypes' /\ DOMAIN event_ring' = DOMAIN event_ring
         /\ hw_enqueue' \in 0 .. EvTrbs - 1
         /\ \A j \in DOMAIN event_ring : \A r :
              RingOk(j, r)' <=> IF j = k THEN s = r ELSE RingOk(j, r)
         /\ cmds' \in Seq(Commands) /\ 1 \in DOMAIN cmds /\ Head(cmds) = cmds[1]
         /\ \A i \in DOMAIN cmds' : i + 1 \in DOMAIN cmds /\ i + 1 # 1 /\ cmds'[i] = cmds[i + 1]
         /\ \A i, j \in DOMAIN cmds' : i + 1 = j + 1 => i = j
<1> PICK e : e = [t |-> "cmd", ok |-> TRUE, slot |-> s]
  OBVIOUS
<1>1. e.t = "cmd" /\ e.ok = TRUE /\ e.slot = s /\ Emit(e)
  OBVIOUS
<1>2. /\ RingTypes' /\ DOMAIN event_ring' = DOMAIN event_ring /\ hw_enqueue' \in 0 .. EvTrbs - 1
      /\ \A j \in DOMAIN event_ring : \A r :
           RingOk(j, r)' <=> IF j = k THEN e.t = "cmd" /\ e.ok /\ e.slot = r ELSE RingOk(j, r)
  BY <1>1, EmitAnswers DEF XhciInv
<1>3. k \in DOMAIN event_ring
  BY DEF XhciInv, XhciTypes, RingTypes
<1>4. \A j \in DOMAIN event_ring : \A r : RingOk(j, r)' <=> IF j = k THEN s = r ELSE RingOk(j, r)
  BY <1>1, <1>2
<1>5. cmds \in Seq(Commands) /\ cmds # << >> /\ cmds' = Tail(cmds)
  BY DEF HwCommand, XhciInv, XhciTypes
<1>6. /\ cmds' \in Seq(Commands) /\ 1 \in DOMAIN cmds /\ Head(cmds) = cmds[1]
      /\ \A i \in DOMAIN cmds' : i + 1 \in DOMAIN cmds /\ i + 1 # 1 /\ cmds'[i] = cmds[i + 1]
      /\ \A i, j \in DOMAIN cmds' : i + 1 = j + 1 => i = j
  BY <1>5, TailIs
<1> QED
  BY <1>2, <1>3, <1>4, <1>6

\* A slot is given out.
LEMMA EnablesKeeps ==
  ASSUME XhciAssumption, XhciInv, HwCommand, NEW c, c = Head(cmds), Enables(c)
  PROVE  XhciInv'
<1> PICK k, m : k = hw_enqueue /\ m = Len(hw_slots) + 1
  OBVIOUS
<1> DEFINE D == DOMAIN hw_slots
<1>1. /\ UNCHANGED <<upc, uslot, uport, polling, cmd_comp, cmd_complete, event_dequeue, pending_enumerate>>
      /\ hw_slots' = Append(hw_slots, [st |-> "enabled", port |-> 0])
      /\ Emit([t |-> "cmd", ok |-> TRUE, slot |-> m])
  BY HwCommandIs DEF Enables
<1>2. /\ hw_slots' \in Seq([st : Stages, port : Nat]) /\ DOMAIN hw_slots' = D \cup {m} /\ m \notin D /\ m \in Nat
      /\ \A s \in D : hw_slots'[s] = hw_slots[s] /\ s # m
  <2>1. [st |-> "enabled", port |-> 0] \in [st : Stages, port : Nat]
    BY DEF Stages
  <2>2. hw_slots \in Seq([st : Stages, port : Nat])
    BY DEF XhciInv, XhciTypes
  <2> PICK S, v : S = [st : Stages, port : Nat] /\ v = [st |-> "enabled", port |-> 0]
    OBVIOUS
  <2>3. hw_slots \in Seq(S) /\ v \in S /\ hw_slots' = Append(hw_slots, v)
    BY <1>1, <2>1, <2>2
  <2>4. /\ hw_slots' \in Seq(S) /\ DOMAIN hw_slots' = D \cup {m} /\ m \notin D /\ m \in Nat
        /\ \A s \in D : hw_slots'[s] = hw_slots[s] /\ s # m
    BY <2>3
  <2> QED
    BY <2>4
<1>3. /\ k \in DOMAIN event_ring /\ RingTypes' /\ DOMAIN event_ring' = DOMAIN event_ring
      /\ hw_enqueue' \in 0 .. EvTrbs - 1
      /\ \A j \in DOMAIN event_ring : \A r : RingOk(j, r)' <=> IF j = k THEN m = r ELSE RingOk(j, r)
      /\ cmds' \in Seq(Commands) /\ 1 \in DOMAIN cmds /\ Head(cmds) = cmds[1]
      /\ \A i \in DOMAIN cmds' : i + 1 \in DOMAIN cmds /\ i + 1 # 1 /\ cmds'[i] = cmds[i + 1]
      /\ \A i, j \in DOMAIN cmds' : i + 1 = j + 1 => i = j
  BY <1>1, <1>2, AnswerIs
<1>4. \A s \in D : /\ \A i \in DOMAIN cmds' : Hopes(i, s)' => Hopes(i + 1, s)
                   /\ \A j \in DOMAIN event_ring : RingOk(j, s)' => RingOk(j, s)
                   /\ CompOk(s)' => CompOk(s)
  <2> SUFFICES ASSUME NEW s \in D
               PROVE  /\ \A i \in DOMAIN cmds' : Hopes(i, s)' => Hopes(i + 1, s)
                      /\ \A j \in DOMAIN event_ring : RingOk(j, s)' => RingOk(j, s)
                      /\ CompOk(s)' => CompOk(s)
    OBVIOUS
  <2>1. \A i \in DOMAIN cmds' : Hopes(i, s)' => Hopes(i + 1, s)
    BY <1>2, <1>3 DEF Hopes
  <2>2. \A j \in DOMAIN event_ring : RingOk(j, s)' => RingOk(j, s)
    BY <1>2, <1>3
  <2>3. CompOk(s)' => CompOk(s)
    BY <1>1 DEF CompOk
  <2> QED
    BY <2>1, <2>2, <2>3
<1>5. /\ \A i \in DOMAIN cmds' : ~Hopes(i, m)'
      /\ \A j \in DOMAIN event_ring : RingOk(j, m)' => j = k
      /\ ~CompOk(m)'
  <2>1. \A i \in DOMAIN cmds' : ~Hopes(i, m)'
    BY <1>2, <1>3 DEF Hopes, XhciInv, GivenOut
  <2>2. \A j \in DOMAIN event_ring : RingOk(j, m)' => j = k
    BY <1>2, <1>3 DEF XhciInv, GivenOut
  <2>3. ~CompOk(m)
    BY <1>2 DEF CompOk, XhciInv, GivenOut
  <2>4. ~CompOk(m)'
    BY <1>1, <2>3 DEF CompOk
  <2> QED
    BY <2>1, <2>2, <2>4
<1>6. XhciTypes'
  BY <1>1, <1>2, <1>3 DEF XhciInv, XhciTypes, Commands, Stages
<1>7. GivenOut'
  <2>1. \A i \in DOMAIN cmds' : cmds'[i].t # "enable" =>
          /\ cmds'[i].slot \in DOMAIN hw_slots'
          /\ cmds'[i].t = "configure" => hw_slots'[cmds'[i].slot].st # "enabled"
    BY <1>2, <1>3 DEF XhciInv, GivenOut
  <2>2. \A j \in DOMAIN event_ring', s \in Nat : RingOk(j, s)' => s \in DOMAIN hw_slots'
    BY <1>2, <1>3 DEF XhciInv, GivenOut
  <2>3. cmd_comp'.ok => cmd_comp'.slot \in DOMAIN hw_slots'
    BY <1>1, <1>2 DEF XhciInv, GivenOut
  <2> QED
    BY <2>1, <2>2, <2>3, Zenon DEF GivenOut
<1>8. OneAnswer'
  <2> SUFFICES ASSUME NEW s \in DOMAIN hw_slots'
               PROVE  /\ \A i, j \in DOMAIN cmds' : Hopes(i, s)' /\ Hopes(j, s)' => i = j
                      /\ \A i, j \in DOMAIN event_ring' : RingOk(i, s)' /\ RingOk(j, s)' => i = j
                      /\ \A i \in DOMAIN cmds', j \in DOMAIN event_ring' : ~(Hopes(i, s)' /\ RingOk(j, s)')
                      /\ CompOk(s)' => (\A i \in DOMAIN cmds' : ~Hopes(i, s)') /\ (\A j \in DOMAIN event_ring' : ~RingOk(j, s)')
    BY Zenon DEF OneAnswer
  <2>1. CASE s \in D
    <3>1. /\ \A i, j \in DOMAIN cmds : Hopes(i, s) /\ Hopes(j, s) => i = j
          /\ \A i, j \in DOMAIN event_ring : RingOk(i, s) /\ RingOk(j, s) => i = j
          /\ \A i \in DOMAIN cmds, j \in DOMAIN event_ring : ~(Hopes(i, s) /\ RingOk(j, s))
          /\ CompOk(s) => (\A i \in DOMAIN cmds : ~Hopes(i, s)) /\ (\A j \in DOMAIN event_ring : ~RingOk(j, s))
      BY <2>1, Zenon DEF XhciInv, OneAnswer
    <3> QED
      BY <1>3, <1>4, <2>1, <3>1
  <2>2. CASE s = m
    BY <1>3, <1>5, <2>2
  <2> QED
    BY <1>2, <2>1, <2>2
<1>9. PollsConfigured'
  BY <1>1, <1>2 DEF XhciInv, PollsConfigured
<1>10. DriverKnows'
  <2>1. uslot \in D => (Addressing => Addressing') /\ (Addressed => Addressed') /\ (Configuring => Configuring')
    <3> SUFFICES ASSUME uslot \in D
                 PROVE  (Addressing => Addressing') /\ (Addressed => Addressed') /\ (Configuring => Configuring')
      OBVIOUS
    <3>1. (Mine <=> Mine') /\ (GoodAnswer(uslot)' => GoodAnswer(uslot))
      BY <1>1, <1>2, <1>3, <1>4 DEF Mine, GoodAnswer
    <3>2. Addressing => Addressing'
      BY <1>1, <1>3, <1>4, <3>1 DEF Addressing
    <3>3. Addressed => Addressed'
      BY <1>1, <1>3, <1>4, <3>1 DEF Addressed
    <3>4. Configuring => Configuring'
      BY <1>1, <1>2, <3>1 DEF Configuring
    <3> QED
      BY <3>2, <3>3, <3>4
  <2>2. "address" \in Watched /\ "confep" \in Watched /\ Talking \subseteq Watched
    BY DEF Watched
  <2>3. upc' = upc /\ uslot' = uslot /\ (uslot \in D => uslot' \in DOMAIN hw_slots')
    BY <1>1, <1>2
  <2>4. (upc \in Watched => uslot \in D) /\ (upc = "address" => Addressing) /\ (upc \in Talking => Addressed)
        /\ (upc = "confep" => Configuring)
    BY Zenon DEF XhciInv, DriverKnows
  <2>5. (upc = "address" => upc \in Watched) /\ (upc = "confep" => upc \in Watched) /\ (upc \in Talking => upc \in Watched)
    BY <2>2
  <2> QED
    BY <2>1, <2>3, <2>4, <2>5, Zenon DEF DriverKnows
<1> QED
  BY <1>6, <1>7, <1>8, <1>9, <1>10 DEF XhciInv

\* A slot is addressed, or its endpoint configured: the answer that was hoped for.
LEMMA CarriesOutKeeps ==
  ASSUME XhciAssumption, XhciInv, HwCommand, NEW c, c = Head(cmds), CarriesOut(c)
  PROVE  XhciInv'
<1> PICK k, m, old, new : k = hw_enqueue /\ m = c.slot /\ old = hw_slots[m] /\ new = hw_slots'[m]
  OBVIOUS
<1> DEFINE D == DOMAIN hw_slots
<1>1. /\ UNCHANGED <<upc, uslot, uport, polling, cmd_comp, cmd_complete, event_dequeue, pending_enumerate>>
      /\ Emit([t |-> "cmd", ok |-> TRUE, slot |-> m])
      /\ c \in Commands /\ c = cmds[1] /\ 1 \in DOMAIN cmds
  BY HwCommandIs, TailIs DEF CarriesOut
<1>2. /\ c.t \in {"address", "configure"} /\ (c.t = "address" => c.port \in Nat)
      /\ m \in D /\ m \in Nat /\ old \in [st : Stages, port : Nat]
      /\ c.t = "address" => old.st = "enabled"
      /\ c.t = "configure" => old.st = "addressed"
  <2>1. c.t \in {"address", "configure"}
    BY DEF CarriesOut
  <2>2. m \in D
    BY <1>1, <2>1 DEF XhciInv, GivenOut
  <2>3. (c.t = "address" => old.st = "enabled") /\ (c.t = "configure" => old.st = "addressed")
    BY DEF CarriesOut
  <2>4. c.t = "address" => c.port \in Nat
    BY <1>1, CommandIs
  <2> QED
    BY <2>1, <2>2, <2>3, <2>4, SlotIs DEF XhciInv
<1>3. /\ DOMAIN hw_slots' = D /\ \A s \in D \ {m} : hw_slots'[s] = hw_slots[s]
      /\ new \in [st : Stages, port : Nat] /\ hw_slots' \in Seq([st : Stages, port : Nat])
      /\ c.t = "address" => new.st = "addressed" /\ new.port = c.port
      /\ c.t = "configure" => new.st = "configured" /\ new.port = old.port
  <2>1. CASE c.t = "address"
    <3> PICK v : v = [st |-> "addressed", port |-> c.port]
      OBVIOUS
    <3>1. v \in [st : Stages, port : Nat] /\ v.st = "addressed" /\ v.port = c.port
      BY <1>2, <2>1 DEF Stages
    <3>2. hw_slots' = [hw_slots EXCEPT ![m] = v]
      BY <2>1 DEF CarriesOut
    <3>3. hw_slots \in Seq([st : Stages, port : Nat])
      BY DEF XhciInv, XhciTypes
    <3>4. hw_slots' \in Seq([st : Stages, port : Nat])
      <4>1. \A S : \A q \in Seq(S) : \A i \in DOMAIN q, x \in S : [q EXCEPT ![i] = x] \in Seq(S)
        OBVIOUS
      <4> QED
        BY <1>2, <3>1, <3>2, <3>3, <4>1, Zenon
    <3> QED
      BY <1>2, <2>1, <3>1, <3>2, <3>4
  <2>2. CASE c.t = "configure"
    <3> PICK v : v = [old EXCEPT !.st = "configured"]
      OBVIOUS
    <3>1. v \in [st : Stages, port : Nat] /\ v.st = "configured" /\ v.port = old.port
      BY <1>2 DEF Stages
    <3>2. hw_slots' = [hw_slots EXCEPT ![m] = v]
      BY <2>2 DEF CarriesOut
    <3>3. hw_slots \in Seq([st : Stages, port : Nat])
      BY DEF XhciInv, XhciTypes
    <3>4. hw_slots' \in Seq([st : Stages, port : Nat])
      <4>1. \A S : \A q \in Seq(S) : \A i \in DOMAIN q, x \in S : [q EXCEPT ![i] = x] \in Seq(S)
        OBVIOUS
      <4> QED
        BY <1>2, <3>1, <3>2, <3>3, <4>1, Zenon
    <3> QED
      BY <1>2, <2>2, <3>1, <3>2, <3>4
  <2> QED
    BY <1>2, <2>1, <2>2
<1>4. /\ k \in DOMAIN event_ring /\ RingTypes' /\ DOMAIN event_ring' = DOMAIN event_ring
      /\ hw_enqueue' \in 0 .. EvTrbs - 1
      /\ \A j \in DOMAIN event_ring : \A r : RingOk(j, r)' <=> IF j = k THEN m = r ELSE RingOk(j, r)
      /\ cmds' \in Seq(Commands)
      /\ \A i \in DOMAIN cmds' : i + 1 \in DOMAIN cmds /\ i + 1 # 1 /\ cmds'[i] = cmds[i + 1]
      /\ \A i, j \in DOMAIN cmds' : i + 1 = j + 1 => i = j
  BY <1>1, <1>2, AnswerIs
<1>5. Hopes(1, m)
  BY <1>1, <1>2 DEF Hopes
<1>6. \A s \in D \ {m} : /\ \A i \in DOMAIN cmds' : Hopes(i, s)' => Hopes(i + 1, s)
                         /\ \A j \in DOMAIN event_ring : RingOk(j, s)' => RingOk(j, s)
                         /\ CompOk(s)' => CompOk(s)
  <2> SUFFICES ASSUME NEW s \in D \ {m}
               PROVE  /\ \A i \in DOMAIN cmds' : Hopes(i, s)' => Hopes(i + 1, s)
                      /\ \A j \in DOMAIN event_ring : RingOk(j, s)' => RingOk(j, s)
                      /\ CompOk(s)' => CompOk(s)
    OBVIOUS
  <2>1. \A i \in DOMAIN cmds' : Hopes(i, s)' => Hopes(i + 1, s)
    BY <1>3, <1>4 DEF Hopes
  <2>2. \A j \in DOMAIN event_ring : RingOk(j, s)' => RingOk(j, s)
    BY <1>4
  <2>3. CompOk(s)' => CompOk(s)
    BY <1>1 DEF CompOk
  <2> QED
    BY <2>1, <2>2, <2>3
<1>7. (\A j \in DOMAIN event_ring : ~RingOk(j, m)) /\ ~CompOk(m)
  BY <1>1, <1>2, <1>5, Zenon DEF XhciInv, OneAnswer
<1>8. /\ \A i \in DOMAIN cmds' : ~Hopes(i, m)'
      /\ \A j \in DOMAIN event_ring : RingOk(j, m)' => j = k
      /\ ~CompOk(m)'
  <2>1. ASSUME NEW i \in DOMAIN cmds', Hopes(i, m)'
        PROVE  FALSE
    <3>1. cmds'[i].t # "enable" /\ cmds'[i].slot = m /\ cmds'[i] = cmds[i + 1] /\ i + 1 \in DOMAIN cmds
          /\ new.st = IF cmds'[i].t = "address" THEN "enabled" ELSE "addressed"
      BY <1>4, <2>1 DEF Hopes
    <3>2. cmds'[i].t # "address" /\ c.t = "address"
      BY <1>2, <1>3, <3>1
    <3>3. cmds[i + 1].t = "configure"
      BY <1>4, <3>1, <3>2, CommandIs, ElementOfSeq DEF XhciInv, XhciTypes
    <3>4. old.st # "enabled"
      BY <3>1, <3>3 DEF XhciInv, GivenOut
    <3> QED
      BY <1>2, <3>2, <3>4
  <2>2. \A j \in DOMAIN event_ring : RingOk(j, m)' => j = k
    BY <1>4, <1>7
  <2>3. ~CompOk(m)'
    BY <1>1, <1>7 DEF CompOk
  <2> QED
    BY <2>1, <2>2, <2>3
<1>9. XhciTypes'
  BY <1>1, <1>3, <1>4 DEF XhciInv, XhciTypes, Commands, Stages
<1>10. GivenOut'
  <2>1. \A i \in DOMAIN cmds' : cmds'[i].t # "enable" =>
          /\ cmds'[i].slot \in DOMAIN hw_slots'
          /\ cmds'[i].t = "configure" => hw_slots'[cmds'[i].slot].st # "enabled"
    <3> SUFFICES ASSUME NEW i \in DOMAIN cmds', cmds'[i].t # "enable"
                 PROVE  /\ cmds'[i].slot \in DOMAIN hw_slots'
                        /\ cmds'[i].t = "configure" => hw_slots'[cmds'[i].slot].st # "enabled"
      OBVIOUS
    <3>1. cmds'[i].slot \in D /\ (cmds'[i].t = "configure" => hw_slots[cmds'[i].slot].st # "enabled")
      BY <1>4 DEF XhciInv, GivenOut
    <3>2. new.st # "enabled"
      BY <1>2, <1>3
    <3>3. \A s \in D : hw_slots[s].st # "enabled" => hw_slots'[s].st # "enabled"
      BY <1>3, <3>2
    <3> QED
      BY <1>3, <3>1, <3>3
  <2>2. \A j \in DOMAIN event_ring', s \in Nat : RingOk(j, s)' => s \in DOMAIN hw_slots'
    BY <1>2, <1>3, <1>4 DEF XhciInv, GivenOut
  <2>3. cmd_comp'.ok => cmd_comp'.slot \in DOMAIN hw_slots'
    BY <1>1, <1>3 DEF XhciInv, GivenOut
  <2> QED
    BY <2>1, <2>2, <2>3, Zenon DEF GivenOut
<1>11. OneAnswer'
  <2> SUFFICES ASSUME NEW s \in DOMAIN hw_slots'
               PROVE  /\ \A i, j \in DOMAIN cmds' : Hopes(i, s)' /\ Hopes(j, s)' => i = j
                      /\ \A i, j \in DOMAIN event_ring' : RingOk(i, s)' /\ RingOk(j, s)' => i = j
                      /\ \A i \in DOMAIN cmds', j \in DOMAIN event_ring' : ~(Hopes(i, s)' /\ RingOk(j, s)')
                      /\ CompOk(s)' => (\A i \in DOMAIN cmds' : ~Hopes(i, s)') /\ (\A j \in DOMAIN event_ring' : ~RingOk(j, s)')
    BY Zenon DEF OneAnswer
  <2>1. CASE s \in D \ {m}
    <3>1. /\ \A i, j \in DOMAIN cmds : Hopes(i, s) /\ Hopes(j, s) => i = j
          /\ \A i, j \in DOMAIN event_ring : RingOk(i, s) /\ RingOk(j, s) => i = j
          /\ \A i \in DOMAIN cmds, j \in DOMAIN event_ring : ~(Hopes(i, s) /\ RingOk(j, s))
          /\ CompOk(s) => (\A i \in DOMAIN cmds : ~Hopes(i, s)) /\ (\A j \in DOMAIN event_ring : ~RingOk(j, s))
      BY <2>1 DEF XhciInv, OneAnswer
    <3> QED
      BY <1>4, <1>6, <2>1, <3>1
  <2>2. CASE s = m
    BY <1>4, <1>8, <2>2
  <2> QED
    BY <1>3, <2>1, <2>2
<1>12. PollsConfigured'
  <2>1. \A s \in polling : s \in D /\ hw_slots[s].st = "configured"
    BY DEF XhciInv, PollsConfigured
  <2>2. m \notin polling
    BY <1>2, <2>1
  <2> QED
    BY <1>1, <1>3, <2>1, <2>2 DEF PollsConfigured
<1>13. DriverKnows'
  <2>1. CASE uslot \in D \ {m}
    <3>1. (Mine <=> Mine') /\ (GoodAnswer(uslot)' => GoodAnswer(uslot))
      BY <1>1, <1>3, <1>4, <1>6, <2>1 DEF Mine, GoodAnswer
    <3>2. Addressing => Addressing'
      BY <1>1, <1>4, <1>6, <2>1, <3>1 DEF Addressing
    <3>3. Addressed => Addressed'
      BY <1>1, <1>4, <1>6, <2>1, <3>1 DEF Addressed
    <3>4. Configuring => Configuring'
      BY <1>1, <1>3, <2>1, <3>1 DEF Configuring
    <3>5. upc' = upc /\ uslot' \in DOMAIN hw_slots'
      BY <1>1, <1>3, <2>1
    <3> QED
      BY <3>2, <3>3, <3>4, <3>5, Zenon DEF XhciInv, DriverKnows
  <2>2. CASE uslot = m
    <3>1. upc = "address" => Addressing'
      <4>1. upc = "address" => c.t = "address" /\ c.port = uport
        BY <1>1, <1>5, <2>2 DEF XhciInv, DriverKnows, Addressing
      <4>2. (\A i \in DOMAIN cmds' : ~Hopes(i, m)') /\ uslot' = m
        BY <1>1, <1>8, <2>2
      <4>3. upc = "address" => Mine'
        BY <1>1, <1>3, <2>2, <4>1 DEF Mine
      <4>4. Mine' => Addressing'
        BY <4>2, Zenon DEF Addressing
      <4> QED
        BY <4>3, <4>4
    <3>2. upc \notin Talking
      <4>1. ~Addressed
        BY <1>1, <1>5, <2>2 DEF Addressed
      <4> QED
        BY <4>1, Zenon DEF XhciInv, DriverKnows
    <3>3. upc = "confep" => Configuring'
      <4>1. upc = "confep" => Mine
        BY Zenon DEF XhciInv, DriverKnows, Configuring
      <4>2. Mine => c.t = "configure" /\ old.port = uport
        BY <1>2, <2>2 DEF Mine
      <4>3. Mine => Mine' /\ hw_slots'[uslot'].st = "configured"
        BY <1>1, <1>3, <2>2, <4>2 DEF Mine
      <4> QED
        BY <4>1, <4>3, Zenon DEF Configuring
    <3>4. upc' = upc /\ uslot' \in DOMAIN hw_slots'
      BY <1>1, <1>2, <1>3, <2>2
    <3> QED
      BY <3>1, <3>2, <3>3, <3>4, Zenon DEF DriverKnows
  <2>3. CASE uslot \notin D
    <3>1. upc \notin Watched
      BY <2>3, Zenon DEF XhciInv, DriverKnows
    <3>2. upc' \notin Watched /\ upc' # "address" /\ upc' # "confep" /\ upc' \notin Talking
      BY <1>1, <3>1 DEF Watched
    <3> QED
      BY <3>2, Zenon DEF DriverKnows
  <2> QED
    BY <2>1, <2>2, <2>3
<1> QED
  BY <1>9, <1>10, <1>11, <1>12, <1>13 DEF XhciInv

\* Every step keeps the invariant.
LEMMA XhciInvStep ==
  ASSUME XhciAssumption, XhciInv, [XhciNext]_xhciVars
  PROVE  XhciInv'
<1>1. CASE HwCommand
  BY <1>1, HwCommandIs, RefusesKeeps, EnablesKeeps, CarriesOutKeeps
<1>2. CASE UNCHANGED xhciVars
  BY <1>2, NothingKeeps
<1>3. CASE \E i \in DOMAIN trbs : HwControl(i) \/ HwReport(i)
  BY <1>3, HwControlKeeps, HwReportKeeps
<1>4. CASE (\E s \in Ids, k \in UsbKeys : UsbKey(s, k)) \/ (\E p \in 1 .. LastPort : Plug(p)) \/ \E s \in Ids : GetReport(s)
  BY <1>4, UsbKeyKeeps, PlugKeeps, GetReportKeeps
<1>5. CASE \/ BringUp \/ ProcessEvent \/ PortReset \/ EnableDone \/ AddressDone \/ Flushed \/ NextStage
           \/ ProtocolSet \/ ConfigureDone \/ Timeout \/ ProcessReport \/ Hotplug
  BY <1>5, BringUpKeeps, ProcessEventKeeps, PortResetKeeps, EnableDoneKeeps, AddressDoneKeeps, FlushedKeeps,
     NextStageKeeps, ProtocolSetKeeps, ConfigureDoneKeeps, TimeoutKeeps, ProcessReportKeeps, HotplugKeeps
<1> QED
  BY <1>1, <1>2, <1>3, <1>4, <1>5, Zenon DEF XhciNext

\* However many answers come late, and for whatever number of ports and slots and
\* length of the rings: the driver goes on only with a slot that was addressed for
\* its port, and polls only what was configured (xhci_process_events,
\* xhci_enable_slot, xhci_kbd_start_polling).
THEOREM NoStrangerPolled == XhciSpec => []AnswersAreOwn
<1> USE XhciAssumption
<1>1. XhciInit => XhciInv
  BY XhciInitInv
<1>2. XhciInv /\ [XhciNext]_xhciVars => XhciInv'
  BY XhciInvStep
<1>3. XhciInv => AnswersAreOwn
  <2> SUFFICES ASSUME XhciInv PROVE AnswersAreOwn
    OBVIOUS
  <2>1. upc \in Talking \cup {"confep"} => uslot \in DOMAIN hw_slots /\ Mine
    <3>1. upc \in Talking \cup {"confep"} => upc \in Watched /\ (upc \in Talking \/ upc = "confep")
      BY DEF Watched
    <3> QED
      BY <3>1, Zenon DEF XhciInv, DriverKnows, Addressed, Configuring
  <2>2. \A s \in polling : hw_slots[s].st = "configured"
    BY DEF XhciInv, PollsConfigured
  <2> QED
    BY <2>1, <2>2 DEF AnswersAreOwn, Mine, Talking
<1> QED
  BY <1>1, <1>2, <1>3, PTL DEF XhciSpec
------------------------------------------------------------------------------
(* The keys of a USB keyboard                                               *)

Transfers(P) == [t : {"dev", "cfg9", "cfg", "setconf", "setproto"}, slot : Nat] \cup [t : {"report"}, slot : P]
Kbds == {s \in Ids : is_hid[s]}

\* No good answer about s is known, on its way or still to come; and no report
\* of s is waited for.
Silent(s) ==
  /\ \A i \in DOMAIN cmds : ~Hopes(i, s)
  /\ \A j \in DOMAIN event_ring : ~RingOk(j, s)
  /\ ~CompOk(s)
NoReports(s) == \A i \in DOMAIN trbs : trbs[i].t = "report" => trbs[i].slot # s

\* Only a slot that is known for a keyboard reports, and its number of reports
\* does not start again: an enumeration that takes the slot for a new one is
\* refused, and one that learns of a keyboard has heard no report of it.
KbdsTypes ==
  /\ Len(hw_slots) <= UsbSlots
  /\ is_hid \in [Ids -> BOOLEAN] /\ ready \in [Ids -> BOOLEAN] /\ trbs \in Seq(Transfers(Kbds))
  /\ ukeys \in [Ids -> SUBSET UsbKeys] /\ reported \in [Ids -> SUBSET UsbKeys] /\ buf = reported
Heard == \A s \in Ids : ready[s] \/ dec = s \/ reported[s] # {} => is_hid[s]
GivenSlot(s) == s \in DOMAIN hw_slots /\ hw_slots[s].st # "enabled"
Stage ==
  /\ upc = "address" /\ is_hid[uslot] => Silent(uslot)
  /\ upc \in {"flush", "dev", "cfg9", "cfg"} => ~is_hid[uslot]
  /\ upc \in {"setconf", "setproto", "confep"} =>
       is_hid[uslot] /\ dec # uslot /\ reported[uslot] = {} /\ NoReports(uslot)
KbdsInv == KbdsTypes /\ Heard /\ (\A s \in Ids : is_hid[s] => GivenSlot(s)) /\ Stage

\* The entries of the event ring that the driver has not read.
Unread(i) ==
  IF event_ccs = hw_ccs THEN event_dequeue <= i /\ i < hw_enqueue
  ELSE event_dequeue <= i \/ i < hw_enqueue
Behind ==
  /\ event_ccs = hw_ccs => event_dequeue <= hw_enqueue
  /\ event_ccs # hw_ccs => hw_enqueue < event_dequeue

\* The last entry is made with the bit of an event.  A driver that has read all
\* others takes it for one, and then waits for ever at the first.
Bits ==
  /\ \A i \in 0 .. EvTrbs - 2 : event_ring[i].c = IF i < hw_enqueue THEN hw_ccs ELSE 1 - hw_ccs
  /\ \/ event_ring[EvTrbs - 1].c = 1 - hw_ccs
     \/ event_ring[EvTrbs - 1].c = 1 /\ hw_ccs = 1 /\ event_ccs = 1
  /\ Behind
  /\ \A i \in DOMAIN event_ring : event_ring[i].e.t = "xfer" => Unread(i)
Past ==
  /\ event_dequeue = 0 /\ hw_enqueue = EvTrbs - 1 /\ event_ring[0].c # event_ccs
  /\ \A i \in DOMAIN event_ring : event_ring[i].e.t # "xfer"
CyclesInv == event_ccs \in {0, 1} /\ hw_ccs \in {0, 1} /\ (Bits \/ Past)

\* The report the decoder was given last, and a newer one that is still to be decoded.
Latest == IF dec = 0 THEN {} ELSE buf[dec]
Told(j, s) == event_ring[j].e.t = "xfer" /\ event_ring[j].e.ok /\ event_ring[j].e.slot = s
Undecoded == ready[dec] \/ \E j \in DOMAIN event_ring : Told(j, dec)
DecodeInv ==
  /\ dec \in Ids \cup {0} /\ phase \in {"none", "release", "press", "save"} /\ (phase # "none" => dec # 0)
  /\ phase \in {"none", "release"} => injected \ torn = prev \ torn
  /\ phase = "press" => injected \ torn = (prev \cap Latest) \ torn
  /\ phase = "save" => injected \ torn = Latest \ torn
  /\ phase = "none" => injected \ torn = Latest \ torn \/ (dec # 0 /\ Undecoded)
UsbInv == KbdsInv /\ CyclesInv /\ DecodeInv

\* One step along a ring.
LEMMA NextOnRing ==
  ASSUME NEW n \in Nat \ {0, 1}, NEW i \in 0 .. n - 1
  PROVE  (i + 1) % n = IF i = n - 1 THEN 0 ELSE i + 1
<1>1. CASE i = n - 1
  BY <1>1
<1>2. CASE i # n - 1
  BY <1>2
<1> QED
  BY <1>1, <1>2

\* A bit that is not 0 or 1 less than 1 is the other one.
LEMMA OtherBit ==
  ASSUME NEW b \in {0, 1}
  PROVE  1 - b \in {0, 1} /\ 1 - b # b /\ 1 - (1 - b) = b
  OBVIOUS

\* An entry that is written has the bit of the lap, and comes after the unread ones.
LEMMA EmitCycles ==
  ASSUME XhciAssumption, XhciTypes, CyclesInv, NEW e, Emit(e), UNCHANGED <<event_dequeue, event_ccs>>
  PROVE  CyclesInv'
<1>1. PICK n, d, w, r, h : n = EvTrbs /\ d = event_dequeue /\ w = hw_enqueue /\ r = event_ccs /\ h = hw_ccs
  OBVIOUS
<1>2. /\ n \in Nat \ {0, 1} /\ d \in 0 .. n - 1 /\ w \in 0 .. n - 1 /\ r \in {0, 1} /\ h \in {0, 1}
      /\ DOMAIN event_ring = 0 .. n - 1
  BY <1>1 DEF XhciAssumption, XhciTypes, RingTypes, CyclesInv
<1>3. PICK v, g : v = hw_enqueue' /\ g = hw_ccs'
  OBVIOUS
<1>4. v = (IF w = n - 1 THEN 0 ELSE w + 1) /\ g = (IF v = 0 THEN 1 - h ELSE h) /\ v # d
  BY <1>1, <1>2, <1>3, NextOnRing DEF Emit, EventFits
<1>5. PICK new : new = event_ring'
  OBVIOUS
<1>6. /\ DOMAIN new = 0 .. n - 1 /\ new[w].c = h
      /\ \A i \in 0 .. n - 1 : i # w => new[i] = event_ring[i]
  BY <1>1, <1>2, <1>5 DEF Emit
<1>7. event_dequeue' = d /\ event_ccs' = r
  BY <1>1
<1>8. ~Past
  BY <1>1, <1>2, <1>4 DEF Past
<1>9. /\ \A i \in 0 .. n - 2 : event_ring[i].c = IF i < w THEN h ELSE 1 - h
      /\ event_ring[n - 1].c = 1 - h \/ (event_ring[n - 1].c = 1 /\ h = 1 /\ r = 1)
      /\ r = h => d <= w
      /\ r # h => w < d
      /\ \A i \in 0 .. n - 1 : event_ring[i].e.t = "xfer" => Unread(i)
  BY <1>1, <1>2, <1>8 DEF CyclesInv, Bits, Behind
<1>10. 1 - h \in {0, 1} /\ 1 - h # h /\ g \in {0, 1} /\ 1 - (1 - h) = h
  BY <1>2, <1>4, OtherBit
<1>11. (r = g => d <= v) /\ (r # g => v < d)
  <2>1. CASE w = n - 1
    BY <1>2, <1>4, <1>9, <1>10, <2>1
  <2>2. CASE w # n - 1
    BY <1>2, <1>4, <1>9, <2>2
  <2> QED
    BY <2>1, <2>2
<1>12. ASSUME NEW i \in 0 .. n - 2
       PROVE  new[i].c = IF i < v THEN g ELSE 1 - g
  <2>1. CASE w = n - 1
    <3>1. i # w /\ i < w /\ ~(i < v) /\ i \in 0 .. n - 1 /\ v = 0 /\ g = 1 - h
      BY <1>2, <1>4, <2>1
    <3> QED
      BY <1>6, <1>9, <1>10, <3>1
  <2>2. CASE w # n - 1
    <3>1. v = w + 1 /\ g = h /\ i \in 0 .. n - 1
      BY <1>2, <1>4, <2>2
    <3>2. CASE i = w
      <4>1. i < v
        BY <1>2, <3>1, <3>2
      <4> QED
        BY <1>6, <3>1, <3>2, <4>1
    <3>3. CASE i # w
      <4>1. (i < v) <=> (i < w)
        BY <1>2, <3>1, <3>3
      <4> QED
        BY <1>6, <1>9, <3>1, <3>3, <4>1
    <3> QED
      BY <3>2, <3>3
  <2> QED
    BY <2>1, <2>2
<1>13. new[n - 1].c = 1 - g \/ (new[n - 1].c = 1 /\ g = 1 /\ r = 1)
  <2>1. CASE w = n - 1
    BY <1>4, <1>6, <1>10, <2>1
  <2>2. CASE w # n - 1
    <3>1. g = h /\ n - 1 \in 0 .. n - 1 /\ n - 1 # w
      BY <1>2, <1>4, <2>2
    <3> QED
      BY <1>6, <1>9, <3>1
  <2> QED
    BY <2>1, <2>2
<1>14. ASSUME NEW i \in 0 .. n - 1, new[i].e.t = "xfer"
       PROVE  IF r = g THEN d <= i /\ i < v ELSE d <= i \/ i < v
  <2>1. i = w \/ (IF r = h THEN d <= i /\ i < w ELSE d <= i \/ i < w)
    BY <1>1, <1>6, <1>9, <1>14 DEF Unread
  <2>2. CASE w = n - 1
    <3>1. v = 0 /\ g = 1 - h /\ r = h /\ d <= w
      BY <1>2, <1>4, <1>9, <2>2
    <3> QED
      BY <1>2, <1>10, <2>1, <3>1
  <2>3. CASE w # n - 1
    <3>1. v = w + 1 /\ g = h
      BY <1>2, <1>4, <2>3
    <3> QED
      BY <1>2, <1>9, <2>1, <3>1
  <2> QED
    BY <2>2, <2>3
<1>15. Bits'
  BY <1>1, <1>3, <1>5, <1>6, <1>7, <1>11, <1>12, <1>13, <1>14 DEF Bits, Behind, Unread
<1> QED
  BY <1>2, <1>3, <1>7, <1>10, <1>15 DEF CyclesInv

\* An entry that is read is the first of the unread ones, or the one that was
\* made with the bit of an event.
LEMMA DequeueCycles ==
  ASSUME XhciAssumption, XhciTypes, CyclesInv, Dequeue
  PROVE  CyclesInv'
<1>1. PICK n, d, w, r, h : n = EvTrbs /\ d = event_dequeue /\ w = hw_enqueue /\ r = event_ccs /\ h = hw_ccs
  OBVIOUS
<1>2. /\ n \in Nat \ {0, 1} /\ d \in 0 .. n - 1 /\ w \in 0 .. n - 1 /\ r \in {0, 1} /\ h \in {0, 1}
      /\ DOMAIN event_ring = 0 .. n - 1 /\ \A i \in 0 .. n - 1 : DOMAIN event_ring[i] = {"c", "e"}
  BY <1>1 DEF XhciAssumption, XhciTypes, RingTypes, CyclesInv
<1>3. PICK a, b : a = event_dequeue' /\ b = event_ccs'
  OBVIOUS
<1>4. a = (IF d = n - 1 THEN 0 ELSE d + 1) /\ b = (IF a = 0 THEN 1 - r ELSE r) /\ event_ring[d].c = r
  BY <1>1, <1>2, <1>3, NextOnRing DEF Dequeue, EventReady
<1>5. PICK new : new = event_ring'
  OBVIOUS
<1>6. /\ DOMAIN new = 0 .. n - 1 /\ new[d].e.t = "none" /\ new[d].c = event_ring[d].c
      /\ \A i \in 0 .. n - 1 : i # d => new[i] = event_ring[i]
  <2>1. new = [event_ring EXCEPT ![d].e = NoEvent]
    BY <1>1, <1>5 DEF Dequeue
  <2>2. new[d] = [event_ring[d] EXCEPT !.e = NoEvent]
    BY <1>2, <2>1
  <2>3. new[d].e = NoEvent /\ new[d].c = event_ring[d].c
    BY <1>2, <2>2
  <2> QED
    BY <1>2, <2>1, <2>3 DEF NoEvent
<1>7. hw_enqueue' = w /\ hw_ccs' = h
  BY <1>1 DEF Dequeue
<1>8. ~Past
  BY <1>1, <1>4 DEF Past
<1>9. /\ \A i \in 0 .. n - 2 : event_ring[i].c = IF i < w THEN h ELSE 1 - h
      /\ event_ring[n - 1].c = 1 - h \/ (event_ring[n - 1].c = 1 /\ h = 1 /\ r = 1)
      /\ r = h => d <= w
      /\ r # h => w < d
      /\ \A i \in 0 .. n - 1 : event_ring[i].e.t = "xfer" => Unread(i)
  BY <1>1, <1>2, <1>8 DEF CyclesInv, Bits, Behind
<1>10. 1 - r \in {0, 1} /\ 1 - r # r /\ 1 - h # h /\ b \in {0, 1}
  BY <1>2, <1>4, OtherBit
<1>11. \A i \in 0 .. n - 1 : new[i].c = event_ring[i].c /\ (new[i].e.t = "xfer" => i # d /\ event_ring[i].e.t = "xfer")
  BY <1>2, <1>6
<1>12. CASE r = h /\ d = w
  <2>1. d = n - 1 /\ h = 1
    <3>1. CASE d \in 0 .. n - 2
      BY <1>4, <1>9, <1>10, <1>12, <3>1
    <3>2. CASE d \notin 0 .. n - 2
      <4>1. d = n - 1
        BY <1>2, <3>2
      <4> QED
        BY <1>4, <1>9, <1>10, <1>12, <4>1
    <3> QED
      BY <3>1, <3>2
  <2>2. a = 0 /\ b = 1 - r /\ 0 \in 0 .. n - 2 /\ 0 < w /\ 0 \in 0 .. n - 1
    BY <1>2, <1>4, <1>12, <2>1
  <2>3. new[0].c = h
    BY <1>9, <1>11, <2>2
  <2>4. \A i \in 0 .. n - 1 : new[i].e.t # "xfer"
    <3> SUFFICES ASSUME NEW i \in 0 .. n - 1, new[i].e.t = "xfer" PROVE FALSE
      OBVIOUS
    <3>1. d <= i /\ i < w
      BY <1>1, <1>9, <1>11, <1>12 DEF Unread
    <3> QED
      BY <1>2, <1>12, <3>1
  <2>5. new[0].c # b
    BY <1>10, <1>12, <2>2, <2>3
  <2>6. Past'
    BY <1>1, <1>3, <1>5, <1>6, <1>7, <1>12, <2>1, <2>2, <2>4, <2>5 DEF Past
  <2> QED
    BY <1>2, <1>3, <1>7, <1>10, <2>6 DEF CyclesInv
<1>13. CASE ~(r = h /\ d = w)
  <2>1. (b = h => a <= w) /\ (b # h => w < a)
    <3>1. CASE d = n - 1
      <4>1. a = 0 /\ b = 1 - r /\ (r = h => d < w)
        BY <1>2, <1>4, <1>9, <1>13, <3>1
      <4>2. r # h
        BY <1>2, <3>1, <4>1
      <4>3. b = h
        BY <1>2, <4>1, <4>2
      <4> QED
        BY <1>2, <4>1, <4>3
    <3>2. CASE d # n - 1
      <4>1. a = d + 1 /\ b = r
        BY <1>2, <1>4, <3>2
      <4> QED
        BY <1>2, <1>9, <1>13, <4>1
    <3> QED
      BY <3>1, <3>2
  <2>2. new[n - 1].c = 1 - h \/ (new[n - 1].c = 1 /\ h = 1 /\ b = 1)
    <3>1. n - 1 \in 0 .. n - 1
      BY <1>2
    <3>2. CASE d = n - 1
      <4>1. r # h
        BY <1>2, <1>9, <1>13, <3>2
      <4> QED
        BY <1>9, <1>11, <3>1, <4>1
    <3>3. CASE d # n - 1
      <4>1. b = r
        BY <1>2, <1>4, <3>3
      <4> QED
        BY <1>9, <1>11, <3>1, <4>1
    <3> QED
      BY <3>2, <3>3
  <2>3. ASSUME NEW i \in 0 .. n - 1, new[i].e.t = "xfer"
        PROVE  IF b = h THEN a <= i /\ i < w ELSE a <= i \/ i < w
    <3>1. i # d /\ (IF r = h THEN d <= i /\ i < w ELSE d <= i \/ i < w)
      BY <1>1, <1>9, <1>11, <2>3 DEF Unread
    <3>2. CASE d = n - 1
      <4>1. a = 0 /\ r # h /\ b = 1 - r
        BY <1>2, <1>4, <1>9, <1>13, <3>2
      <4>2. b = h
        BY <1>2, <4>1
      <4> QED
        BY <1>2, <3>1, <3>2, <4>1, <4>2
    <3>3. CASE d # n - 1
      <4>1. a = d + 1 /\ b = r
        BY <1>2, <1>4, <3>3
      <4> QED
        BY <1>2, <3>1, <4>1
    <3> QED
      BY <3>2, <3>3
  <2>4. \A i \in 0 .. n - 2 : new[i].c = IF i < w THEN h ELSE 1 - h
    <3> SUFFICES ASSUME NEW i \in 0 .. n - 2 PROVE new[i].c = IF i < w THEN h ELSE 1 - h
      OBVIOUS
    <3>1. i \in 0 .. n - 1
      BY <1>2
    <3> QED
      BY <1>9, <1>11, <3>1
  <2>5. Bits'
    BY <1>1, <1>3, <1>5, <1>6, <1>7, <2>1, <2>2, <2>3, <2>4 DEF Bits, Behind, Unread
  <2> QED
    BY <1>2, <1>3, <1>7, <1>10, <2>5 DEF CyclesInv
<1> QED
  BY <1>12, <1>13

\* A driver that finds no event has read every one.
LEMMA NoneUnread ==
  ASSUME XhciAssumption, XhciTypes, CyclesInv, ~EventReady, NEW j \in DOMAIN event_ring
  PROVE  event_ring[j].e.t # "xfer"
<1> SUFFICES ASSUME event_ring[j].e.t = "xfer" PROVE FALSE
  OBVIOUS
<1>1. PICK n, d, w, r, h : n = EvTrbs /\ d = event_dequeue /\ w = hw_enqueue /\ r = event_ccs /\ h = hw_ccs
  OBVIOUS
<1>2. /\ n \in Nat \ {0, 1} /\ d \in 0 .. n - 1 /\ w \in 0 .. n - 1 /\ r \in {0, 1} /\ h \in {0, 1}
      /\ DOMAIN event_ring = 0 .. n - 1
  BY <1>1 DEF XhciAssumption, XhciTypes, RingTypes, CyclesInv
<1>3. Bits
  BY DEF CyclesInv, Past
<1>4. IF r = h THEN d <= j /\ j < w ELSE d <= j \/ j < w
  BY <1>1, <1>3 DEF Bits, Unread
<1>5. (r = h => d <= w) /\ (r # h => w < d)
  BY <1>1, <1>3 DEF Bits, Behind
<1>6. event_ring[d].c # r
  BY <1>1 DEF EventReady
<1>7. CASE d \in 0 .. n - 2
  <2>1. event_ring[d].c = IF d < w THEN h ELSE 1 - h
    BY <1>1, <1>3, <1>7 DEF Bits
  <2>2. CASE r = h
    BY <1>2, <1>4, <1>6, <2>1, <2>2
  <2>3. CASE r # h
    BY <1>2, <1>5, <1>6, <2>1, <2>3
  <2> QED
    BY <2>2, <2>3
<1>8. CASE d \notin 0 .. n - 2
  <2>1. d = n - 1
    BY <1>2, <1>8
  <2>2. event_ring[d].c = 1 - h \/ (event_ring[d].c = 1 /\ h = 1 /\ r = 1)
    BY <1>1, <1>3, <2>1 DEF Bits
  <2>3. r # h
    BY <1>2, <1>4, <2>1
  <2> QED
    BY <1>2, <1>6, <2>2, <2>3
<1> QED
  BY <1>7, <1>8
\* A transfer that is laid, and one that is done.
LEMMA LaidTransfers ==
  ASSUME NEW T, trbs \in Seq(T), NEW x \in T, NEW n, Lay(x, n)
  PROVE  trbs' \in Seq(T)
  BY DEF Lay

LEMMA DoneTransfers ==
  ASSUME NEW T, trbs \in Seq(T), NEW i \in DOMAIN trbs
  PROVE  RemoveAt(trbs, i) \in Seq(T)
<1> PICK q : q = trbs
  OBVIOUS
<1>1. q \in Seq(T) /\ i \in 1 .. Len(q) /\ Len(q) \in Nat
  OBVIOUS
<1>2. SubSeq(q, 1, i - 1) \in Seq(T)
  BY <1>1
<1>3. SubSeq(q, i + 1, Len(q)) \in Seq(T)
  BY <1>1
<1>4. SubSeq(q, 1, i - 1) \o SubSeq(q, i + 1, Len(q)) \in Seq(T)
  BY <1>2, <1>3
<1> QED
  BY <1>4 DEF RemoveAt

\* A control transfer is one of a step of the enumeration, a report's of a keyboard.
LEMMA TransferIs ==
  ASSUME NEW P, NEW x \in Transfers(P)
  PROVE  x.t = "report" => x.slot \in P
  BY DEF Transfers

LEMMA ReportsOf ==
  ASSUME UsbInv, NEW i \in DOMAIN trbs, trbs[i].t = "report"
  PROVE  trbs[i].slot \in Kbds
<1>1. trbs \in Seq(Transfers(Kbds)) /\ i \in 1 .. Len(trbs)
  BY DEF UsbInv, KbdsInv, KbdsTypes
<1>2. trbs[i] \in Transfers(Kbds)
  BY <1>1, ElementOfSeq, Zenon
<1> QED
  BY <1>2, TransferIs

\* The slots are those of the controller.
LEMMA SlotsAreIds ==
  ASSUME XhciAssumption, XhciInv, UsbInv
  PROVE  /\ DOMAIN hw_slots \subseteq Ids
         /\ upc \in Watched => uslot \in Ids
<1>1. hw_slots \in Seq([st : Stages, port : Nat]) /\ Len(hw_slots) <= UsbSlots /\ UsbSlots \in Nat
  BY DEF XhciInv, XhciTypes, UsbInv, KbdsInv, KbdsTypes, XhciAssumption
<1>2. DOMAIN hw_slots \subseteq Ids
  BY <1>1 DEF Ids
<1>3. upc \in Watched => uslot \in Ids
  BY <1>2, Zenon DEF XhciInv, DriverKnows
<1> QED
  BY <1>2, <1>3

\* A transfer that is laid is the only new one.
LEMMA LaidReports ==
  ASSUME NEW T, trbs \in Seq(T), NEW x \in T, NEW n, Lay(x, n), NEW s, NoReports(s), x.t = "report" => x.slot # s
  PROVE  NoReports(s)'
<1>1. CASE trbs' = trbs
  BY <1>1 DEF NoReports
<1>2. CASE trbs' = Append(trbs, x)
  <2>1. \A i \in DOMAIN trbs' : (i \in DOMAIN trbs /\ trbs'[i] = trbs[i]) \/ trbs'[i] = x
    BY <1>2
  <2> QED
    BY <2>1 DEF NoReports
<1> QED
  BY <1>1, <1>2 DEF Lay

LEMMA DoneReports ==
  ASSUME NEW T, trbs \in Seq(T), NEW i \in DOMAIN trbs, trbs' = RemoveAt(trbs, i), NEW s, NoReports(s)
  PROVE  NoReports(s)'
<1> PICK q, r : q = trbs /\ r = trbs'
  OBVIOUS
<1>1. q \in Seq(T) /\ i \in 1 .. Len(q) /\ Len(q) \in Nat
  OBVIOUS
<1>2. r = SubSeq(q, 1, i - 1) \o SubSeq(q, i + 1, Len(q))
  BY DEF RemoveAt
<1>3. \A j \in DOMAIN r : \E k \in DOMAIN q : r[j] = q[k]
  <2> SUFFICES ASSUME NEW j \in DOMAIN r PROVE \E k \in DOMAIN q : r[j] = q[k]
    OBVIOUS
  <2> PICK a, z : a = SubSeq(q, 1, i - 1) /\ z = SubSeq(q, i + 1, Len(q))
    OBVIOUS
  <2>1. a \in Seq(T) /\ Len(a) = i - 1 /\ \A k \in 1 .. i - 1 : a[k] = q[k]
    BY <1>1
  <2>2. z \in Seq(T) /\ Len(z) = Len(q) - i /\ \A k \in 1 .. Len(q) - i : z[k] = q[k + i]
    BY <1>1
  <2>3. r = a \o z
    BY <1>2
  <2>4. /\ DOMAIN r = 1 .. Len(a) + Len(z)
        /\ \A k \in DOMAIN r : r[k] = IF k <= Len(a) THEN a[k] ELSE z[k - Len(a)]
    <3>1. /\ a \o z \in Seq(T) /\ Len(a \o z) = Len(a) + Len(z)
          /\ \A k \in 1 .. Len(a) + Len(z) : (a \o z)[k] = IF k <= Len(a) THEN a[k] ELSE z[k - Len(a)]
      <4>1. a \in Seq(T) /\ z \in Seq(T)
        BY <2>1, <2>2
      <4> QED
        BY ONLY <4>1, ConcatProperties, Zenon
    <3>2. DOMAIN (a \o z) = 1 .. Len(a) + Len(z)
      BY <3>1
    <3> QED
      BY <2>3, <3>1, <3>2, Zenon
  <2>5. j \in 1 .. Len(q) - 1 /\ i \in 1 .. Len(q) /\ Len(q) \in Nat
    BY <1>1, <2>1, <2>2, <2>4
  <2>6. CASE j <= i - 1
    <3>1. j <= Len(a) /\ j \in 1 .. i - 1
      BY <2>1, <2>5, <2>6
    <3>2. j \in DOMAIN q
      BY <1>1, <2>5
    <3> QED
      BY <2>1, <2>4, <3>1, <3>2, Zenon
  <2>7. CASE j > i - 1
    <3> PICK k : k = j - Len(a)
      OBVIOUS
    <3>1. k \in 1 .. Len(q) - i /\ k + i \in 1 .. Len(q) /\ ~(j <= Len(a)) /\ DOMAIN q = 1 .. Len(q)
      <4>1. Len(a) = i - 1 /\ k = j - Len(a)
        BY <2>1
      <4>2. DOMAIN q = 1 .. Len(q)
        BY <1>1
      <4>3. k \in 1 .. Len(q) - i /\ k + i \in 1 .. Len(q) /\ ~(j <= Len(a))
        BY ONLY <2>5, <2>7, <4>1
      <4> QED
        BY <4>2, <4>3, Zenon
    <3>2. r[j] = z[k]
      BY <2>4, <3>1, Zenon
    <3> QED
      BY <2>2, <3>1, <3>2, Zenon
  <2> QED
    BY <2>5, <2>6, <2>7
<1> QED
  BY <1>3 DEF NoReports

\* A step of the driver that leaves the rings of the controller alone.
DrvStep ==
  /\ UNCHANGED <<hw_slots, event_ring, event_dequeue, event_ccs, hw_enqueue, hw_ccs, cmd_comp,
                 ukeys, reported, buf, prev, injected, phase, dec, torn, ready>>
  /\ cmd_complete' = cmd_complete \/ cmd_complete' = FALSE
SlotStep ==
  /\ is_hid' \in [Ids -> BOOLEAN] /\ trbs' \in Seq(Transfers(Kbds'))
  /\ \A s \in Ids : (is_hid[s] => is_hid'[s]) /\ (is_hid'[s] => is_hid[s] \/ GivenSlot(s))
  /\ Stage'

LEMMA DrvStepKeeps ==
  ASSUME UsbInv, DrvStep, SlotStep
  PROVE  UsbInv'
<1>1. KbdsTypes'
  BY DEF UsbInv, KbdsInv, KbdsTypes, DrvStep, SlotStep
<1>2. Heard' /\ (\A s \in Ids : is_hid'[s] => GivenSlot(s)')
  BY DEF UsbInv, KbdsInv, Heard, GivenSlot, DrvStep, SlotStep
<1>3. CyclesInv'
  BY DEF UsbInv, DrvStep, CyclesInv, Bits, Past, Behind, Unread
<1>4. DecodeInv'
  BY DEF UsbInv, DrvStep, DecodeInv, Latest, Undecoded, Told
<1> QED
  BY <1>1, <1>2, <1>3, <1>4, Zenon DEF UsbInv, KbdsInv, SlotStep

\* A step that lays no transfer and learns of no keyboard.
LEMMA PlainStep ==
  ASSUME UsbInv, UNCHANGED <<is_hid, trbs>>, Stage'
  PROVE  SlotStep
<1>1. is_hid' \in [Ids -> BOOLEAN] /\ trbs' \in Seq(Transfers(Kbds'))
  BY DEF UsbInv, KbdsInv, KbdsTypes, Kbds
<1> QED
  BY <1>1 DEF SlotStep

LEMMA IdleStage ==
  ASSUME upc' \notin Watched
  PROVE  Stage'
<1>1. upc' # "address" /\ upc' \notin {"flush", "dev", "cfg9", "cfg"} /\ upc' \notin {"setconf", "setproto", "confep"}
  BY DEF Watched, Talking
<1> QED
  BY <1>1, Zenon DEF Stage

LEMMA GivesUpPlainly ==
  ASSUME GiveUp
  PROVE  upc' \notin Watched
<1>1. upc' \in {"port", "main"}
  BY DEF GiveUp
<1> QED
  BY <1>1 DEF Watched, Talking

\* xhci_init, the first step of a scan, and one that the main loop asks for.
LEMMA BringUpFollows ==
  ASSUME UsbInv, BringUp
  PROVE  UsbInv'
<1>1. upc' \notin Watched
  BY DEF BringUp, Watched, Talking
<1>2. DrvStep /\ UNCHANGED <<is_hid, trbs>>
  BY DEF BringUp, DrvStep, flagVars, evInVars, evOutVars, xferVars, devVars, keysVars, hidVars
<1> QED
  BY <1>1, <1>2, IdleStage, PlainStep, DrvStepKeeps

LEMMA PortResetFollows ==
  ASSUME UsbInv, PortReset
  PROVE  UsbInv'
<1>1. upc' \notin Watched /\ (cmd_complete' = cmd_complete \/ cmd_complete' = FALSE)
  <2>1. "enable" \notin Watched
    BY DEF Watched, Talking
  <2> QED
    BY <2>1, GivesUpPlainly DEF PortReset, Goes
<1>2. DrvStep /\ UNCHANGED <<is_hid, trbs>>
  BY <1>1 DEF PortReset, DrvUnchanged, DrvStep, evInVars, evOutVars, devVars, keysVars, hidVars
<1> QED
  BY <1>1, <1>2, IdleStage, PlainStep, DrvStepKeeps

LEMMA HotplugFollows ==
  ASSUME UsbInv, Hotplug
  PROVE  UsbInv'
<1>1. upc' \notin Watched
  BY DEF Hotplug, Watched, Talking
<1>2. DrvStep /\ UNCHANGED <<is_hid, trbs>>
  BY DEF Hotplug, DrvStep, evInVars, evOutVars, xferVars, devVars, keysVars, hidVars
<1> QED
  BY <1>1, <1>2, IdleStage, PlainStep, DrvStepKeeps

LEMMA NothingFollows ==
  ASSUME UsbInv, UNCHANGED xhciVars
  PROVE  UsbInv'
<1>1. /\ DrvStep /\ UNCHANGED <<is_hid, trbs, upc, uslot, cmds, cmd_complete>>
  BY DEF xhciVars, DrvStep, drvVars, cmdVars, flagVars, evInVars, evOutVars, xferVars, devVars, keysVars, hidVars
<1>2. (\A s : Silent(s) => Silent(s)') /\ (\A s : NoReports(s) => NoReports(s)')
  <2>1. \A i, s : Hopes(i, s)' <=> Hopes(i, s)
    BY <1>1 DEF Hopes, DrvStep
  <2>2. \A i, s : RingOk(i, s)' <=> RingOk(i, s)
    BY <1>1 DEF RingOk, DrvStep
  <2>3. \A s : CompOk(s)' <=> CompOk(s)
    BY <1>1 DEF CompOk, DrvStep
  <2> QED
    BY <1>1, <2>1, <2>2, <2>3 DEF Silent, NoReports, DrvStep
<1>3. Stage'
  BY <1>1, <1>2 DEF UsbInv, KbdsInv, Stage, DrvStep
<1> QED
  BY <1>1, <1>3, PlainStep, DrvStepKeeps

\* A slot that is taken and is a keyboard's already will not be addressed again.
LEMMA EnableDoneFollows ==
  ASSUME XhciAssumption, XhciInv, UsbInv, EnableDone
  PROVE  UsbInv'
<1>1. /\ UNCHANGED <<is_hid, trbs, cmd_comp, hw_slots, event_ring, event_dequeue, hw_enqueue, pending_enumerate, polling>>
      /\ upc = "enable" /\ cmd_complete
  BY DEF EnableDone, Answered, DrvUnchanged, evInVars, evOutVars, devVars
<1>2. cmd_complete' = cmd_complete \/ cmd_complete' = FALSE
  BY DEF EnableDone
<1>3. DrvStep
  BY <1>2 DEF EnableDone, DrvUnchanged, DrvStep, evInVars, evOutVars, devVars, keysVars, hidVars
<1>4. CASE GiveUp
  BY <1>1, <1>3, <1>4, GivesUpPlainly, IdleStage, PlainStep, DrvStepKeeps
<1> PICK s : s = cmd_comp.slot
  OBVIOUS
<1>5. CASE /\ cmd_comp.ok /\ uslot' = s /\ upc' = "address" /\ cmd_complete' = FALSE /\ UNCHANGED uport
           /\ Post([t |-> "address", slot |-> s, port |-> uport])
  <2> PICK c, n : c = [t |-> "address", slot |-> s, port |-> uport] /\ n = Len(cmds) + 1
    OBVIOUS
  <2>1. s \in DOMAIN hw_slots /\ s \in Nat /\ Unanswered(s) /\ s \in Ids
    <3>1. CompOk(s)
      BY <1>1, <1>5, Zenon DEF CompOk
    <3> QED
      BY <3>1, OnlyAnswer, SlotsAreIds
  <2>2. c \in Commands
    BY <2>1 DEF Commands, XhciInv, XhciTypes
  <2>3. Posts(c)
    BY <1>1, <1>5 DEF Posts, Post, XhciInv, XhciTypes
  <2>4. /\ DOMAIN cmds' = DOMAIN cmds \cup {n} /\ cmds'[n] = c
        /\ \A i \in DOMAIN cmds : Hopes(i, s)' <=> Hopes(i, s)
        /\ \A j : RingOk(j, s)' <=> RingOk(j, s)
        /\ ~CompOk(s)'
    BY <2>2, <2>3, PostAnswers, ZenonT(60)
  <2>5. ASSUME is_hid[s]
        PROVE  Silent(s)'
    <3>1. hw_slots'[s].st # "enabled"
      BY <1>1, <2>1, <2>5 DEF UsbInv, KbdsInv, GivenSlot
    <3>2. ~Hopes(n, s)'
      BY <2>4, <3>1 DEF Hopes
    <3> QED
      BY <1>1, <2>1, <2>4, <3>2 DEF Silent, Unanswered
  <2>6. Stage'
    BY <1>1, <1>5, <2>5 DEF Stage
  <2> QED
    BY <1>1, <1>3, <2>6, PlainStep, DrvStepKeeps
<1> QED
  BY <1>4, <1>5, Zenon DEF EnableDone

\* So one that has been addressed is none of a keyboard yet.
LEMMA AddressDoneFollows ==
  ASSUME UsbInv, AddressDone
  PROVE  UsbInv'
<1>1. DrvStep /\ UNCHANGED <<is_hid, trbs>> /\ upc = "address"
  BY DEF AddressDone, DrvUnchanged, DrvStep, evInVars, evOutVars, devVars, xferVars, keysVars, hidVars
<1>2. CASE GiveUp
  BY <1>1, <1>2, GivesUpPlainly, IdleStage, PlainStep, DrvStepKeeps
<1>3. CASE OwnAnswer(uslot) /\ upc' = "flush" /\ uslot' = uslot
  <2>1. CompOk(uslot)
    BY <1>3, Zenon DEF AddressDone, Answered, OwnAnswer, CompOk
  <2>2. ~is_hid[uslot]
    BY <1>1, <2>1 DEF UsbInv, KbdsInv, Stage, Silent
  <2>3. Stage'
    BY <1>1, <1>3, <2>2 DEF Stage
  <2> QED
    BY <1>1, <2>3, PlainStep, DrvStepKeeps
<1> QED
  BY <1>2, <1>3 DEF AddressDone, Goes

\* A control transfer of the slot that is enumerated.
LEMMA ControlStep ==
  ASSUME XhciAssumption, XhciInv, UsbInv, NEW step \in Talking \ {"flush"}, NEW n, Control(step, n),
         upc \in Talking, NEW K, K = Kbds', \A s \in Ids : is_hid[s] => is_hid'[s]
  PROVE  /\ trbs' \in Seq(Transfers(K)) /\ upc' = step /\ uslot' = uslot /\ uslot \in Ids
         /\ uslot \in DOMAIN hw_slots /\ hw_slots[uslot].st # "enabled"
         /\ \A s : NoReports(s) => NoReports(s)'
<1>1. /\ upc' = step /\ uslot' = uslot /\ Lay([t |-> step, slot |-> uslot], n)
      /\ upc \in Watched
  BY DEF Control, Goes, Watched
<1>2. uslot \in Ids /\ uslot \in DOMAIN hw_slots /\ hw_slots[uslot].st # "enabled"
  BY <1>1, SlotsAreIds, Zenon DEF XhciInv, DriverKnows, Addressed, Mine
<1>3. step \in {"dev", "cfg9", "cfg", "setconf", "setproto"} /\ uslot \in Nat
  BY <1>2 DEF Talking, Ids
<1> PICK S, T, x : S = Transfers(Kbds) /\ T = Transfers(K) /\ x = [t |-> step, slot |-> uslot]
  OBVIOUS
<1>4. x \in T /\ x.t # "report" /\ S \subseteq T
  BY <1>3 DEF Transfers, Kbds
<1>5. trbs \in Seq(S)
  BY DEF UsbInv, KbdsInv, KbdsTypes
<1>6. trbs \in Seq(T)
  BY <1>4, <1>5
<1>7. trbs' \in Seq(T)
  BY <1>1, <1>4, <1>6, LaidTransfers
<1>8. \A s : NoReports(s) => NoReports(s)'
  BY <1>1, <1>4, <1>6, LaidReports
<1> QED
  BY <1>1, <1>2, <1>7, <1>8

LEMMA FlushedFollows ==
  ASSUME XhciAssumption, XhciInv, UsbInv, Flushed
  PROVE  UsbInv'
<1>1. DrvStep
  BY DEF Flushed, DrvUnchanged, DrvStep, evInVars, evOutVars, keysVars, hidVars
<1>2. upc \in Talking /\ "dev" \in Talking \ {"flush"} /\ upc \in Watched
  BY DEF Flushed, Talking, Watched
<1>3. Control("dev", 3) /\ is_hid' = [is_hid EXCEPT ![uslot] = FALSE] /\ ~is_hid[uslot]
  BY DEF Flushed, UsbInv, KbdsInv, Stage
<1>4. is_hid \in [Ids -> BOOLEAN] /\ uslot \in Ids
  BY <1>2, SlotsAreIds DEF UsbInv, KbdsInv, KbdsTypes
<1>5. is_hid' = is_hid
  BY <1>3, <1>4
<1>6. trbs' \in Seq(Transfers(Kbds')) /\ upc' = "dev" /\ uslot' = uslot
  BY <1>2, <1>3, <1>5, ControlStep
<1>7. Stage'
  BY <1>3, <1>5, <1>6 DEF Stage
<1>8. SlotStep
  BY <1>4, <1>5, <1>6, <1>7 DEF SlotStep
<1> QED
  BY <1>1, <1>8, DrvStepKeeps

LEMMA NextStageFollows ==
  ASSUME XhciAssumption, XhciInv, UsbInv, NextStage
  PROVE  UsbInv'
<1>1. DrvStep
  BY DEF NextStage, DrvUnchanged, DrvStep, evInVars, evOutVars, keysVars, hidVars
<1>2. is_hid \in [Ids -> BOOLEAN] /\ Stage /\ Heard
  BY DEF UsbInv, KbdsInv, KbdsTypes
<1>3. CASE GiveUp /\ UNCHANGED <<trbs, is_hid>>
  BY <1>1, <1>3, GivesUpPlainly, IdleStage, PlainStep, DrvStepKeeps
<1>4. CASE /\ \/ upc = "dev" /\ Control("cfg9", 3)
              \/ upc = "cfg9" /\ Control("cfg", 3)
           /\ UNCHANGED is_hid
  <2>1. PICK step \in {"cfg9", "cfg"} : Control(step, 3) /\ upc \in {"dev", "cfg9"}
    BY <1>4
  <2>2. upc \in Talking /\ step \in Talking \ {"flush"}
    BY <2>1 DEF Talking
  <2>3. trbs' \in Seq(Transfers(Kbds')) /\ upc' = step /\ uslot' = uslot
    BY <1>4, <2>1, <2>2, ControlStep
  <2>4. Stage'
    BY <1>2, <1>4, <2>1, <2>3 DEF Stage
  <2>5. SlotStep
    BY <1>2, <1>4, <2>3, <2>4 DEF SlotStep
  <2> QED
    BY <1>1, <2>5, DrvStepKeeps
<1>5. CASE upc = "cfg" /\ is_hid' = [is_hid EXCEPT ![uslot] = TRUE] /\ Control("setconf", 2)
  <2>1. upc \in Talking /\ "setconf" \in Talking \ {"flush"} /\ upc \in Watched
    BY <1>5 DEF Talking, Watched
  <2>2. ~is_hid[uslot] /\ uslot \in Ids
    BY <1>2, <1>5, <2>1, SlotsAreIds DEF Stage
  <2>3. is_hid' \in [Ids -> BOOLEAN] /\ (\A s \in Ids : is_hid[s] => is_hid'[s]) /\ is_hid'[uslot]
        /\ (\A s \in Ids : is_hid'[s] => is_hid[s] \/ s = uslot)
    BY <1>2, <1>5, <2>2
  <2>4. /\ trbs' \in Seq(Transfers(Kbds')) /\ upc' = "setconf" /\ uslot' = uslot /\ GivenSlot(uslot)
        /\ (NoReports(uslot) => NoReports(uslot)')
    BY <1>5, <2>1, <2>3, ControlStep DEF GivenSlot
  <2>5. NoReports(uslot) /\ dec # uslot /\ reported[uslot] = {}
    BY <1>2, <2>2, ReportsOf DEF NoReports, Heard, Kbds
  <2>6. Stage'
    BY <1>1, <2>3, <2>4, <2>5 DEF Stage, DrvStep
  <2>7. SlotStep
    BY <2>3, <2>4, <2>6 DEF SlotStep
  <2> QED
    BY <1>1, <2>7, DrvStepKeeps
<1>6. CASE upc = "setconf" /\ Control("setproto", 2) /\ UNCHANGED is_hid
  <2>1. upc \in Talking /\ "setproto" \in Talking \ {"flush"}
    BY <1>6 DEF Talking
  <2>2. trbs' \in Seq(Transfers(Kbds')) /\ upc' = "setproto" /\ uslot' = uslot /\ (NoReports(uslot) => NoReports(uslot)')
    BY <1>6, <2>1, ControlStep
  <2>3. Stage'
    BY <1>1, <1>2, <1>6, <2>2 DEF Stage, DrvStep
  <2>4. SlotStep
    BY <1>2, <1>6, <2>2, <2>3 DEF SlotStep
  <2> QED
    BY <1>1, <2>4, DrvStepKeeps
<1> QED
  BY <1>3, <1>4, <1>5, <1>6, Zenon DEF NextStage

LEMMA ConfigureFollows ==
  ASSUME UsbInv, upc = "setproto", Configure, UNCHANGED <<is_hid, trbs>>,
         UNCHANGED <<hw_slots, event_ring, event_dequeue, event_ccs, hw_enqueue, hw_ccs, cmd_comp,
                     ukeys, reported, buf, prev, injected, phase, dec, torn, ready>>
  PROVE  UsbInv'
<1>1. DrvStep
  BY DEF DrvStep, Configure
<1>2. CASE GiveUp
  BY <1>1, <1>2, GivesUpPlainly, IdleStage, PlainStep, DrvStepKeeps
<1>3. CASE upc' = "confep" /\ uslot' = uslot
  <2>1. is_hid[uslot] /\ dec # uslot /\ reported[uslot] = {} /\ NoReports(uslot)
    BY DEF UsbInv, KbdsInv, Stage
  <2>2. Stage'
    BY <1>3, <2>1 DEF Stage, NoReports
  <2> QED
    BY <1>1, <2>2, PlainStep, DrvStepKeeps
<1> QED
  BY <1>2, <1>3 DEF Configure, Goes

LEMMA ProtocolSetFollows ==
  ASSUME UsbInv, ProtocolSet
  PROVE  UsbInv'
  BY ConfigureFollows DEF ProtocolSet, DrvUnchanged, evInVars, evOutVars, devVars, keysVars, hidVars

LEMMA TimeoutFollows ==
  ASSUME UsbInv, Timeout
  PROVE  UsbInv'
<1>1. /\ UNCHANGED <<is_hid, trbs>>
      /\ UNCHANGED <<hw_slots, event_ring, event_dequeue, event_ccs, hw_enqueue, hw_ccs, cmd_comp,
                     ukeys, reported, buf, prev, injected, phase, dec, torn, ready>>
  BY DEF Timeout, DrvUnchanged, evInVars, evOutVars, devVars, keysVars, hidVars
<1>2. CASE GiveUp /\ UNCHANGED cmd_complete
  <2>1. DrvStep
    BY <1>1, <1>2 DEF DrvStep
  <2> QED
    BY <1>1, <1>2, <2>1, GivesUpPlainly, IdleStage, PlainStep, DrvStepKeeps
<1>3. CASE upc = "setproto" /\ Configure
  BY <1>1, <1>3, ConfigureFollows
<1> QED
  BY <1>2, <1>3 DEF Timeout

\* At rest nothing has been read or written.
LEMMA UsbInitInv ==
  ASSUME XhciAssumption, XhciInit
  PROVE  UsbInv
<1>1. DOMAIN event_ring = 0 .. EvTrbs - 1
      /\ \A i \in 0 .. EvTrbs - 1 : /\ event_ring[i] = [c |-> 1, e |-> Link] \/ event_ring[i] = [c |-> 0, e |-> NoEvent]
                                    /\ i = EvTrbs - 1 <=> event_ring[i] = [c |-> 1, e |-> Link]
  BY DEF XhciInit, XhciAssumption
<1>2. \A i \in 0 .. EvTrbs - 1 : event_ring[i].e.t \in {"link", "none"} /\ event_ring[i].c = IF i = EvTrbs - 1 THEN 1 ELSE 0
  BY <1>1 DEF Link, NoEvent
<1>3. KbdsInv
  <2>1. KbdsTypes
    BY DEF XhciInit, KbdsTypes, XhciAssumption
  <2>2. Heard /\ (\A s \in Ids : is_hid[s] => GivenSlot(s))
    <3>1. \A s \in Ids : s # 0
      BY DEF Ids
    <3> QED
      BY <3>1 DEF XhciInit, Heard
  <2>3. Stage
    BY DEF XhciInit, Stage
  <2> QED
    BY <2>1, <2>2, <2>3 DEF KbdsInv
<1>4. CyclesInv
  <2>1. /\ \A i \in 0 .. EvTrbs - 2 : event_ring[i].c = 0
        /\ event_ring[EvTrbs - 1].c = 1
    <3>1. EvTrbs - 1 \in 0 .. EvTrbs - 1 /\ \A i \in 0 .. EvTrbs - 2 : i \in 0 .. EvTrbs - 1 /\ i # EvTrbs - 1
      BY DEF XhciAssumption
    <3> QED
      BY <1>2, <3>1
  <2>2. \A i \in 0 .. EvTrbs - 2 : ~(i < 0)
    BY DEF XhciAssumption
  <2>3. hw_enqueue = 0 /\ event_dequeue = 0 /\ hw_ccs = 1 /\ event_ccs = 1
    BY DEF XhciInit
  <2>4. \A i \in DOMAIN event_ring : event_ring[i].e.t # "xfer"
    BY <1>1, <1>2
  <2>5. Bits
    BY <2>1, <2>2, <2>3, <2>4 DEF Bits, Behind
  <2> QED
    BY <2>3, <2>5 DEF CyclesInv
<1>5. DecodeInv
  BY DEF XhciInit, DecodeInv, Latest
<1> QED
  BY <1>3, <1>4, <1>5 DEF UsbInv

\* The main loop enumerates nothing.
LEMMA AtMain ==
  ASSUME upc' = "main"
  PROVE  Stage'
<1>1. upc' \notin Watched
  BY DEF Watched, Talking
<1> QED
  BY <1>1, IdleStage

\* The reports of a keyboard: taken, decoded.
LEMMA GetReportFollows ==
  ASSUME UsbInv, NEW s \in Ids, GetReport(s)
  PROVE  UsbInv'
<1>1. /\ UNCHANGED <<hw_slots, event_ring, event_dequeue, event_ccs, hw_enqueue, hw_ccs,
                     ukeys, reported, buf, prev, injected, torn, upc, uslot, is_hid>>
      /\ phase = "none" /\ phase' = "release" /\ dec' = s /\ upc = "main" /\ ready[s]
      /\ ready' = [ready EXCEPT ![s] = FALSE]
  BY DEF GetReport, DrvUnchanged, drvVars, evInVars, evOutVars, devVars, keysVars
<1>2. is_hid[s] /\ s # 0
  BY <1>1 DEF UsbInv, KbdsInv, Heard, Ids
<1>3. trbs' \in Seq(Transfers(Kbds))
  <2>1. CASE Lay([t |-> "report", slot |-> s], 1)
    <3>1. [t |-> "report", slot |-> s] \in Transfers(Kbds)
      BY <1>2 DEF Transfers, Kbds
    <3> QED
      BY <2>1, <3>1, LaidTransfers DEF UsbInv, KbdsInv, KbdsTypes
  <2>2. CASE UNCHANGED trbs
    BY <2>2 DEF UsbInv, KbdsInv, KbdsTypes
  <2> QED
    BY <2>1, <2>2 DEF GetReport
<1>4. KbdsInv'
  <2>1. ready \in [Ids -> BOOLEAN] /\ is_hid \in [Ids -> BOOLEAN]
    BY DEF UsbInv, KbdsInv, KbdsTypes
  <2>2. KbdsTypes'
    BY <1>1, <1>3, <2>1 DEF UsbInv, KbdsInv, KbdsTypes, Kbds
  <2>3. Heard' /\ (\A r \in Ids : is_hid'[r] => GivenSlot(r)')
    BY <1>1, <1>2, <2>1 DEF UsbInv, KbdsInv, Heard, GivenSlot
  <2>4. Stage'
    BY <1>1, AtMain
  <2> QED
    BY <2>2, <2>3, <2>4 DEF KbdsInv
<1>5. CyclesInv'
  BY <1>1 DEF UsbInv, CyclesInv, Bits, Past, Behind, Unread
<1>6. DecodeInv'
  BY <1>1, <1>2 DEF UsbInv, DecodeInv
<1> QED
  BY <1>4, <1>5, <1>6 DEF UsbInv

\* What the slots are known for, in a step that is not about them.
LEMMA StillKnown ==
  ASSUME UsbInv, UNCHANGED <<hw_slots, upc, uslot, cmds, event_ring, cmd_complete, cmd_comp, is_hid, ready, trbs,
                             reported, buf, dec>>,
         ukeys' \in [Ids -> SUBSET UsbKeys]
  PROVE  KbdsInv'
<1>1. KbdsTypes' /\ Heard' /\ (\A s \in Ids : is_hid'[s] => GivenSlot(s)')
  BY DEF UsbInv, KbdsInv, KbdsTypes, Heard, GivenSlot, Kbds
<1>2. (\A s : Silent(s) => Silent(s)') /\ (\A s : NoReports(s) => NoReports(s)')
  <2>1. \A i, s : Hopes(i, s)' <=> Hopes(i, s)
    BY DEF Hopes
  <2>2. \A i, s : RingOk(i, s)' <=> RingOk(i, s)
    BY DEF RingOk
  <2>3. \A s : CompOk(s)' <=> CompOk(s)
    BY DEF CompOk
  <2> QED
    BY <2>1, <2>2, <2>3 DEF Silent, NoReports
<1>3. Stage'
  BY <1>2 DEF UsbInv, KbdsInv, Stage
<1> QED
  BY <1>1, <1>3 DEF KbdsInv

LEMMA ProcessReportFollows ==
  ASSUME UsbInv, ProcessReport
  PROVE  UsbInv'
<1>1. /\ UNCHANGED <<hw_slots, event_ring, event_dequeue, event_ccs, hw_enqueue, hw_ccs, cmd_complete, cmd_comp, cmds,
                     ukeys, reported, buf, dec, upc, uslot, is_hid, ready, trbs>>
      /\ Decode
  BY DEF ProcessReport, DrvUnchanged, drvVars, cmdVars, evInVars, evOutVars, devVars, keysVars, xferVars
<1>2. KbdsInv'
  BY <1>1, StillKnown DEF UsbInv, KbdsInv, KbdsTypes
<1>3. CyclesInv'
  BY <1>1 DEF UsbInv, CyclesInv, Bits, Past, Behind, Unread
<1>4. DecodeInv'
  <2>1. phase # "none" => Latest = buf[dec] /\ Latest' = Latest
    BY <1>1 DEF UsbInv, DecodeInv, Latest
  <2>2. CASE phase = "release" /\ phase' = "press" /\ ReleaseGone
    <3>1. injected' = injected \ (prev \ Latest) /\ torn' = torn \ (prev \ Latest) /\ prev' = prev /\ Latest' = Latest
      BY <2>1, <2>2 DEF ReleaseGone
    <3>2. injected \ torn = prev \ torn
      BY <2>2 DEF UsbInv, DecodeInv
    <3>3. injected' \ torn' = (prev' \cap Latest') \ torn'
      BY <3>1, <3>2
    <3> QED
      BY <1>1, <2>2, <3>3 DEF UsbInv, DecodeInv
  <2>3. CASE phase = "press" /\ phase' = "save" /\ PressNew
    <3>1. injected' = injected \cup (Latest \ prev) /\ torn' = torn \ (Latest \ prev) /\ Latest' = Latest
      BY <2>1, <2>3 DEF PressNew
    <3>2. injected \ torn = (prev \cap Latest) \ torn
      BY <2>3 DEF UsbInv, DecodeInv
    <3>3. injected' \ torn' = Latest' \ torn'
      BY <3>1, <3>2
    <3> QED
      BY <1>1, <2>3, <3>3 DEF UsbInv, DecodeInv
  <2>4. CASE phase = "save" /\ phase' = "none" /\ SaveReport
    <3>1. injected' = injected /\ torn' = torn /\ prev' = Latest /\ Latest' = Latest
      BY <2>1, <2>4 DEF SaveReport
    <3>2. injected \ torn = Latest \ torn
      BY <2>4 DEF UsbInv, DecodeInv
    <3> QED
      BY <1>1, <2>4, <3>1, <3>2 DEF UsbInv, DecodeInv
  <2> QED
    BY <1>1, <2>2, <2>3, <2>4 DEF Decode
<1> QED
  BY <1>2, <1>3, <1>4 DEF UsbInv

LEMMA UsbKeyFollows ==
  ASSUME UsbInv, NEW s \in Ids, NEW k \in UsbKeys, UsbKey(s, k)
  PROVE  UsbInv'
<1>1. /\ UNCHANGED <<hw_slots, event_ring, event_dequeue, event_ccs, hw_enqueue, hw_ccs, cmd_complete, cmd_comp, cmds,
                     reported, buf, prev, injected, phase, dec, torn, upc, uslot, is_hid, ready, trbs>>
      /\ ukeys' = [ukeys EXCEPT ![s] = Changed(ukeys[s], {k})]
  BY DEF UsbKey, HwUnchanged, drvVars, flagVars, evInVars, evOutVars, devVars, hidVars
<1>2. ukeys' \in [Ids -> SUBSET UsbKeys]
  <2>1. ukeys \in [Ids -> SUBSET UsbKeys] /\ ukeys[s] \in SUBSET UsbKeys
    BY DEF UsbInv, KbdsInv, KbdsTypes
  <2>2. Changed(ukeys[s], {k}) \in SUBSET UsbKeys
    BY <2>1 DEF Changed
  <2> QED
    BY <1>1, <2>1, <2>2
<1>3. KbdsInv'
  BY <1>1, <1>2, StillKnown
<1>4. CyclesInv'
  BY <1>1 DEF UsbInv, CyclesInv, Bits, Past, Behind, Unread
<1>5. DecodeInv'
  BY <1>1 DEF UsbInv, DecodeInv, Latest, Undecoded, Told
<1> QED
  BY <1>3, <1>4, <1>5 DEF UsbInv

\* A keyboard is polled from now on: its buffer is emptied, but it was empty.
LEMMA ConfigureDoneFollows ==
  ASSUME XhciAssumption, XhciInv, UsbInv, ConfigureDone
  PROVE  UsbInv'
<1>1. /\ UNCHANGED <<hw_slots, event_ring, event_dequeue, event_ccs, hw_enqueue, hw_ccs, cmd_complete, cmd_comp,
                     ukeys, reported, prev, injected, phase, dec, torn, is_hid>>
      /\ upc = "confep"
  BY DEF ConfigureDone, Answered, DrvUnchanged, cmdVars, evInVars, evOutVars, keysVars
<1>2. CASE GiveUp /\ UNCHANGED <<ready, buf, trbs>>
  <2>1. DrvStep
    BY <1>1, <1>2 DEF DrvStep
  <2> QED
    BY <1>1, <1>2, <2>1, GivesUpPlainly, IdleStage, PlainStep, DrvStepKeeps
<1>3. CASE /\ upc' = "main" /\ ready' = [ready EXCEPT ![uslot] = FALSE]
           /\ buf' = [buf EXCEPT ![uslot] = {}] /\ Lay([t |-> "report", slot |-> uslot], 1)
  <2> PICK u : u = uslot
    OBVIOUS
  <2>1. u \in Ids /\ dec # u /\ reported[u] = {} /\ is_hid[u]
    <3>1. upc \in Watched
      BY <1>1 DEF Watched
    <3> QED
      BY <1>1, <3>1, SlotsAreIds DEF UsbInv, KbdsInv, Stage
  <2>2. buf' = buf
    BY <1>3, <2>1 DEF UsbInv, KbdsInv, KbdsTypes
  <2>3. /\ ready' \in [Ids -> BOOLEAN] /\ (\A s \in Ids : ready'[s] => ready[s])
        /\ \A s \in Ids : s # u => ready'[s] = ready[s]
    BY <1>3, <2>1 DEF UsbInv, KbdsInv, KbdsTypes
  <2>4. trbs' \in Seq(Transfers(Kbds)) /\ Kbds' = Kbds
    <3>1. [t |-> "report", slot |-> uslot] \in Transfers(Kbds)
      BY <2>1 DEF Transfers, Kbds
    <3> QED
      BY <1>1, <1>3, <3>1, LaidTransfers DEF UsbInv, KbdsInv, KbdsTypes, Kbds
  <2>5. KbdsInv'
    <3>1. KbdsTypes'
      BY <1>1, <2>2, <2>3, <2>4 DEF UsbInv, KbdsInv, KbdsTypes
    <3>2. Heard' /\ (\A s \in Ids : is_hid'[s] => GivenSlot(s)')
      BY <1>1, <2>3 DEF UsbInv, KbdsInv, Heard, GivenSlot
    <3> QED
      BY <1>3, <3>1, <3>2, AtMain DEF KbdsInv
  <2>6. CyclesInv'
    BY <1>1 DEF UsbInv, CyclesInv, Bits, Past, Behind, Unread
  <2>7. DecodeInv'
    <3>1. dec # 0 => dec \in Ids /\ ready'[dec] = ready[dec]
      BY <2>1, <2>3 DEF UsbInv, DecodeInv
    <3>2. Latest' = Latest /\ (dec # 0 /\ Undecoded => Undecoded')
      BY <1>1, <2>2, <3>1 DEF Latest, Undecoded, Told
    <3> QED
      BY <1>1, <3>2 DEF UsbInv, DecodeInv
  <2> QED
    BY <2>5, <2>6, <2>7 DEF UsbInv
<1> QED
  BY <1>2, <1>3, Zenon DEF ConfigureDone

\* An event is written over nothing that is unread.
LEMMA EmitFollows ==
  ASSUME XhciAssumption, XhciInv, UsbInv, NEW e, Emit(e),
         UNCHANGED <<event_dequeue, event_ccs>>
  PROVE  /\ CyclesInv'
         /\ \A j \in DOMAIN event_ring : \A s : Told(j, s) => Told(j, s)'
         /\ hw_enqueue \in DOMAIN event_ring' /\ DOMAIN event_ring' = DOMAIN event_ring
         /\ event_ring'[hw_enqueue].e = e
<1> PICK k : k = hw_enqueue
  OBVIOUS
<1>1. /\ k \in DOMAIN event_ring /\ DOMAIN event_ring' = DOMAIN event_ring
      /\ event_ring'[k].e = e
      /\ \A j \in DOMAIN event_ring \ {k} : event_ring'[j] = event_ring[j]
  BY EmitIs DEF XhciInv
<1>2. CyclesInv'
  BY EmitCycles DEF XhciInv, UsbInv
<1>3. event_ring[k].e.t # "xfer"
  <2> SUFFICES ASSUME event_ring[k].e.t = "xfer" PROVE FALSE
    OBVIOUS
  <2>1. k \in 0 .. EvTrbs - 1 /\ event_dequeue \in 0 .. EvTrbs - 1 /\ EvTrbs \in Nat
    BY DEF XhciInv, XhciTypes, XhciAssumption
  <2>2. ~Past
    BY <1>1 DEF Past
  <2>3. Unread(k) /\ Behind
    BY <1>1, <2>2 DEF UsbInv, CyclesInv, Bits
  <2> QED
    BY <2>1, <2>3 DEF Unread, Behind
<1>4. ASSUME NEW j \in DOMAIN event_ring, NEW s, Told(j, s)
      PROVE  Told(j, s)'
  <2>1. j # k
    BY <1>3, <1>4 DEF Told
  <2>2. event_ring'[j] = event_ring[j]
    BY <1>1, <2>1
  <2> QED
    BY <1>4, <2>2 DEF Told
<1> QED
  BY <1>1, <1>2, <1>4

\* What the decoder holds down, when an event is written about something else.
LEMMA EmitDecodes ==
  ASSUME UsbInv, DOMAIN event_ring' = DOMAIN event_ring,
         \A j \in DOMAIN event_ring : \A s : Told(j, s) => Told(j, s)',
         UNCHANGED <<ready, dec, buf, prev, injected, phase, torn>>
  PROVE  DecodeInv'
<1>1. Undecoded => Undecoded'
  BY DEF Undecoded
<1> QED
  BY <1>1 DEF UsbInv, DecodeInv, Latest

\* What is known of the slots, after a step of the controller or the devices.
LEMMA HwSlots ==
  ASSUME UsbInv, UNCHANGED <<upc, uslot, is_hid, ready, dec>>,
         Len(hw_slots') <= UsbSlots, \A s : GivenSlot(s) => GivenSlot(s)', trbs' \in Seq(Transfers(Kbds)),
         ukeys' \in [Ids -> SUBSET UsbKeys], reported' \in [Ids -> SUBSET UsbKeys], buf' = reported',
         \A s \in Ids : reported'[s] # {} => reported[s] # {} \/ is_hid[s],
         upc \in {"setconf", "setproto", "confep"} /\ NoReports(uslot) =>
           NoReports(uslot)' /\ reported'[uslot] = reported[uslot],
         upc = "address" /\ is_hid[uslot] /\ Silent(uslot) => Silent(uslot)'
  PROVE  KbdsInv'
<1>1. KbdsTypes'
  BY DEF UsbInv, KbdsInv, KbdsTypes, Kbds
<1>2. Heard' /\ (\A s \in Ids : is_hid'[s] => GivenSlot(s)')
  BY DEF UsbInv, KbdsInv, Heard
<1>3. Stage'
  BY DEF UsbInv, KbdsInv, Stage
<1> QED
  BY <1>1, <1>2, <1>3 DEF KbdsInv

\* An event that is no answer to a command says nothing of a slot.
LEMMA OtherEventSilent ==
  ASSUME XhciAssumption, XhciInv, NEW e, Emit(e), e.t # "cmd", e.t = "port" => e.port \in Nat,
         UNCHANGED <<hw_slots, cmds, cmd_comp, cmd_complete>>, NEW s, Silent(s)
  PROVE  Silent(s)'
<1> PICK k : k = hw_enqueue
  OBVIOUS
<1>1. /\ DOMAIN event_ring' = DOMAIN event_ring
      /\ \A j \in DOMAIN event_ring : \A r : RingOk(j, r)' => RingOk(j, r)
  BY EmitAnswers DEF XhciInv
<1>2. (\A i : Hopes(i, s)' <=> Hopes(i, s)) /\ (CompOk(s)' <=> CompOk(s))
  BY DEF Hopes, CompOk
<1> QED
  BY <1>1, <1>2 DEF Silent

\* What the controller gives out stays given, and addressed.
LEMMA HwCommandKnown ==
  ASSUME XhciAssumption, XhciInv, HwCommand, Len(hw_slots) <= UsbSlots
  PROVE  Len(hw_slots') <= UsbSlots /\ \A s : GivenSlot(s) => GivenSlot(s)'
<1> PICK c : c = Head(cmds)
  OBVIOUS
<1>1. Refuses(c) \/ Enables(c) \/ CarriesOut(c)
  BY HwCommandIs
<1>2. hw_slots \in Seq([st : Stages, port : Nat]) /\ Len(hw_slots) \in Nat /\ UsbSlots \in Nat
  BY DEF XhciInv, XhciTypes, XhciAssumption
<1>3. CASE hw_slots' = hw_slots
  BY <1>3 DEF GivenSlot
<1>4. CASE Enables(c)
  <2>1. /\ hw_slots' = Append(hw_slots, [st |-> "enabled", port |-> 0])
        /\ Len(hw_slots) < UsbSlots
    BY <1>4 DEF Enables
  <2>2. /\ Len(hw_slots') = Len(hw_slots) + 1
        /\ \A s \in DOMAIN hw_slots : s \in DOMAIN hw_slots' /\ hw_slots'[s] = hw_slots[s]
    BY <1>2, <2>1
  <2> QED
    BY <1>2, <2>1, <2>2 DEF GivenSlot
<1>5. CASE CarriesOut(c)
  <2>1. PICK v : v.st # "enabled" /\ hw_slots' = [hw_slots EXCEPT ![c.slot] = v]
    <3>1. CASE hw_slots' = [hw_slots EXCEPT ![c.slot] = [st |-> "addressed", port |-> c.port]]
      BY <3>1
    <3>2. CASE hw_slots' = [hw_slots EXCEPT ![c.slot] = [@ EXCEPT !.st = "configured"]] /\ hw_slots[c.slot].st = "addressed"
      <4>1. CASE c.slot \in DOMAIN hw_slots
        <5>1. hw_slots[c.slot] \in [st : Stages, port : Nat]
          BY <4>1, SlotIs DEF XhciInv
        <5>2. [hw_slots[c.slot] EXCEPT !.st = "configured"].st = "configured"
          BY <5>1
        <5> QED
          BY <3>2, <5>2
      <4>2. CASE c.slot \notin DOMAIN hw_slots
        <5>1. hw_slots' = [hw_slots EXCEPT ![c.slot] = [st |-> "configured"]]
          BY <1>2, <3>2, <4>2
        <5> QED
          BY <5>1
      <4> QED
        BY <4>1, <4>2
    <3> QED
      BY <1>5, <3>1, <3>2 DEF CarriesOut
  <2>2. Len(hw_slots') = Len(hw_slots) /\ DOMAIN hw_slots' = DOMAIN hw_slots
    BY <1>2, <2>1
  <2>3. \A s \in DOMAIN hw_slots : hw_slots'[s] = hw_slots[s] \/ hw_slots'[s] = v
    BY <1>2, <2>1
  <2> QED
    BY <2>1, <2>2, <2>3 DEF GivenSlot
<1> QED
  BY <1>1, <1>3, <1>4, <1>5 DEF Refuses

\* A command that is carried out was not hopeless.
LEMMA HwCommandSilent ==
  ASSUME XhciAssumption, XhciInv, HwCommand, NEW s \in DOMAIN hw_slots, Silent(s)
  PROVE  Silent(s)'
<1> PICK c, k : c = Head(cmds) /\ k = hw_enqueue
  OBVIOUS
<1>1. /\ Refuses(c) \/ Enables(c) \/ CarriesOut(c)
      /\ UNCHANGED <<cmd_comp, cmd_complete>>
      /\ cmds \in Seq(Commands) /\ cmds # << >> /\ cmds' = Tail(cmds)
  BY HwCommandIs
<1>2. /\ 1 \in DOMAIN cmds /\ c = cmds[1] /\ c \in Commands
      /\ \A i \in DOMAIN cmds' : i + 1 \in DOMAIN cmds /\ cmds'[i] = cmds[i + 1]
  BY <1>1, TailIs
<1>3. c.t \in {"enable", "address", "configure"} /\ (c.t # "enable" => c.slot \in Nat)
  BY <1>2, CommandIs
<1>4. ~CompOk(s)'
  BY <1>1 DEF Silent, CompOk
<1>5. ASSUME hw_slots'[s] = hw_slots[s]
      PROVE  \A i \in DOMAIN cmds' : ~Hopes(i, s)'
  BY <1>2, <1>5 DEF Silent, Hopes
<1>6. CASE Refuses(c)
  <2>1. PICK r \in Nat : Emit([t |-> "cmd", ok |-> FALSE, slot |-> r])
    BY <1>6 DEF Refuses
  <2> PICK e : e = [t |-> "cmd", ok |-> FALSE, slot |-> r]
    OBVIOUS
  <2>2. e.t = "cmd" /\ e.ok = FALSE /\ e.slot = r /\ Emit(e)
    BY <2>1
  <2>3. /\ DOMAIN event_ring' = DOMAIN event_ring
        /\ \A j \in DOMAIN event_ring : RingOk(j, s)' => RingOk(j, s)
    BY <2>2, EmitAnswers DEF XhciInv
  <2> QED
    BY <1>4, <1>5, <1>6, <2>3 DEF Silent, Refuses
<1>7. CASE Enables(c)
  <2>1. hw_slots \in Seq([st : Stages, port : Nat])
    BY DEF XhciInv, XhciTypes
  <2> PICK m : m = Len(hw_slots) + 1
    OBVIOUS
  <2>2. m \in Nat /\ m # s /\ hw_slots'[s] = hw_slots[s] /\ Emit([t |-> "cmd", ok |-> TRUE, slot |-> m])
    BY <1>7, <2>1 DEF Enables
  <2>3. /\ DOMAIN event_ring' = DOMAIN event_ring
        /\ \A j \in DOMAIN event_ring : RingOk(j, s)' => RingOk(j, s)
    BY <2>2, AnswerIs
  <2> QED
    BY <1>4, <1>5, <2>2, <2>3 DEF Silent
<1>8. CASE CarriesOut(c)
  <2>1. Hopes(1, c.slot) /\ c.slot \in Nat
    BY <1>2, <1>3, <1>8 DEF CarriesOut, Hopes
  <2>2. c.slot # s
    BY <1>2, <2>1 DEF Silent
  <2>3. hw_slots'[s] = hw_slots[s] /\ Emit([t |-> "cmd", ok |-> TRUE, slot |-> c.slot])
    BY <1>8, <2>2 DEF CarriesOut
  <2>4. /\ DOMAIN event_ring' = DOMAIN event_ring
        /\ \A j \in DOMAIN event_ring : RingOk(j, s)' => RingOk(j, s)
    BY <2>1, <2>2, <2>3, AnswerIs
  <2> QED
    BY <1>4, <1>5, <2>3, <2>4 DEF Silent
<1> QED
  BY <1>1, <1>6, <1>7, <1>8

LEMMA HwCommandFollows ==
  ASSUME XhciAssumption, XhciInv, UsbInv, HwCommand
  PROVE  UsbInv'
<1>1. UNCHANGED <<event_dequeue, event_ccs, upc, uslot, cmd_complete, cmd_comp, is_hid, ready, trbs,
                  ukeys, reported, buf, prev, injected, phase, dec, torn>>
  BY DEF HwCommand, HwUnchanged, drvVars, flagVars, evOutVars, devVars, keysVars, hidVars
<1>2. PICK e : Emit(e)
  BY DEF HwCommand
<1>3. /\ CyclesInv' /\ DOMAIN event_ring' = DOMAIN event_ring
      /\ \A j \in DOMAIN event_ring : \A s : Told(j, s) => Told(j, s)'
  BY <1>1, <1>2, EmitFollows
<1>4. Len(hw_slots') <= UsbSlots /\ \A s : GivenSlot(s) => GivenSlot(s)'
  BY HwCommandKnown DEF UsbInv, KbdsInv, KbdsTypes
<1>5. upc = "address" /\ is_hid[uslot] /\ Silent(uslot) => Silent(uslot)'
  <2>1. upc = "address" => uslot \in DOMAIN hw_slots
    BY DEF XhciInv, DriverKnows, Watched
  <2>2. ASSUME uslot \in DOMAIN hw_slots, Silent(uslot)
        PROVE  Silent(uslot)'
    <3> PICK u : u = uslot
      OBVIOUS
    <3>1. u \in DOMAIN hw_slots /\ Silent(u) /\ uslot' = u
      BY <1>1, <2>2
    <3>2. Silent(u)'
      BY <3>1, HwCommandSilent
    <3> QED
      BY <1>1, <3>1, <3>2
  <2> QED
    BY <2>1, <2>2
<1>6. KbdsInv'
  <2>1. NoReports(uslot) => NoReports(uslot)'
    BY <1>1 DEF NoReports
  <2> QED
    BY <1>1, <1>4, <1>5, <2>1, HwSlots DEF UsbInv, KbdsInv, KbdsTypes
<1>7. DecodeInv'
  BY <1>1, <1>3, EmitDecodes
<1> QED
  BY <1>3, <1>6, <1>7 DEF UsbInv

LEMMA PlugFollows ==
  ASSUME XhciAssumption, XhciInv, UsbInv, NEW p \in 1 .. LastPort, Plug(p)
  PROVE  UsbInv'
<1>1. UNCHANGED <<event_dequeue, event_ccs, upc, uslot, cmd_complete, cmd_comp, cmds, is_hid, ready, trbs, hw_slots,
                  ukeys, reported, buf, prev, injected, phase, dec, torn>>
  BY DEF Plug, drvVars, cmdVars, flagVars, evOutVars, devVars, xferVars, keysVars, hidVars
<1>2. PICK e : Emit(e) /\ e.t = "port" /\ e.port \in Nat
  <2>1. Emit([t |-> "port", port |-> p]) /\ p \in Nat
    BY DEF Plug, XhciAssumption
  <2> QED
    BY <2>1
<1>3. /\ CyclesInv' /\ DOMAIN event_ring' = DOMAIN event_ring
      /\ \A j \in DOMAIN event_ring : \A s : Told(j, s) => Told(j, s)'
  BY <1>1, <1>2, EmitFollows
<1>4. KbdsInv'
  <2>1. NoReports(uslot) => NoReports(uslot)'
    BY <1>1 DEF NoReports
  <2>2. Silent(uslot) => Silent(uslot)'
    <3> PICK u : u = uslot
      OBVIOUS
    <3>1. Silent(u) => Silent(u)'
      BY <1>1, <1>2, OtherEventSilent
    <3> QED
      BY <1>1, <3>1
  <2> QED
    BY <1>1, <2>1, <2>2, HwSlots DEF UsbInv, KbdsInv, KbdsTypes, GivenSlot
<1>5. DecodeInv'
  BY <1>1, <1>3, EmitDecodes
<1> QED
  BY <1>3, <1>4, <1>5 DEF UsbInv

LEMMA HwControlFollows ==
  ASSUME XhciAssumption, XhciInv, UsbInv, NEW i \in DOMAIN trbs, HwControl(i)
  PROVE  UsbInv'
<1>1. UNCHANGED <<event_dequeue, event_ccs, upc, uslot, cmd_complete, cmd_comp, cmds, is_hid, ready, hw_slots,
                  ukeys, reported, buf, prev, injected, phase, dec, torn>>
  BY DEF HwControl, HwUnchanged, drvVars, flagVars, evOutVars, devVars, keysVars, hidVars
<1>2. PICK e : Emit(e) /\ e.t = "xfer"
  <2>1. PICK ok : Emit([t |-> "xfer", ok |-> ok, slot |-> trbs[i].slot])
    BY DEF HwControl
  <2> QED
    BY <2>1
<1>3. trbs' = RemoveAt(trbs, i) /\ trbs \in Seq(Transfers(Kbds))
  BY DEF HwControl, UsbInv, KbdsInv, KbdsTypes
<1>4. /\ CyclesInv' /\ DOMAIN event_ring' = DOMAIN event_ring
      /\ \A j \in DOMAIN event_ring : \A s : Told(j, s) => Told(j, s)'
  BY <1>1, <1>2, EmitFollows
<1>5. KbdsInv'
  <2> PICK u : u = uslot
    OBVIOUS
  <2>1. NoReports(u) => NoReports(u)'
    BY <1>3, DoneReports
  <2>2. Silent(u) => Silent(u)'
    BY <1>1, <1>2, OtherEventSilent
  <2>3. trbs' \in Seq(Transfers(Kbds))
    BY <1>3, DoneTransfers
  <2> QED
    BY <1>1, <2>1, <2>2, <2>3, HwSlots DEF UsbInv, KbdsInv, KbdsTypes, GivenSlot
<1>6. DecodeInv'
  BY <1>1, <1>4, EmitDecodes
<1> QED
  BY <1>4, <1>5, <1>6 DEF UsbInv

\* A report is one of a keyboard, and is still to be decoded.
LEMMA HwReportFollows ==
  ASSUME XhciAssumption, XhciInv, UsbInv, NEW i \in DOMAIN trbs, HwReport(i)
  PROVE  UsbInv'
<1> PICK r : r = trbs[i].slot
  OBVIOUS
<1>1. /\ UNCHANGED <<event_dequeue, event_ccs, upc, uslot, cmd_complete, cmd_comp, cmds, is_hid, ready, hw_slots,
                     ukeys, prev, injected, phase, dec>>
      /\ buf' = [buf EXCEPT ![r] = ukeys[r]] /\ reported' = [reported EXCEPT ![r] = ukeys[r]]
      /\ torn' = IF phase \in {"press", "save"} /\ r = dec THEN torn \cup Changed(buf[r], ukeys[r]) ELSE torn
      /\ trbs' = RemoveAt(trbs, i) /\ trbs[i].t = "report"
  BY DEF HwReport, HwUnchanged, drvVars, flagVars, evOutVars, devVars
<1>2. PICK e : Emit(e) /\ e.t = "xfer" /\ e.ok = TRUE /\ e.slot = r
  <2>1. Emit([t |-> "xfer", ok |-> TRUE, slot |-> r])
    BY DEF HwReport
  <2> QED
    BY <2>1
<1>3. r \in Ids /\ is_hid[r]
  BY <1>1, ReportsOf DEF Kbds
<1>4. /\ CyclesInv' /\ DOMAIN event_ring' = DOMAIN event_ring
      /\ \A j \in DOMAIN event_ring : \A s : Told(j, s) => Told(j, s)'
      /\ hw_enqueue \in DOMAIN event_ring' /\ event_ring'[hw_enqueue].e = e
  BY <1>1, <1>2, EmitFollows
<1>5. /\ buf \in [Ids -> SUBSET UsbKeys] /\ reported \in [Ids -> SUBSET UsbKeys] /\ buf = reported
      /\ ukeys \in [Ids -> SUBSET UsbKeys] /\ trbs \in Seq(Transfers(Kbds))
  BY DEF UsbInv, KbdsInv, KbdsTypes
<1>6. /\ reported' \in [Ids -> SUBSET UsbKeys] /\ buf' = reported' /\ buf'[r] = ukeys[r]
      /\ \A s : s # r => reported'[s] = reported[s] /\ buf'[s] = buf[s]
  BY <1>1, <1>3, <1>5
<1>7. KbdsInv'
  <2> PICK u : u = uslot
    OBVIOUS
  <2>1. NoReports(u) => NoReports(u)' /\ reported'[u] = reported[u]
    BY <1>1, <1>5, <1>6, DoneReports DEF NoReports
  <2>2. Silent(u) => Silent(u)'
    BY <1>1, <1>2, OtherEventSilent
  <2>3. trbs' \in Seq(Transfers(Kbds))
    BY <1>1, <1>5, DoneTransfers
  <2>4. \A s \in Ids : reported'[s] # {} => reported[s] # {} \/ is_hid[s]
    BY <1>3, <1>6
  <2> QED
    BY <1>1, <1>5, <1>6, <2>1, <2>2, <2>3, <2>4, HwSlots DEF UsbInv, KbdsInv, KbdsTypes, GivenSlot
<1>8. CASE r # dec
  <2>1. Latest' = Latest /\ torn' = torn
    BY <1>1, <1>6, <1>8 DEF Latest
  <2>2. Undecoded => Undecoded'
    BY <1>1, <1>4 DEF Undecoded
  <2> QED
    BY <1>1, <1>4, <1>7, <2>1, <2>2 DEF UsbInv, DecodeInv
<1>9. CASE r = dec
  <2>1. dec # 0 /\ Latest = buf[r] /\ Latest' = ukeys[r]
    BY <1>1, <1>3, <1>6, <1>9 DEF Latest, Ids
  <2>2. Undecoded'
    <3> PICK k : k = hw_enqueue
      OBVIOUS
    <3>1. event_ring'[k].e.t = "xfer" /\ event_ring'[k].e.ok /\ event_ring'[k].e.slot = dec' /\ k \in DOMAIN event_ring'
      BY <1>1, <1>2, <1>4, <1>9
    <3>2. Told(k, dec)'
      BY <3>1 DEF Told
    <3> QED
      BY <3>1, <3>2 DEF Undecoded
  <2>3. /\ UNCHANGED <<phase, dec, injected, prev>> /\ dec \in Ids \cup {0}
        /\ phase \in {"none", "release", "press", "save"}
        /\ phase \in {"none", "release"} => injected \ torn = prev \ torn
        /\ phase = "press" => injected \ torn = (prev \cap Latest) \ torn
        /\ phase = "save" => injected \ torn = Latest \ torn
    BY <1>1, Zenon DEF UsbInv, DecodeInv
  <2>4. phase \in {"none", "release"} => torn' = torn
    BY <1>1
  <2>5. phase \in {"press", "save"} => torn' = torn \cup (Latest \ Latest') \cup (Latest' \ Latest)
    BY <1>1, <1>9, <2>1 DEF Changed
  <2>6. DecodeInv'
    BY ONLY <2>1, <2>2, <2>3, <2>4, <2>5 DEF DecodeInv
  <2> QED
    BY <1>4, <1>7, <2>6 DEF UsbInv
<1> QED
  BY <1>8, <1>9

\* An event that is read: a report's makes its keyboard ready.
LEMMA ProcessEventFollows ==
  ASSUME XhciAssumption, XhciInv, UsbInv, ProcessEvent
  PROVE  UsbInv'
<1> PICK k, e : k = event_dequeue /\ e = event_ring[k].e
  OBVIOUS
<1>1. /\ k \in DOMAIN event_ring /\ DOMAIN event_ring' = DOMAIN event_ring
      /\ \A j \in DOMAIN event_ring : \A s : RingOk(j, s)' <=> j # k /\ RingOk(j, s)
  BY DequeueIs DEF ProcessEvent, XhciInv
<1>2. UNCHANGED <<hw_slots, upc, uslot, cmds, trbs, is_hid, ukeys, reported, buf, prev, injected, phase, dec, torn>>
  BY DEF ProcessEvent, Dequeue, drvVars, cmdVars, devVars, xferVars, keysVars, hidVars
<1>3. CyclesInv'
  BY DequeueCycles DEF ProcessEvent, XhciInv, UsbInv
<1>4. ready \in [Ids -> BOOLEAN] /\ is_hid \in [Ids -> BOOLEAN]
  BY DEF UsbInv, KbdsInv, KbdsTypes
<1>5. /\ ready' \in [Ids -> BOOLEAN] /\ (\A s \in Ids : ready[s] => ready'[s])
      /\ (\A s \in Ids : ready'[s] => ready[s] \/ is_hid[s])
      /\ e.t = "xfer" /\ e.ok /\ e.slot \in Ids /\ is_hid[e.slot] => ready'[e.slot]
  <2>1. CASE e.t = "xfer"
    <3>1. ready' = [ready EXCEPT ![e.slot] = ready[e.slot] \/ (e.ok /\ is_hid[e.slot])]
      BY <2>1 DEF ProcessEvent
    <3>2. CASE e.slot \in Ids
      <4>1. PICK b : b = (ready[e.slot] \/ (e.ok /\ is_hid[e.slot]))
        OBVIOUS
      <4>2. b \in BOOLEAN /\ (ready[e.slot] => b) /\ (e.ok /\ is_hid[e.slot] => b) /\ (b => ready[e.slot] \/ is_hid[e.slot])
        BY <4>1
      <4>3. ready' = [ready EXCEPT ![e.slot] = b]
        BY <3>1, <4>1
      <4> QED
        BY <1>4, <3>2, <4>2, <4>3
    <3>3. CASE e.slot \notin Ids
      <4>1. ready' = ready
        BY <1>4, <3>1, <3>3
      <4> QED
        BY <1>4, <3>3, <4>1
    <3> QED
      BY <3>2, <3>3
  <2>2. CASE e.t # "xfer"
    BY <1>4, <2>2 DEF ProcessEvent
  <2> QED
    BY <2>1, <2>2
<1>6. ASSUME NEW s, Silent(s)
      PROVE  Silent(s)'
  <2>1. ~CompOk(s)'
    <3>1. CASE e.t = "cmd"
      <4>1. cmd_comp' = [ok |-> e.ok, slot |-> e.slot]
        BY <3>1 DEF ProcessEvent
      <4>2. cmd_comp'.ok = e.ok /\ cmd_comp'.slot = e.slot
        BY <4>1
      <4>3. ~RingOk(k, s)
        BY <1>1, <1>6 DEF Silent
      <4> QED
        BY <3>1, <4>2, <4>3 DEF CompOk, RingOk
    <3>2. CASE e.t # "cmd"
      BY <1>6, <3>2 DEF ProcessEvent, CompOk, Silent
    <3> QED
      BY <3>1, <3>2
  <2>2. \A i : Hopes(i, s)' <=> Hopes(i, s)
    BY <1>2 DEF Hopes
  <2> QED
    BY <1>1, <1>2, <1>6, <2>1, <2>2 DEF Silent
<1>7. KbdsInv'
  <2>1. KbdsTypes'
    BY <1>2, <1>5 DEF UsbInv, KbdsInv, KbdsTypes, Kbds
  <2>2. Heard' /\ (\A s \in Ids : is_hid'[s] => GivenSlot(s)')
    BY <1>2, <1>5 DEF UsbInv, KbdsInv, Heard, GivenSlot
  <2>3. Stage'
    <3>1. \A s : NoReports(s) => NoReports(s)'
      BY <1>2 DEF NoReports
    <3> PICK u : u = uslot
      OBVIOUS
    <3>2. (Silent(u) => Silent(u)') /\ uslot' = u
      BY <1>2, <1>6
    <3> QED
      BY <1>2, <3>1, <3>2 DEF UsbInv, KbdsInv, Stage
  <2> QED
    BY <2>1, <2>2, <2>3 DEF KbdsInv
<1>8. DecodeInv'
  <2>1. ASSUME dec # 0, Undecoded
        PROVE  Undecoded'
    <3>1. dec \in Ids /\ is_hid[dec]
      BY <2>1 DEF UsbInv, KbdsInv, Heard, DecodeInv
    <3>2. CASE ready[dec]
      BY <1>2, <1>5, <3>1, <3>2 DEF Undecoded
    <3>3. CASE \E j \in DOMAIN event_ring : Told(j, dec)
      <4>1. PICK j \in DOMAIN event_ring : Told(j, dec)
        BY <3>3
      <4>2. CASE j = k
        <5>1. e.t = "xfer" /\ e.ok /\ e.slot = dec
          BY <4>1, <4>2 DEF Told
        <5> QED
          BY <1>2, <1>5, <3>1, <5>1 DEF Undecoded
      <4>3. CASE j # k
        <5>1. event_ring'[j] = event_ring[j]
          BY <4>3 DEF ProcessEvent, Dequeue
        <5>2. Told(j, dec)'
          BY <1>2, <4>1, <5>1 DEF Told
        <5> QED
          BY <1>1, <5>2 DEF Undecoded
      <4> QED
        BY <4>2, <4>3
    <3> QED
      BY <2>1, <3>2, <3>3 DEF Undecoded
  <2> QED
    BY <1>2, <2>1 DEF UsbInv, DecodeInv, Latest
<1> QED
  BY <1>3, <1>7, <1>8 DEF UsbInv

\* Every step.
LEMMA UsbInvStep == XhciAssumption /\ XhciInv /\ UsbInv /\ [XhciNext]_xhciVars => UsbInv'
<1> SUFFICES ASSUME XhciAssumption, XhciInv, UsbInv, [XhciNext]_xhciVars
             PROVE  UsbInv'
  OBVIOUS
<1>1. CASE \E i \in DOMAIN trbs : HwControl(i) \/ HwReport(i)
  BY <1>1, HwControlFollows, HwReportFollows
<1>2. CASE \E s \in Ids, k \in UsbKeys : UsbKey(s, k)
  BY <1>2, UsbKeyFollows
<1>3. CASE \E p \in 1 .. LastPort : Plug(p)
  BY <1>3, PlugFollows
<1>4. CASE \E s \in Ids : GetReport(s)
  BY <1>4, GetReportFollows
<1> QED
  BY <1>1, <1>2, <1>3, <1>4, BringUpFollows, ProcessEventFollows, HwCommandFollows, PortResetFollows,
     EnableDoneFollows, AddressDoneFollows, FlushedFollows, NextStageFollows, ProtocolSetFollows,
     ConfigureDoneFollows, TimeoutFollows, ProcessReportFollows, HotplugFollows, NothingFollows, Zenon DEF XhciNext

\* With no event left, no report waits to be decoded.
LEMMA UsbKeysThere ==
  ASSUME XhciAssumption, XhciInv, UsbInv
  PROVE  UsbKeysFollow
<1> SUFFICES ASSUME phase = "none", ~EventReady, \A s \in Ids : ~ready[s]
             PROVE  injected \ torn = (IF dec = 0 THEN {} ELSE reported[dec]) \ torn
  BY DEF UsbKeysFollow
<1>1. dec # 0 => ~Undecoded
  BY NoneUnread DEF Undecoded, Told, XhciInv, UsbInv, DecodeInv
<1>2. Latest = IF dec = 0 THEN {} ELSE reported[dec]
  BY DEF Latest, UsbInv, KbdsInv, KbdsTypes
<1> QED
  BY <1>1, <1>2 DEF UsbInv, DecodeInv

\* When the driver has taken every report that was made, the keys it holds down
\* are those of the keyboard it decoded last, but for keys that changed while
\* they were decoded (kern_usb_hid.c 145-216, kern_xhci.c 738-745): for every
\* number of ports, slots, keyboards, events and commands, and whatever answers
\* come late.
THEOREM UsbKeysFollowed == XhciSpec => []UsbKeysFollow
<1>1. XhciInit => XhciInv /\ UsbInv
  BY XhciAssumption, XhciInitInv, UsbInitInv
<1>2. XhciInv /\ UsbInv /\ [XhciNext]_xhciVars => (XhciInv /\ UsbInv)'
  BY XhciAssumption, XhciInvStep, UsbInvStep
<1>3. XhciInv /\ UsbInv => UsbKeysFollow
  BY XhciAssumption, UsbKeysThere
<1> QED
  BY <1>1, <1>2, <1>3, PTL DEF XhciSpec
------------------------------------------------------------------------------
(* The mouse *)

\* A consumer, and the consumer after an event.
Consumer == [btns : SUBSET Btns, x : Int, y : Int]
Event == [type : {"btn"}, btn : Btns, down : BOOLEAN] \cup [type : {"move"}, dx : Int, dy : Int]
After(c, e) ==
  IF e.type = "btn" THEN [c EXCEPT !.btns = IF e.down THEN @ \cup {e.btn} ELSE @ \ {e.btn}]
  ELSE [c EXCEPT !.x = @ + e.dx, !.y = @ + e.dy]

\* The events q lead a consumer from a to z.
Leads(q, a, z) ==
  \E f \in [0 .. Len(q) -> Consumer] :
    f[0] = a /\ f[Len(q)] = z /\ \A i \in 1 .. Len(q) : f[i] = After(f[i - 1], q[i])

\* The consumer, and what it should be: the mouse before the packet that is under way.
Consuming == [btns |-> pressed, x |-> pointer[1], y |-> pointer[2]]
Second == IF g_mouse_cycle = 2 THEN g_mouse_bytes[2].n ELSE packet[2 - g_mouse_cycle].n
Third == packet[3 - g_mouse_cycle].n
Known ==
  [btns |-> g_btn_state,
   x |-> IF packet = <<>> THEN spot[1] ELSE spot[1] - AsI8(Second),
   y |-> IF packet = <<>> THEN spot[2] ELSE spot[2] + AsI8(Third)]

MouseTypes ==
  /\ buttons \subseteq Btns /\ g_btn_state \subseteq Btns /\ pressed \subseteq Btns
  /\ spot \in Int \X Int /\ pointer \in Int \X Int
  /\ mqueue \in Seq(Event)

\* The three bytes of a packet, some of which are read.
IsFirst(f) == 3 \in f.bits /\ f.bits \cap {6, 7} = {} /\ {b \in 1 .. 3 : b - 1 \in f.bits} = buttons
IsMove(a) == a.n \in Int /\ Fits(AsI8(a.n))
Parts(f, a, b) ==
  \/ g_mouse_cycle = 0 /\ g_mouse_bytes = <<>> /\ packet = <<f, a, b>>
  \/ g_mouse_cycle = 1 /\ g_mouse_bytes = <<f>> /\ packet = <<a, b>>
  \/ g_mouse_cycle = 2 /\ g_mouse_bytes = <<f, a>> /\ packet = <<b>>
PacketInv ==
  \/ packet = <<>> /\ g_mouse_bytes = <<>> /\ g_mouse_cycle = 0 /\ g_btn_state = buttons
  \/ \E f, a, b : IsFirst(f) /\ IsMove(a) /\ IsMove(b) /\ Parts(f, a, b)

Follows == MouseTypes /\ PacketInv /\ Leads(mqueue, Consuming, Known)
MouseInv == missed \/ Follows

\* Nothing leads nowhere else.
LEMMA NoneLead ==
  ASSUME NEW a \in Consumer
  PROVE  Leads(<<>>, a, a)
<1> DEFINE f == [i \in {0} |-> a]
<1>1. Len(<<>>) = 0 /\ 0 .. 0 = {0} /\ 1 .. 0 = {}
  OBVIOUS
<1>2. f \in [{0} -> Consumer] /\ f[0] = a
  OBVIOUS
<1> QED
  BY <1>1, <1>2 DEF Leads

\* An event takes a consumer to a consumer.
LEMMA AfterIs ==
  ASSUME NEW c \in Consumer, NEW e \in Event
  PROVE  After(c, e) \in Consumer
<1>1. CASE e \in [type : {"btn"}, btn : Btns, down : BOOLEAN]
  BY <1>1 DEF After, Consumer
<1>2. CASE e \in [type : {"move"}, dx : Int, dy : Int]
  <2>1. e.type # "btn" /\ e.dx \in Int /\ e.dy \in Int
    BY <1>2
  <2>2. c.x + e.dx \in Int /\ c.y + e.dy \in Int
    BY <2>1 DEF Consumer
  <2>3. After(c, e) = [c EXCEPT !.x = c.x + e.dx, !.y = c.y + e.dy]
    BY <2>1 DEF After
  <2> QED
    BY <2>2, <2>3 DEF Consumer
<1> QED
  BY <1>1, <1>2 DEF Event

\* One event more.
LEMMA LeadsOn ==
  ASSUME NEW q \in Seq(Event), NEW a, NEW z, NEW e \in Event, Leads(q, a, z)
  PROVE  Leads(Append(q, e), a, After(z, e)) /\ Append(q, e) \in Seq(Event)
<1>1. PICK f \in [0 .. Len(q) -> Consumer] :
        f[0] = a /\ f[Len(q)] = z /\ \A i \in 1 .. Len(q) : f[i] = After(f[i - 1], q[i])
  BY DEF Leads
<1>2. PICK n, r : n = Len(q) /\ r = Append(q, e)
  OBVIOUS
<1>3. n \in Nat /\ Len(r) = n + 1 /\ r[n + 1] = e /\ (\A i \in 1 .. n : r[i] = q[i]) /\ r \in Seq(Event)
  BY <1>2
<1>4. After(z, e) \in Consumer
  BY <1>1, <1>2, <1>3, AfterIs
<1>5. PICK g : g = [i \in 0 .. n + 1 |-> IF i = n + 1 THEN After(z, e) ELSE f[i]]
  OBVIOUS
<1>6. g \in [0 .. n + 1 -> Consumer]
  BY <1>1, <1>2, <1>3, <1>4, <1>5
<1>7. g[0] = a /\ g[n + 1] = After(z, e)
  BY <1>1, <1>3, <1>5
<1>8. ASSUME NEW i \in 1 .. n + 1
      PROVE  g[i] = After(g[i - 1], r[i])
  <2>1. CASE i = n + 1
    <3>1. g[n] = z /\ i - 1 = n
      BY <1>1, <1>2, <1>3, <1>5, <2>1
    <3> QED
      BY <1>3, <1>7, <2>1, <3>1
  <2>2. CASE i # n + 1
    <3>1. i \in 1 .. n /\ i - 1 \in 0 .. n /\ i \in 0 .. n
      BY <1>3, <2>2
    <3>2. g[i] = f[i] /\ g[i - 1] = f[i - 1]
      BY <1>3, <1>5, <3>1
    <3> QED
      BY <1>1, <1>2, <1>3, <3>1, <3>2
  <2> QED
    BY <2>1, <2>2
<1> QED
  BY <1>2, <1>3, <1>6, <1>7, <1>8 DEF Leads

\* One event less.
LEMMA LeadsFrom ==
  ASSUME NEW q \in Seq(Event), NEW a, NEW z, q # <<>>, Leads(q, a, z)
  PROVE  Leads(Tail(q), After(a, Head(q)), z) /\ Tail(q) \in Seq(Event) /\ a \in Consumer /\ Head(q) \in Event
<1>1. PICK f \in [0 .. Len(q) -> Consumer] :
        f[0] = a /\ f[Len(q)] = z /\ \A i \in 1 .. Len(q) : f[i] = After(f[i - 1], q[i])
  BY DEF Leads
<1>2. PICK n, r : n = Len(q) - 1 /\ r = Tail(q)
  OBVIOUS
<1>3. n \in Nat /\ Len(q) = n + 1 /\ Len(r) = n /\ Head(q) = q[1] /\ q[1] \in Event
      /\ (\A i \in 1 .. n : r[i] = q[i + 1]) /\ r \in Seq(Event)
  BY <1>2
<1>4. PICK g : g = [i \in 0 .. n |-> f[i + 1]]
  OBVIOUS
<1>5. g \in [0 .. n -> Consumer]
  BY <1>1, <1>3, <1>4
<1>6. g[0] = After(a, q[1]) /\ g[n] = z
  <2>1. f[1] = After(f[0], q[1])
    <3>1. 1 \in 1 .. Len(q) /\ 1 - 1 = 0
      BY <1>3
    <3> QED
      BY <1>1, <3>1
  <2>2. g[0] = f[1] /\ g[n] = f[n + 1]
    BY <1>3, <1>4
  <2> QED
    BY <1>1, <1>3, <2>1, <2>2
<1>7. ASSUME NEW i \in 1 .. n
      PROVE  g[i] = After(g[i - 1], r[i])
  <2>1. i + 1 \in 1 .. n + 1 /\ (i + 1) - 1 = i /\ i \in 0 .. n /\ i - 1 \in 0 .. n /\ (i - 1) + 1 = i
    BY <1>3
  <2>2. f[i + 1] = After(f[i], q[i + 1])
    BY <1>1, <1>3, <2>1
  <2>3. g[i] = f[i + 1] /\ g[i - 1] = f[i]
    BY <1>4, <2>1
  <2> QED
    BY <1>3, <2>2, <2>3
<1>8. Leads(r, After(a, q[1]), z)
  BY <1>3, <1>5, <1>6, <1>7 DEF Leads
<1>9. a \in Consumer
  BY <1>1, <1>3
<1> QED
  BY <1>2, <1>3, <1>8, <1>9


\* A button that changed is the event for it.
LEMMA ButtonLeads ==
  ASSUME NEW q \in Seq(Event), NEW a, NEW z \in Consumer, Leads(q, a, z), NEW b \in 1 .. 3,
         NEW old \in SUBSET Btns, NEW new \in SUBSET Btns, b \in z.btns <=> b \in old
  PROVE  /\ q \o Reported(b, old, new) \in Seq(Event)
         /\ Leads(q \o Reported(b, old, new), a, [z EXCEPT !.btns = (@ \ {b}) \cup (new \cap {b})])
<1>1. PICK y : y = [z EXCEPT !.btns = (z.btns \ {b}) \cup (new \cap {b})]
  OBVIOUS
<1>2. CASE b \in old <=> b \in new
  <2>1. Reported(b, old, new) = <<>>
    BY <1>2 DEF Reported
  <2>2. (z.btns \ {b}) \cup (new \cap {b}) = z.btns
    BY <1>2
  <2>3. y = z
    BY <1>1, <2>2 DEF Consumer
  <2>4. q \o <<>> = q
    OBVIOUS
  <2> QED
    BY <1>1, <2>1, <2>3, <2>4
<1>3. CASE ~(b \in old <=> b \in new)
  <2>1. PICK e : e = BtnEvent(b, b \in new)
    OBVIOUS
  <2>2. b \in Btns
    BY <1>3
  <2>3. e \in Event
    BY <2>1, <2>2 DEF BtnEvent, Event
  <2>4. Reported(b, old, new) = <<e>> /\ q \o <<e>> = Append(q, e)
    BY <1>3, <2>1 DEF Reported
  <2>5. After(z, e) = y
    <3>1. e.type = "btn" /\ e.btn = b /\ (e.down <=> b \in new)
      BY <2>1 DEF BtnEvent
    <3>2. (IF e.down THEN z.btns \cup {e.btn} ELSE z.btns \ {e.btn}) = (z.btns \ {b}) \cup (new \cap {b})
      BY <3>1
    <3> QED
      BY <1>1, <3>1, <3>2 DEF After
  <2>6. Leads(Append(q, e), a, After(z, e)) /\ Append(q, e) \in Seq(Event)
    BY <2>3, LeadsOn
  <2> QED
    BY <1>1, <2>4, <2>5, <2>6
<1> QED
  BY <1>2, <1>3

\* A packet is its events.
LEMMA PacketLeads ==
  ASSUME MouseAssumption, NEW q \in Seq(Event), NEW a, NEW z \in Consumer, Leads(q, a, z),
         NEW new \in SUBSET Btns, NEW dx \in Int, NEW dy \in Int
  PROVE  LET all == q \o Reported(1, z.btns, new) \o Reported(2, z.btns, new) \o Reported(3, z.btns, new)
                      \o Moved(dx, dy)
         IN /\ all \in Seq(Event)
            /\ Leads(all, a, [btns |-> new, x |-> z.x + dx, y |-> z.y + dy])
<1>1. PICK old, q1, q2, q3, z1, z2, z3 :
        /\ old = z.btns
        /\ q1 = q \o Reported(1, old, new) /\ q2 = q1 \o Reported(2, old, new) /\ q3 = q2 \o Reported(3, old, new)
        /\ z1 = [z EXCEPT !.btns = (z.btns \ {1}) \cup (new \cap {1})]
        /\ z2 = [z1 EXCEPT !.btns = (z1.btns \ {2}) \cup (new \cap {2})]
        /\ z3 = [z2 EXCEPT !.btns = (z2.btns \ {3}) \cup (new \cap {3})]
  OBVIOUS
<1>2. old \in SUBSET Btns /\ z.x \in Int /\ z.y \in Int
  BY <1>1 DEF Consumer
<1>3. /\ z1 \in Consumer /\ z1.btns = (old \ {1}) \cup (new \cap {1}) /\ z1.x = z.x /\ z1.y = z.y
  BY <1>1, <1>2 DEF Consumer
<1>4. /\ z2 \in Consumer /\ z2.btns = (z1.btns \ {2}) \cup (new \cap {2}) /\ z2.x = z.x /\ z2.y = z.y
  BY <1>1, <1>2, <1>3 DEF Consumer
<1>5. /\ z3 \in Consumer /\ z3.btns = (z2.btns \ {3}) \cup (new \cap {3}) /\ z3.x = z.x /\ z3.y = z.y
  BY <1>1, <1>2, <1>4 DEF Consumer
<1>6. z3.btns = new
  <2>1. old \subseteq 1 .. 3 /\ new \subseteq 1 .. 3
    BY <1>2 DEF MouseAssumption
  <2>2. \A b \in 1 .. 3 : b = 1 \/ b = 2 \/ b = 3
    OBVIOUS
  <2> QED
    BY <1>3, <1>4, <1>5, <2>1, <2>2
<1>7. q1 \in Seq(Event) /\ Leads(q1, a, z1)
  <2>1. 1 \in 1 .. 3 /\ (1 \in z.btns <=> 1 \in old)
    BY <1>1
  <2> QED
    BY <1>1, <1>2, <2>1, ButtonLeads
<1>8. q2 \in Seq(Event) /\ Leads(q2, a, z2)
  <2>1. 2 \in 1 .. 3 /\ (2 \in z1.btns <=> 2 \in old)
    BY <1>3
  <2> QED
    BY <1>1, <1>2, <1>3, <1>7, <2>1, ButtonLeads
<1>9. q3 \in Seq(Event) /\ Leads(q3, a, z3)
  <2>1. 3 \in 1 .. 3 /\ (3 \in z2.btns <=> 3 \in old)
    BY <1>3, <1>4
  <2> QED
    BY <1>1, <1>2, <1>4, <1>8, <2>1, ButtonLeads, ZenonT(60)
<1>10. PICK y : y = [btns |-> new, x |-> z.x + dx, y |-> z.y + dy]
  OBVIOUS
<1>11. q3 \o Moved(dx, dy) \in Seq(Event) /\ Leads(q3 \o Moved(dx, dy), a, y)
  <2>1. CASE dx # 0 \/ dy # 0
    <3>1. PICK e : e = MoveEvent(dx, dy)
      OBVIOUS
    <3>2. e \in Event /\ e.type = "move" /\ e.dx = dx /\ e.dy = dy
      BY <3>1 DEF MoveEvent, Event
    <3>3. Moved(dx, dy) = <<e>> /\ q3 \o <<e>> = Append(q3, e)
      BY <1>9, <2>1, <3>1 DEF Moved
    <3>4. After(z3, e) = [z3 EXCEPT !.x = z.x + dx, !.y = z.y + dy]
      BY <1>5, <3>2 DEF After
    <3>5. After(z3, e) = y
      BY <1>5, <1>6, <1>10, <3>4 DEF Consumer
    <3> QED
      BY <1>9, <3>2, <3>3, <3>5, LeadsOn
  <2>2. CASE dx = 0 /\ dy = 0
    <3>1. Moved(dx, dy) = <<>> /\ q3 \o <<>> = q3
      BY <1>9, <2>2 DEF Moved
    <3>2. z.x + dx = z.x /\ z.y + dy = z.y
      BY <1>2, <2>2
    <3>3. y = z3
      BY <1>5, <1>6, <1>10, <3>2 DEF Consumer
    <3> QED
      BY <1>9, <3>1, <3>3
  <2> QED
    BY <2>1, <2>2
<1> QED
  BY <1>1, <1>10, <1>11

\* A movement that fits comes out of its byte.
LEMMA ByteIs ==
  ASSUME MouseAssumption, NEW d \in Int, Fits(d)
  PROVE  AsI8(AsByte(d)) = d /\ Fits(-d) /\ AsByte(d) \in Int
<1>1. PICK h : h = SignBit
  OBVIOUS
<1>2. h \in Nat \ {0} /\ d \in -h + 1 .. h - 1
  BY <1>1 DEF SignBit, Fits
<1>3. d % (2 * h) = IF d >= 0 THEN d ELSE d + 2 * h
  <2>1. PICK w : w = 2 * h
    OBVIOUS
  <2>2. w \in Nat \ {0} /\ d > -w /\ d < w
    BY <1>2, <2>1
  <2>4. CASE d >= 0
    <3>1. d % w = d
      BY <2>2, <2>4
    <3> QED
      BY <2>1, <2>4, <3>1
  <2>5. CASE d < 0
    <3>1. d = w * (-1) + (d + w) /\ d + w \in 0 .. w - 1
      BY <2>2, <2>5
    <3>2. d % w = d + w
      BY <2>2, <2>5, <3>1
    <3> QED
      BY <1>2, <2>1, <2>5, <3>2
  <2> QED
    BY <1>2, <2>4, <2>5
<1> QED
  BY <1>1, <1>2, <1>3 DEF AsByte, AsI8, Fits

\* At the start nobody has moved.
LEMMA MouseInitInv == MouseInit => MouseInv
<1> SUFFICES ASSUME MouseInit PROVE MouseInv
  OBVIOUS
<1>1. MouseTypes /\ PacketInv
  BY DEF MouseInit, MouseTypes, PacketInv
<1>2. Consuming \in Consumer
  BY DEF Consuming, Consumer, MouseInit
<1>3. Known = Consuming /\ mqueue = <<>>
  BY DEF Known, Consuming, MouseInit
<1> QED
  <2>1. Leads(mqueue, Consuming, Known)
    BY <1>2, <1>3, NoneLead
  <2> QED
    BY <1>1, <2>1 DEF MouseInv, Follows

\* A report puts its movement on the wire.
LEMMA ReportKeeps ==
  ASSUME MouseAssumption, MouseInv, NEW btns \in SUBSET Btns, NEW m \in Moves, MouseReports(btns, m)
  PROVE  MouseInv'
<1> SUFFICES ASSUME ~(missed') PROVE Follows'
  BY DEF MouseInv, Follows
<1>1. /\ packet = <<>> /\ ~missed /\ Fits(m[1]) /\ Fits(m[2])
      /\ UNCHANGED <<g_mouse_cycle, g_mouse_bytes, g_btn_state, mqueue, pressed, pointer>>
      /\ buttons' = btns /\ spot' = <<spot[1] + m[1], spot[2] - m[2]>>
      /\ packet' = <<Flags(btns, m), Byte(AsByte(m[1])), Byte(AsByte(m[2]))>>
  BY DEF MouseReports
<1>2. MouseTypes /\ PacketInv /\ Leads(mqueue, Consuming, Known)
  BY <1>1 DEF MouseInv, Follows
<1>3. g_mouse_bytes = <<>> /\ g_mouse_cycle = 0
  BY <1>1, <1>2 DEF PacketInv, Parts
<1>4. PICK f, a, b, d, e : f = Flags(btns, m) /\ a = Byte(AsByte(m[1])) /\ b = Byte(AsByte(m[2])) /\ d = m[1] /\ e = m[2]
  OBVIOUS
<1>5. d \in Int /\ e \in Int /\ AsI8(a.n) = d /\ AsI8(b.n) = e /\ a.n \in Int /\ b.n \in Int
  <2>1. d \in Int /\ e \in Int
    BY <1>4 DEF MouseAssumption
  <2>2. a.n = AsByte(d) /\ b.n = AsByte(e)
    BY <1>4 DEF Byte
  <2> QED
    BY <1>1, <1>4, <2>1, <2>2, ByteIs
<1>6. ~Overflows(d) /\ ~Overflows(e)
  <2>1. d \in -SignBit + 1 .. SignBit - 1 /\ e \in -SignBit + 1 .. SignBit - 1 /\ SignBit \in Nat
    BY <1>1, <1>4 DEF Fits, SignBit
  <2> QED
    BY <2>1 DEF Overflows
<1>7. IsFirst(f)'
  <2>1. f.bits = {3} \cup {k - 1 : k \in btns} \cup {i \in {4, 5} : m[i - 3] < 0} \cup {i \in {6, 7} : Overflows(m[i - 5])}
    BY <1>4, Zenon DEF Flags, FlagBits
  <2>2. {i \in {6, 7} : Overflows(m[i - 5])} = {}
    <3>1. 6 - 5 = 1 /\ 7 - 5 = 2
      OBVIOUS
    <3> QED
      BY <1>4, <1>6, <3>1, Zenon
  <2>3. PICK S : S = {i \in {4, 5} : m[i - 3] < 0} /\ S \subseteq {4, 5}
    OBVIOUS
  <2>4. f.bits = {3} \cup {k - 1 : k \in btns} \cup S /\ btns \subseteq 1 .. 3
    BY <2>1, <2>2, <2>3 DEF MouseAssumption
  <2>5. 3 \in f.bits /\ f.bits \cap {6, 7} = {}
    BY ONLY <2>3, <2>4
  <2>6. {k \in 1 .. 3 : k - 1 \in f.bits} = btns
    <3>1. ASSUME NEW k \in 1 .. 3
          PROVE  k - 1 \in f.bits <=> k \in btns
      <4>1. k - 1 # 3 /\ k - 1 \notin S
        BY ONLY <2>3, <3>1
      <4>2. k - 1 \in {j - 1 : j \in btns} <=> k \in btns
        <5>1. \A j \in btns : k - 1 = j - 1 <=> k = j
          BY ONLY <2>4, <3>1
        <5> QED
          BY <5>1
      <4> QED
        BY ONLY <2>4, <4>1, <4>2
    <3> QED
      BY <2>4, <3>1
  <2> QED
    BY <1>1, <2>5, <2>6 DEF IsFirst
<1>8. packet' = <<f, a, b>>
  BY <1>1, <1>4
<1>9. PacketInv'
  <2>1. Parts(f, a, b)' /\ IsMove(a)' /\ IsMove(b)'
    BY <1>1, <1>3, <1>4, <1>5, <1>8 DEF Parts, IsMove
  <2> QED
    BY <1>7, <2>1 DEF PacketInv
<1>10. MouseTypes'
  <2>1. spot[1] + d \in Int /\ spot[2] - e \in Int
    BY <1>2, <1>5 DEF MouseTypes
  <2>2. spot' = <<spot[1] + d, spot[2] - e>>
    BY <1>1, <1>4
  <2>3. spot' \in Int \X Int
    BY <2>1, <2>2
  <2> QED
    BY <1>1, <1>2, <2>3 DEF MouseTypes
<1>11. Known' = Known /\ Consuming' = Consuming
  <2>1. packet'[2] = a /\ packet'[3] = b /\ packet' # <<>> /\ g_mouse_cycle' = 0
    BY <1>1, <1>3, <1>8
  <2>2. Second' = a.n /\ Third' = b.n
    BY <2>1 DEF Second, Third
  <2>3. spot'[1] - AsI8(a.n) = spot[1] /\ spot'[2] + AsI8(b.n) = spot[2]
    BY <1>1, <1>2, <1>4, <1>5, SMTT(30) DEF MouseTypes
  <2>4. Known' = [btns |-> g_btn_state, x |-> spot'[1] - AsI8(a.n), y |-> spot'[2] + AsI8(b.n)]
    BY <1>1, <2>1, <2>2 DEF Known
  <2>5. Known = [btns |-> g_btn_state, x |-> spot[1], y |-> spot[2]]
    BY <1>1 DEF Known
  <2> QED
    BY <1>1, <2>3, <2>4, <2>5 DEF Consuming
<1> QED
  BY <1>1, <1>2, <1>9, <1>10, <1>11 DEF Follows

\* A byte is read.
LEMMA ByteKeeps ==
  ASSUME MouseInv, MouseByte
  PROVE  MouseInv'
<1> SUFFICES ASSUME ~(missed') PROVE Follows'
  BY DEF MouseInv, Follows
<1>1. /\ packet # <<>> /\ g_mouse_cycle < 2 /\ packet' = Tail(packet) /\ ~missed
      /\ UNCHANGED <<buttons, spot, g_btn_state, mqueue, pressed, pointer>>
  BY DEF MouseByte
<1>2. MouseTypes /\ PacketInv /\ Leads(mqueue, Consuming, Known)
  BY <1>1 DEF MouseInv, Follows
<1>3. PICK f, a, b : IsFirst(f) /\ IsMove(a) /\ IsMove(b) /\ Parts(f, a, b)
  BY <1>1, <1>2 DEF PacketInv
<1>4. /\ packet' # <<>> /\ Second = a.n /\ Second' = a.n /\ Third = b.n /\ Third' = b.n
      /\ Parts(f, a, b)'
  <2>1. CASE g_mouse_cycle = 0 /\ g_mouse_bytes = <<>> /\ packet = <<f, a, b>>
    <3>1. packet[2] = a /\ packet[3] = b /\ Head(packet) = f /\ packet' = <<a, b>> /\ packet'[1] = a /\ packet'[2] = b
      BY <1>1, <2>1
    <3>2. g_mouse_cycle' = 1 /\ g_mouse_bytes' = Append(<<>>, f)
      BY <1>3, <2>1, <3>1 DEF MouseByte, Begins, IsFirst
    <3>3. g_mouse_bytes' = <<f>>
      BY <3>2
    <3> QED
      BY <2>1, <3>1, <3>2, <3>3 DEF Second, Third, Parts
  <2>2. CASE g_mouse_cycle = 1 /\ g_mouse_bytes = <<f>> /\ packet = <<a, b>>
    <3>1. packet[1] = a /\ packet[2] = b /\ Head(packet) = a /\ packet' = <<b>> /\ packet'[1] = b
      BY <1>1, <2>2
    <3>2. g_mouse_cycle' = 2 /\ g_mouse_bytes' = Append(<<f>>, a)
      BY <2>2, <3>1 DEF MouseByte
    <3>3. Append(<<f>>, a) = <<f, a>>
      <4>1. PICK q, S : q = Append(<<f>>, a) /\ S = {f, a}
        OBVIOUS
      <4>2. <<f>> \in Seq(S) /\ a \in S
        BY <4>1
      <4>3. q \in Seq(S) /\ Len(q) = 2 /\ q[1] = f /\ q[2] = a
        BY <4>1, <4>2, AppendProperties
      <4>4. PICK r : r = <<f, a>>
        OBVIOUS
      <4>5. r \in Seq(S) /\ Len(r) = 2 /\ r[1] = f /\ r[2] = a
        BY <4>1, <4>4
      <4>6. \A i \in 1 .. 2 : i = 1 \/ i = 2
        OBVIOUS
      <4>7. \A i \in 1 .. Len(q) : q[i] = r[i]
        BY <4>3, <4>5, <4>6
      <4>8. q = r
        BY <4>3, <4>5, <4>7, SeqEqual
      <4> QED
        BY <4>1, <4>4, <4>8
    <3>4. g_mouse_bytes' = <<f, a>> /\ g_mouse_bytes'[2] = a
      BY <3>2, <3>3
    <3>5. Second = a.n /\ Third = b.n
      BY <2>2, <3>1 DEF Second, Third
    <3>6. Second' = a.n /\ Third' = b.n
      BY <3>1, <3>2, <3>4 DEF Second, Third
    <3>7. Parts(f, a, b)'
      BY <3>1, <3>2, <3>4, Zenon DEF Parts
    <3>8. packet' # <<>>
      BY <3>1
    <3> QED
      BY <3>5, <3>6, <3>7, <3>8
  <2> QED
    BY <1>1, <1>3, <2>1, <2>2 DEF Parts
<1>5. PacketInv'
  <2>1. IsFirst(f)' /\ IsMove(a)' /\ IsMove(b)'
    BY <1>1, <1>3 DEF IsFirst, IsMove
  <2> QED
    BY <1>4, <2>1 DEF PacketInv
<1>6. Known' = Known /\ Consuming' = Consuming /\ MouseTypes'
  BY <1>1, <1>2, <1>4 DEF Known, Consuming, MouseTypes
<1> QED
  BY <1>1, <1>2, <1>5, <1>6 DEF Follows

\* The packet is decoded into events that lead to where the mouse is.
LEMMA PacketKeeps ==
  ASSUME MouseAssumption, MouseInv, MousePacket
  PROVE  MouseInv'
<1> SUFFICES ASSUME ~(missed') PROVE Follows'
  BY DEF MouseInv, Follows
<1>1. /\ packet # <<>> /\ g_mouse_cycle = 2 /\ g_mouse_cycle' = 0
      /\ g_mouse_bytes' = <<>> /\ packet' = Tail(packet) /\ ~missed
      /\ UNCHANGED <<buttons, spot, pressed, pointer>>
  BY DEF MousePacket
<1>2. MouseTypes /\ PacketInv /\ Leads(mqueue, Consuming, Known)
  BY <1>1 DEF MouseInv, Follows
<1>3. PICK f, a, b :
        /\ IsFirst(f) /\ IsMove(a) /\ IsMove(b)
        /\ g_mouse_bytes = <<f, a>> /\ packet = <<b>>
  BY <1>1, <1>2 DEF PacketInv, Parts
<1>4. PICK d, e : d = AsI8(a.n) /\ e = AsI8(b.n)
  OBVIOUS
<1>5. d \in Int /\ e \in Int /\ AsI8(AsByte(-e)) = -e /\ -e \in Int
  <2>1. d \in Int /\ e \in Int
    BY <1>3, <1>4 DEF AsI8, SignBit, IsMove
  <2>2. Fits(e) /\ Fits(-e)
    BY <1>3, <1>4, <2>1, ByteIs DEF IsMove
  <2> QED
    BY <2>1, <2>2, ByteIs
<1>6. PICK all : all = mqueue \o Reported(1, g_btn_state, buttons) \o Reported(2, g_btn_state, buttons)
                         \o Reported(3, g_btn_state, buttons) \o Moved(d, -e)
  OBVIOUS
<1>7. g_btn_state' = buttons /\ mqueue' = Kept(all) /\ ~(Len(all) > MouseRoom - 1)
  <2>1. /\ g_mouse_bytes[1] = f /\ f.bits \cap {6, 7} = {} /\ {k \in 1 .. 3 : k - 1 \in f.bits} = buttons
        /\ g_mouse_bytes[2] = a /\ Head(packet) = b
    BY <1>3 DEF IsFirst
  <2> QED
    BY <1>1, <1>4, <1>5, <1>6, <2>1 DEF MousePacket
<1>8. Known.btns = g_btn_state /\ Known.x = spot[1] - d /\ Known.y = spot[2] + e /\ Known \in Consumer
  <2>1. packet # <<>> /\ packet[1] = b /\ g_mouse_bytes[2] = a
    BY <1>3
  <2>2. Second = a.n /\ Third = b.n
    BY <1>1, <2>1 DEF Second, Third
  <2>3. Known = [btns |-> g_btn_state, x |-> spot[1] - d, y |-> spot[2] + e]
    BY <1>4, <2>1, <2>2 DEF Known
  <2> QED
    BY <1>2, <1>5, <2>3 DEF Consumer, MouseTypes
<1>9. PICK z : z = Known
  OBVIOUS
<1>10. all \in Seq(Event) /\ Leads(all, Consuming, [btns |-> buttons, x |-> z.x + d, y |-> z.y + (-e)])
  <2>1. buttons \in SUBSET Btns /\ mqueue \in Seq(Event)
    BY <1>2 DEF MouseTypes
  <2> QED
    BY <1>2, <1>5, <1>6, <1>8, <1>9, <2>1, PacketLeads
<1>11. mqueue' = all
  <2>1. Len(all) \in Nat /\ MouseRoom \in Nat
    BY <1>10 DEF MouseAssumption
  <2> QED
    BY <1>7, <2>1 DEF Kept
<1>12. packet' = <<>>
  BY <1>1, <1>3
<1>13. Known' = [btns |-> buttons, x |-> z.x + d, y |-> z.y + (-e)]
  <2>1. spot[1] \in Int /\ spot[2] \in Int
    BY <1>2 DEF MouseTypes
  <2>2. z.x + d = spot[1] /\ z.y + (-e) = spot[2]
    BY <1>5, <1>8, <1>9, <2>1
  <2> QED
    BY <1>1, <1>7, <1>12, <2>2 DEF Known
<1>14. Consuming' = Consuming /\ MouseTypes' /\ PacketInv'
  BY <1>1, <1>2, <1>7, <1>10, <1>11, <1>12 DEF Consuming, MouseTypes, PacketInv
<1> QED
  BY <1>10, <1>11, <1>13, <1>14 DEF Follows

\* The consumer takes one step of its way.
LEMMA EatKeeps ==
  ASSUME MouseInv, MouseEat
  PROVE  MouseInv'
<1> SUFFICES ASSUME ~(missed') PROVE Follows'
  BY DEF MouseInv, Follows
<1>1. /\ mqueue # <<>> /\ mqueue' = Tail(mqueue) /\ ~missed
      /\ UNCHANGED <<buttons, spot, packet, g_mouse_cycle, g_mouse_bytes, g_btn_state>>
  BY DEF MouseEat
<1>2. MouseTypes /\ PacketInv /\ Leads(mqueue, Consuming, Known)
  BY <1>1 DEF MouseInv, Follows
<1>3. Leads(mqueue', After(Consuming, Head(mqueue)), Known) /\ mqueue' \in Seq(Event)
      /\ Consuming \in Consumer /\ Head(mqueue) \in Event
  BY <1>1, <1>2, LeadsFrom DEF MouseTypes
<1>4. Consuming' = After(Consuming, Head(mqueue)) /\ pressed' \subseteq Btns /\ pointer' \in Int \X Int
  <2>1. PICK e : e = Head(mqueue)
    OBVIOUS
  <2>2. pointer[1] \in Int /\ pointer[2] \in Int /\ pressed \subseteq Btns /\ pointer \in Int \X Int
    BY <1>2 DEF MouseTypes
  <2>3. CASE e.type = "btn"
    <3>1. pressed' = (IF e.down THEN pressed \cup {e.btn} ELSE pressed \ {e.btn}) /\ pointer' = pointer
      BY <2>1, <2>3 DEF MouseEat
    <3>2. e.btn \in Btns
      BY <1>3, <2>1, <2>3 DEF Event
    <3> QED
      BY <2>1, <2>2, <2>3, <3>1, <3>2 DEF After, Consuming
  <2>4. CASE e.type # "btn"
    <3>1. pointer' = <<pointer[1] + e.dx, pointer[2] + e.dy>> /\ pressed' = pressed
      BY <2>1, <2>4 DEF MouseEat
    <3>2. e.dx \in Int /\ e.dy \in Int
      BY <1>3, <2>1, <2>4 DEF Event
    <3>3. pointer[1] + e.dx \in Int /\ pointer[2] + e.dy \in Int
      BY <2>2, <3>2
    <3>4. pointer' \in Int \X Int /\ pointer'[1] = pointer[1] + e.dx /\ pointer'[2] = pointer[2] + e.dy
      BY <3>1, <3>3
    <3>5. After(Consuming, e) = [btns |-> pressed, x |-> pointer[1] + e.dx, y |-> pointer[2] + e.dy]
      BY <2>4 DEF After, Consuming
    <3> QED
      BY <2>1, <2>2, <3>1, <3>4, <3>5 DEF Consuming
  <2> QED
    BY <2>3, <2>4
<1>5. Known' = Known /\ MouseTypes' /\ PacketInv'
  BY <1>1, <1>2, <1>3, <1>4 DEF Known, Second, Third, IsFirst, IsMove, Parts, MouseTypes, PacketInv
<1> QED
  BY <1>3, <1>4, <1>5 DEF Follows

\* The invariant implies the property.
LEMMA PointerDoesFollow == MouseInv => PointerFollows
<1> SUFFICES ASSUME MouseInv, packet = <<>>, mqueue = <<>>, ~missed
             PROVE  pressed = buttons /\ pointer = spot
  BY DEF PointerFollows
<1>1. MouseTypes /\ PacketInv /\ Leads(mqueue, Consuming, Known)
  BY DEF MouseInv, Follows
<1>2. Consuming = Known
  <2>1. Len(mqueue) = 0
    OBVIOUS
  <2> QED
    BY <1>1, <2>1 DEF Leads
<1>3. g_btn_state = buttons
  BY <1>1 DEF PacketInv, Parts
<1>4. Known = [btns |-> g_btn_state, x |-> spot[1], y |-> spot[2]]
  BY DEF Known
<1>5. pressed = g_btn_state /\ pointer[1] = spot[1] /\ pointer[2] = spot[2]
  BY <1>2, <1>4 DEF Consuming
<1> QED
  BY <1>1, <1>3, <1>5 DEF MouseTypes

\* With every event read the consumer has the buttons and the place of the
\* mouse (kern_mouse.c 106-165), until a byte or an event is lost or a movement
\* does not fit, for every length of the ring and any movements.
THEOREM PointerFollowed == MouseSpec => []PointerFollows
<1>1. MouseInit => MouseInv
  BY MouseInitInv
<1>2. MouseInv /\ [MouseNext]_mouseVars => MouseInv'
  <2> SUFFICES ASSUME MouseInv, [MouseNext]_mouseVars PROVE MouseInv'
    OBVIOUS
  <2>1. ASSUME NEW btns \in SUBSET Btns, NEW m \in Moves, MouseReports(btns, m)
        PROVE  MouseInv'
    BY <2>1, MouseAssumption, ReportKeeps
  <2>2. CASE MouseByte
    BY <2>2, ByteKeeps
  <2>3. CASE MousePacket
    BY <2>3, MouseAssumption, PacketKeeps
  <2>4. CASE MouseEat
    BY <2>4, EatKeeps
  <2>5. CASE UNCHANGED mouseVars
    BY <2>5 DEF mouseVars, MouseInv, MouseTypes, PacketInv, IsFirst, IsMove, Parts, Follows, Consuming, Known, Second, Third
  <2>6. CASE LoseByte
    BY <2>6 DEF LoseByte, MouseInv
  <2> QED
    BY <2>1, <2>2, <2>3, <2>4, <2>5, <2>6 DEF MouseNext
<1> QED
  BY <1>1, <1>2, PointerDoesFollow, PTL DEF MouseSpec
=============================================================================

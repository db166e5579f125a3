---- MODULE KernXhci ----
(* The USB driver: the command, event and transfer rings of                  *)
(* kern_xhci_rings.c, the enumeration of a keyboard and the waits of          *)
(* kern_xhci.c, and the decoder of the keyboard's reports, kern_usb_hid.c.    *)
(* main.c calls them from the boot thread in two blocks that are disabled in  *)
(* this commit (158-173 and 389-397); the module is the driver as those       *)
(* blocks run it.                                                             *)
(*                                                                           *)
(* The controller and the devices are external: the controller takes the      *)
(* commands in order and answers each, whether or not the driver still waits, *)
(* gives slot numbers out once, and refuses to address a slot twice.  It does  *)
(* not write to the rings it reads.                                          *)
EXTENDS Naturals, Sequences, SequencesExt

CONSTANTS
  LastPort,       \* xhc.max_ports
  Kinds,          \* per port, what is or will be plugged in: "keyboard", "other"
  AtBoot,         \* ports with a device from the start
  UsbSlots,       \* xhc.max_slots
  Rings,          \* MAX_TRANSFER_RINGS (8), MAX_SLOTS (8)
  CmdRoom,        \* commands the command ring takes (XHCI_CMD_RING_TRBS - 2)
  XferRoom,       \* TRBs a transfer ring takes before the controller is a lap ahead (31)
  EvTrbs,     \* XHCI_EVENT_RING_TRBS
  UsbKeys,        \* keys of the keyboard
  MaxLate         \* bound: waits that time out

ASSUME XhciAssumption ==
  /\ LastPort \in Nat /\ UsbSlots \in Nat /\ Rings \in Nat /\ CmdRoom \in Nat
  /\ EvTrbs \in Nat \ {0, 1} /\ AtBoot \subseteq 1 .. LastPort /\ MaxLate \in Nat

VARIABLES
  hc,                          \* what the controller has been brought up to
  upc, uport, uslot, boot,     \* the driver: its step, the port and slot it is at, whether it scans all ports
  cmds, laid,                  \* commands not taken yet; commands ever put in the ring
  cmd_complete, cmd_comp,      \* the last command event: [ok, slot]
  transfer_done, transfer_ok,
  event_ring, event_dequeue, event_ccs,
  hw_enqueue, hw_ccs,          \* the controller's end of the event ring
  hw_slots,                    \* the controller's slots, in order: [st, port]
  trbs, trbs_laid,             \* transfers the controller has not done; per slot, TRBs laid in its ring
  fetched,                     \* the data stages of this enumeration whose data has arrived
  is_hid, configured,          \* per slot: is_hid_keyboard, configured
  ready, polling,              \* per slot: hid_report_ready; the slots whose polling was started
  plugged, pending_enumerate,
  buf,                         \* per slot: hid_report_buf
  prev, injected,              \* prev_report, one for all slots; the keys the decoder holds down
  ukeys, reported,             \* per slot, the keyboard: the keys down, and those it last reported
  phase, dec,                  \* the decoder's step, and the slot of the report it was last given, or 0
  torn,                        \* history: keys that changed in a report while it was decoded
  late                         \* waits that have timed out
drvVars == <<upc, uport, uslot, boot>>
cmdVars == <<cmds, laid>>
flagVars == <<cmd_complete, cmd_comp, transfer_done, transfer_ok, pending_enumerate, ready>>
evInVars == <<event_ring, hw_enqueue, hw_ccs>>
evOutVars == <<event_dequeue, event_ccs>>
xferVars == <<trbs, trbs_laid, fetched>>
devVars == <<is_hid, configured, polling>>
keysVars == <<ukeys, reported>>
hidVars == <<buf, prev, injected, phase, dec, torn>>
xhciVars == <<hc, drvVars, cmdVars, flagVars, evInVars, evOutVars, hw_slots, xferVars, devVars,
              plugged, keysVars, hidVars, late>>

Ids == 1 .. UsbSlots
NoEvent == [t |-> "none"]
Link == [t |-> "link"]

(* ring_init_full: every entry but the last has the cycle bit that means      *)
(* empty; the last is a link with the bit that means full.                    *)
XhciInit ==
  /\ hc = "unknown" /\ upc = "init" /\ uport = 1 /\ uslot = 0 /\ boot = TRUE
  /\ cmds = <<>> /\ laid = 0
  /\ cmd_complete = FALSE /\ cmd_comp = [ok |-> FALSE, slot |-> 0]
  /\ transfer_done = FALSE /\ transfer_ok = FALSE
  /\ event_ring = [i \in 0 .. EvTrbs - 1 |->
       IF i = EvTrbs - 1 THEN [c |-> 1, e |-> Link] ELSE [c |-> 0, e |-> NoEvent]]
  /\ event_dequeue = 0 /\ event_ccs = 1 /\ hw_enqueue = 0 /\ hw_ccs = 1
  /\ hw_slots = <<>> /\ trbs = <<>> /\ trbs_laid = [s \in Ids |-> 0] /\ fetched = {}
  /\ is_hid = [s \in Ids |-> FALSE] /\ configured = [s \in Ids |-> FALSE]
  /\ ready = [s \in Ids |-> FALSE] /\ polling = {}
  /\ plugged = AtBoot /\ pending_enumerate = 0
  /\ buf = [s \in Ids |-> {}] /\ prev = {} /\ injected = {}
  /\ ukeys = [s \in Ids |-> {}] /\ reported = [s \in Ids |-> {}]
  /\ phase = "none" /\ dec = 0 /\ torn = {} /\ late = 0

(* xhci_init: stop, reset, wait until ready, set up the rings, start.  Any    *)
(* of the waits may time out, and then there is no driver.                    *)
BringUp ==
  /\ upc = "init"
  /\ \/ /\ hc' = CASE hc = "unknown" -> "halted" [] hc = "halted" -> "reset" [] hc = "reset" -> "ready"
                   [] hc = "ready" -> "running"
        /\ upc' = IF hc = "ready" THEN "port" ELSE "init"
     \/ hc' = "failed" /\ upc' = "off"
  /\ UNCHANGED <<uport, uslot, boot, cmdVars, flagVars, evInVars, evOutVars, hw_slots, xferVars,
                 devVars, plugged, keysVars, hidVars, late>>

-----------------------------------------------------------------------------
(* The rings                                                                 *)

(* xhci_post_command: the cycle bit of the ring is never toggled, so once the *)
(* ring has been filled it is full for good.  Posting begins a wait.          *)
PostFails == laid = CmdRoom
Post(c) == ~PostFails /\ cmds' = Append(cmds, c) /\ laid' = laid + 1

(* The TRBs of one transfer.  The controller toggles its cycle at the link    *)
(* and the driver does not: what is laid after it is never taken.             *)
Lay(x, n) == /\ trbs_laid' = [trbs_laid EXCEPT ![x.slot] = IF @ + n > XferRoom THEN XferRoom ELSE @ + n]
             /\ trbs' = IF trbs_laid[x.slot] + n <= XferRoom THEN Append(trbs, x) ELSE trbs

(* xhci_event_dequeue_next.  Of an entry that has been read only the cycle    *)
(* bit is kept.                                                              *)
EventReady == event_ring[event_dequeue].c = event_ccs
Dequeue ==
  /\ EventReady
  /\ event_dequeue' = (event_dequeue + 1) % EvTrbs
  /\ event_ccs' = IF event_dequeue' = 0 THEN 1 - event_ccs ELSE event_ccs
  /\ event_ring' = [event_ring EXCEPT ![event_dequeue].e = NoEvent]
  /\ UNCHANGED <<hw_enqueue, hw_ccs>>

(* One event of xhci_process_events.  A transfer of a keyboard's slot, of any *)
(* endpoint, says that a report has come.                                    *)
Waits == {"enable", "address", "dev", "cfg9", "cfg", "setconf", "setproto", "confep"}
ProcessEvent ==
  /\ upc \in Waits \cup {"flush", "main"} /\ phase = "none" /\ Dequeue
  /\ LET e == event_ring[event_dequeue].e IN
     /\ IF e.t = "cmd" THEN cmd_complete' = TRUE /\ cmd_comp' = [ok |-> e.ok, slot |-> e.slot]
        ELSE UNCHANGED <<cmd_complete, cmd_comp>>
     /\ IF e.t = "xfer"
        THEN /\ transfer_done' = TRUE /\ transfer_ok' = e.ok
             /\ ready' = [ready EXCEPT ![e.slot] = @ \/ (e.ok /\ is_hid[e.slot])]
        ELSE UNCHANGED <<transfer_done, transfer_ok, ready>>
     /\ pending_enumerate' = IF e.t = "port" THEN e.port ELSE pending_enumerate
  /\ UNCHANGED <<hc, drvVars, cmdVars, hw_slots, xferVars, devVars, plugged, keysVars, hidVars, late>>

-----------------------------------------------------------------------------
(* The controller and the devices (external)                                 *)

(* An event is written where the driver has read, and only there.            *)
EventFits == (hw_enqueue + 1) % EvTrbs # event_dequeue
Emit(e) ==
  /\ EventFits
  /\ event_ring' = [event_ring EXCEPT ![hw_enqueue] = [c |-> hw_ccs, e |-> e]]
  /\ hw_enqueue' = (hw_enqueue + 1) % EvTrbs
  /\ hw_ccs' = IF hw_enqueue' = 0 THEN 1 - hw_ccs ELSE hw_ccs

HwUnchanged == UNCHANGED <<hc, drvVars, flagVars, evOutVars, devVars, plugged, laid, trbs_laid, late>>

(* A command is carried out, or refused.                                     *)
HwCommand ==
  /\ cmds # <<>> /\ cmds' = Tail(cmds)
  /\ LET c == Head(cmds)
         can == CASE c.t = "enable" -> Len(hw_slots) < UsbSlots
                  [] c.t = "address" -> hw_slots[c.slot].st = "enabled"
                  [] c.t = "configure" -> hw_slots[c.slot].st = "addressed"
     IN \E ok \in {can, FALSE} :
        /\ hw_slots' = IF ~ok THEN hw_slots
                       ELSE IF c.t = "enable" THEN Append(hw_slots, [st |-> "enabled", port |-> 0])
                       ELSE [hw_slots EXCEPT ![c.slot] =
                              IF c.t = "address" THEN [st |-> "addressed", port |-> c.port]
                              ELSE [@ EXCEPT !.st = "configured"]]
        /\ Emit([t |-> "cmd", ok |-> ok,
                 slot |-> IF c.t # "enable" THEN c.slot ELSE IF ok THEN Len(hw_slots) + 1 ELSE 0])
  /\ HwUnchanged /\ UNCHANGED <<trbs, fetched, keysVars, hidVars>>

(* The controller takes the transfers of each ring in order.  A slot has one  *)
(* ring for its control endpoint and one for the reports.                    *)
SameRing(x, y) == x.slot = y.slot /\ (x.t = "report" <=> y.t = "report")
FirstOfRing(i) == \A j \in 1 .. i - 1 : ~SameRing(trbs[j], trbs[i])

(* A control transfer is carried out, with its data, or fails.               *)
HwControl(i) ==
  /\ trbs[i].t # "report" /\ FirstOfRing(i) /\ trbs' = RemoveAt(trbs, i)
  /\ \E ok \in BOOLEAN :
     /\ ok => hw_slots[trbs[i].slot].st # "enabled"
     /\ fetched' = IF ok /\ trbs[i].slot = uslot THEN fetched \cup {trbs[i].t} ELSE fetched
     /\ Emit([t |-> "xfer", ok |-> ok, slot |-> trbs[i].slot])
  /\ HwUnchanged /\ UNCHANGED <<cmds, hw_slots, keysVars, hidVars>>

(* A keyboard reports its keys, when they have changed, into the buffer of    *)
(* its slot, if a transfer waits for a report.  A report that comes between    *)
(* two of the decoder's reads of that buffer tears the keys that differ.      *)
Changed(a, b) == (a \ b) \cup (b \ a)
HwReport(i) ==
  /\ trbs[i].t = "report" /\ FirstOfRing(i) /\ trbs' = RemoveAt(trbs, i)
  /\ LET s == trbs[i].slot IN
     /\ hw_slots[s].st = "configured" /\ reported[s] # ukeys[s]
     /\ buf' = [buf EXCEPT ![s] = ukeys[s]] /\ reported' = [reported EXCEPT ![s] = ukeys[s]]
     /\ Emit([t |-> "xfer", ok |-> TRUE, slot |-> s])
     /\ torn' = IF phase \in {"press", "save"} /\ s = dec THEN torn \cup Changed(buf[s], ukeys[s]) ELSE torn
  /\ HwUnchanged /\ UNCHANGED <<cmds, fetched, hw_slots, ukeys, prev, injected, phase, dec>>

(* A key of a keyboard goes down or up; a device is plugged in.              *)
UsbKey(s, k) ==
  /\ s \in DOMAIN hw_slots /\ hw_slots[s].st = "configured"
  /\ ukeys' = [ukeys EXCEPT ![s] = Changed(@, {k})]
  /\ HwUnchanged /\ UNCHANGED <<cmds, trbs, fetched, hw_slots, evInVars, reported, hidVars>>
Plug(p) ==
  /\ p \notin plugged /\ hc = "running" /\ plugged' = plugged \cup {p}
  /\ Emit([t |-> "port", port |-> p])
  /\ UNCHANGED <<hc, drvVars, flagVars, evOutVars, devVars, cmdVars, late, xferVars, hw_slots, keysVars, hidVars>>

-----------------------------------------------------------------------------
(* Enumeration: xhci_enumerate_keyboard and the loop of main.c over the ports *)

(* The port gave no keyboard: the next one, or the end of the scan; a         *)
(* hot-plugged port is the only one of its scan.                             *)
GiveUp == /\ uport' = IF boot /\ uport < LastPort THEN uport + 1 ELSE uport
          /\ upc' = IF boot /\ uport < LastPort THEN "port" ELSE "main"
          /\ boot' = (boot /\ uport < LastPort)
          /\ UNCHANGED uslot
Goes(step) == upc' = step /\ UNCHANGED <<uport, uslot, boot>>

DrvUnchanged == UNCHANGED <<hc, evInVars, evOutVars, hw_slots, plugged, keysVars, pending_enumerate>>

(* xhci_port_reset and xhci_enable_slot.                                     *)
PortReset ==
  /\ upc = "port"
  /\ \/ /\ uport \in plugged /\ Post([t |-> "enable"]) /\ Goes("enable") /\ cmd_complete' = FALSE
     \/ GiveUp /\ UNCHANGED <<cmdVars, cmd_complete>>
  /\ fetched' = {}
  /\ UNCHANGED <<trbs, trbs_laid, cmd_comp, transfer_done, transfer_ok, ready, devVars, hidVars, late>> /\ DrvUnchanged

(* The answer of a wait for a command about a slot.  A faulty variant takes   *)
(* the answer about any slot.                                                *)
OwnAnswerAny(s) == cmd_comp.ok
OwnAnswer(s) == cmd_comp.ok /\ cmd_comp.slot = s

Answered == ~EventReady /\ cmd_complete

(* The new slot gets a transfer ring, and is addressed.                      *)
EnableDone ==
  /\ upc = "enable" /\ Answered
  /\ LET s == cmd_comp.slot IN
     IF cmd_comp.ok /\ s # 0 /\ s < Rings /\ ~PostFails
     THEN /\ uslot' = s /\ upc' = "address" /\ UNCHANGED <<uport, boot>>
          /\ trbs_laid' = [trbs_laid EXCEPT ![s] = 0]
          /\ Post([t |-> "address", slot |-> s, port |-> uport]) /\ cmd_complete' = FALSE
     ELSE GiveUp /\ UNCHANGED <<cmdVars, trbs_laid, cmd_complete>>
  /\ UNCHANGED <<trbs, fetched, cmd_comp, transfer_done, transfer_ok, ready, devVars, hidVars, late>> /\ DrvUnchanged

AddressDone ==
  /\ upc = "address" /\ Answered
  /\ IF OwnAnswer(uslot) THEN Goes("flush") /\ transfer_done' = FALSE ELSE GiveUp /\ UNCHANGED transfer_done
  /\ UNCHANGED <<cmdVars, xferVars, cmd_complete, cmd_comp, transfer_ok, ready, devVars, hidVars, late>> /\ DrvUnchanged

(* xhci_control_transfer: the stages are laid, and the wait begins.          *)
Control(step, n) ==
  /\ Goes(step) /\ Lay([t |-> step, slot |-> uslot], n)
  /\ transfer_done' = FALSE /\ transfer_ok' = FALSE

(* The events that came meanwhile are dropped, and the device is asked for    *)
(* its descriptor.                                                           *)
Flushed ==
  /\ upc = "flush" /\ ~EventReady
  /\ is_hid' = [is_hid EXCEPT ![uslot] = FALSE] /\ configured' = [configured EXCEPT ![uslot] = FALSE]
  /\ Control("dev", 3)
  /\ UNCHANGED <<cmdVars, fetched, cmd_complete, cmd_comp, ready, polling, hidVars, late>> /\ DrvUnchanged

(* A control transfer has been answered, by whatever transfer: the next       *)
(* stage.  The configuration tells whether this is a keyboard; it reads as    *)
(* empty when the data has not come.                                         *)
IsKeyboard == {"cfg9", "cfg"} \subseteq fetched /\ Kinds[uport] = "keyboard"
NextStage ==
  /\ ~EventReady /\ transfer_done
  /\ \/ upc = "dev" /\ transfer_ok /\ Control("cfg9", 3) /\ UNCHANGED <<is_hid, configured>>
     \/ upc = "cfg9" /\ transfer_ok /\ Control("cfg", 3) /\ UNCHANGED <<is_hid, configured>>
     \/ /\ upc = "cfg" /\ transfer_ok /\ IsKeyboard
        /\ is_hid' = [is_hid EXCEPT ![uslot] = TRUE] /\ Control("setconf", 2) /\ UNCHANGED configured
     \/ /\ upc = "setconf" /\ transfer_ok
        /\ configured' = [configured EXCEPT ![uslot] = TRUE] /\ Control("setproto", 2) /\ UNCHANGED is_hid
     \/ /\ upc \in {"dev", "cfg9", "cfg", "setconf"}
        /\ ~transfer_ok \/ (upc = "cfg" /\ ~IsKeyboard)
        /\ GiveUp /\ UNCHANGED <<trbs, trbs_laid, transfer_done, transfer_ok, is_hid, configured>>
  /\ UNCHANGED <<cmdVars, fetched, cmd_complete, cmd_comp, ready, polling, hidVars, late>> /\ DrvUnchanged

(* SET_PROTOCOL has been answered, or has timed out: the interrupt endpoint   *)
(* gets a ring, in the place of the one of the control endpoint.             *)
Configure ==
  /\ trbs_laid' = [trbs_laid EXCEPT ![uslot] = 0]
  /\ IF PostFails THEN GiveUp /\ UNCHANGED <<cmdVars, cmd_complete>>
     ELSE Post([t |-> "configure", slot |-> uslot]) /\ Goes("confep") /\ cmd_complete' = FALSE
ProtocolSet ==
  /\ upc = "setproto" /\ ~EventReady /\ transfer_done /\ Configure
  /\ UNCHANGED <<trbs, fetched, cmd_comp, transfer_done, transfer_ok, ready, devVars, hidVars, late>> /\ DrvUnchanged

(* xhci_kbd_start_polling.                                                   *)
ConfigureDone ==
  /\ upc = "confep" /\ Answered
  /\ IF OwnAnswer(uslot)
     THEN /\ upc' = "main" /\ boot' = FALSE /\ UNCHANGED <<uport, uslot>>
          /\ polling' = polling \cup {uslot} /\ ready' = [ready EXCEPT ![uslot] = FALSE]
          /\ buf' = [buf EXCEPT ![uslot] = {}] /\ Lay([t |-> "report", slot |-> uslot], 1)
     ELSE GiveUp /\ UNCHANGED <<polling, ready, buf, trbs, trbs_laid>>
  /\ UNCHANGED <<cmdVars, fetched, cmd_complete, cmd_comp, transfer_done, transfer_ok, is_hid, configured,
                 prev, injected, phase, dec, torn, late>> /\ DrvUnchanged

(* A wait ends without an answer, which may still come.                      *)
Timeout ==
  /\ upc \in Waits /\ ~EventReady /\ late < MaxLate /\ late' = late + 1
  /\ \/ upc \in {"enable", "address", "confep"} /\ ~cmd_complete /\ GiveUp
        /\ UNCHANGED <<cmdVars, trbs_laid, cmd_complete>>
     \/ upc \in {"dev", "cfg9", "cfg", "setconf"} /\ ~transfer_done /\ GiveUp
        /\ UNCHANGED <<cmdVars, trbs_laid, cmd_complete>>
     \/ upc = "setproto" /\ ~transfer_done /\ Configure
  /\ UNCHANGED <<trbs, fetched, cmd_comp, transfer_done, transfer_ok, ready, devVars, hidVars>> /\ DrvUnchanged

-----------------------------------------------------------------------------
(* The main loop: kbd_usb_poll, and xhci_pending_enumerate                   *)

(* xhci_kbd_get_report: the next transfer is queued into the same buffer      *)
(* before the report in it is decoded, for every keyboard that took its       *)
(* configuration, also one whose polling was never started.                  *)
GetReport(s) ==
  /\ upc = "main" /\ phase = "none" /\ ~EventReady /\ ready[s]
  /\ ready' = [ready EXCEPT ![s] = FALSE] /\ phase' = "release" /\ dec' = s
  /\ IF is_hid[s] /\ configured[s] THEN Lay([t |-> "report", slot |-> s], 1) ELSE UNCHANGED <<trbs, trbs_laid>>
  /\ UNCHANGED <<drvVars, cmdVars, fetched, cmd_complete, cmd_comp, transfer_done, transfer_ok, devVars,
                 buf, prev, injected, torn, late>> /\ DrvUnchanged

(* kbd_hid_process_report, which reads the buffer three times: the keys that  *)
(* went up, those that went down, and what to compare the next report with.  *)
(* A key that is injected is torn no more.  A faulty variant keeps the report  *)
(* before it looks for presses.                                              *)
ReleaseGone == injected' = injected \ (prev \ buf[dec]) /\ torn' = torn \ (prev \ buf[dec]) /\ UNCHANGED prev
PressNew == injected' = injected \cup (buf[dec] \ prev) /\ torn' = torn \ (buf[dec] \ prev) /\ UNCHANGED prev
SaveReport == prev' = buf[dec] /\ UNCHANGED <<injected, torn>>
DecodeEarly ==
  \/ phase = "release" /\ phase' = "save" /\ ReleaseGone
  \/ phase = "save" /\ phase' = "press" /\ SaveReport
  \/ phase = "press" /\ phase' = "none" /\ PressNew
Decode ==
  \/ phase = "release" /\ phase' = "press" /\ ReleaseGone
  \/ phase = "press" /\ phase' = "save" /\ PressNew
  \/ phase = "save" /\ phase' = "none" /\ SaveReport
ProcessReport ==
  /\ Decode
  /\ UNCHANGED <<drvVars, cmdVars, xferVars, cmd_complete, cmd_comp, transfer_done, transfer_ok, ready, devVars,
                 buf, dec, late>> /\ DrvUnchanged

Hotplug ==
  /\ upc = "main" /\ phase = "none" /\ pending_enumerate # 0 /\ pending_enumerate' = 0
  /\ uport' = pending_enumerate /\ upc' = "port" /\ UNCHANGED <<uslot, boot>>
  /\ UNCHANGED <<hc, evInVars, evOutVars, hw_slots, plugged, keysVars, cmdVars, xferVars, cmd_complete, cmd_comp,
                 transfer_done, transfer_ok, ready, devVars, hidVars, late>>

XhciNext ==
  \/ BringUp \/ ProcessEvent \/ HwCommand
  \/ \E i \in DOMAIN trbs : HwControl(i) \/ HwReport(i)
  \/ \E s \in Ids, k \in UsbKeys : UsbKey(s, k)
  \/ \E p \in 1 .. LastPort : Plug(p)
  \/ PortReset \/ EnableDone \/ AddressDone \/ Flushed \/ NextStage \/ ProtocolSet \/ ConfigureDone \/ Timeout
  \/ \E s \in Ids : GetReport(s)
  \/ ProcessReport \/ Hotplug
XhciSpec == XhciInit /\ [][XhciNext]_xhciVars

-----------------------------------------------------------------------------
(* Although a wait takes whatever completion comes first, that of a command   *)
(* that was given up included, the driver goes on with a device only when the *)
(* controller has addressed its slot for this port, and polls a keyboard only *)
(* when its endpoint has been configured (kern_xhci.c 284-296, 406-412, 450). *)
AnswersAreOwn ==
  /\ upc \in {"flush", "dev", "cfg9", "cfg", "setconf", "setproto", "confep"} =>
       uslot \in DOMAIN hw_slots /\ hw_slots[uslot].st # "enabled" /\ hw_slots[uslot].port = uport
  /\ \A s \in polling : hw_slots[s].st = "configured"

(* At rest, with every report that was made taken, the keys the decoder holds *)
(* down are those the keyboard reported whose report it was given last, since *)
(* prev_report is one for all keyboards.  A key that changed in the report     *)
(* while it was decoded may differ, until it next goes down or up, and no      *)
(* other key does (kern_usb_hid.c 145-216, kern_xhci.c 738-745).               *)
UsbKeysFollow ==
  upc = "main" /\ phase = "none" /\ ~EventReady /\ (\A s \in Ids : ~ready[s])
    => injected \ torn = (IF dec = 0 THEN {} ELSE reported[dec]) \ torn
====

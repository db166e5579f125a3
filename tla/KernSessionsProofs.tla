------------------------- MODULE KernSessionsProofs --------------------------
(***************************************************************************)
(* Proofs that the sessions of KernSessions keep their foreground programs *)
(* and their keys, for every number of sessions and processes and every    *)
(* length of the foreground queue.                                         *)
(*                                                                         *)
(* There are two copies of who is in the foreground: foreground_proc and   *)
(* the pointer of each session.  They are written in several steps by the  *)
(* boot thread while processes write lines, die and are reaped, so the     *)
(* invariant says in which of these steps they may differ, and that the    *)
(* queue behind them holds keys for nobody else.                           *)
(*                                                                         *)
(* And that the terminal emulator keeps its cursors in the grid and its    *)
(* captured output in its buffer, for every size of the grid, any          *)
(* parameters of the escape sequences and lines of any length.             *)
(***************************************************************************)
EXTENDS KernSessions, KernTerminal, SequenceTheorems, WellFoundedInduction, TLAPS

Contents == [of : Sessions, queue : Seq(Procs)]
Spawning == boot.at \in {"fgp", "fg", "start"}

SessionTypes ==
  /\ active \in Sessions
  /\ glob \in Contents /\ slot \in [Sessions -> Contents]
  /\ fgp \in Procs \cup {None} /\ fg \in [Sessions -> Procs \cup {None}]
  /\ home \in [Procs -> Sessions \cup {None}]
  /\ alive \subseteq Procs /\ dead \subseteq alive /\ front \subseteq Procs
  /\ thread \in [Procs -> {"none", "run", "line"}]
  /\ saved \in [Procs -> Sessions \cup {None}]
  /\ boot \in [at : {"loop", "kill", "clear", "fgp", "fg", "start", "wait"}, p : Procs \cup {None}]

\* What is made when: a session, then a structure, then a thread.
Made ==
  /\ \A p \in Procs : thread[p] # "none" => p \in alive
  /\ \A p \in alive \cup front : home[p] \in Sessions
  /\ \A p \in Writing : saved[p] \in Sessions
  /\ ~BootAt("loop") => boot.p \in Procs
  /\ Spawning => boot.p \in alive \ dead /\ thread[boot.p] = "none"
  /\ BootAt("fgp") \/ BootAt("fg") => boot.p \in front
  /\ BootAt("clear") => ~Running(boot.p)

\* Unless a line was crossed, one thread writes one and has begun it alone.
OneLine ==
  /\ ~lineActive => Writing = {}
  /\ \A p, q \in Writing : p = q

\* Who holds the pointers of session s, if it is shown or not.
Holds(s, p) == fg[s] = p /\ (Shown = s => fgp = p)

\* The process under construction has the session shown to itself.
SpawnAlone ==
  Spawning =>
    /\ home[boot.p] = Shown
    /\ Comp \in alive /\ home[Comp] = Shown => thread[Comp] = "none"
    /\ boot.p \in front => \A q \in front : Running(q) => home[q] # Shown
    /\ BootAt("fgp") \/ BootAt("fg") => fg[Shown] = None
    /\ BootAt("fg") => fgp = boot.p
    /\ BootAt("start") /\ boot.p \in front => fgp = boot.p /\ fg[Shown] = boot.p

PointersAgree ==
  /\ fg[Shown] \in {None, fgp}
  /\ \A p \in front : Running(p) => Holds(home[p], p)
  /\ BootAt("wait") /\ boot.p \in alive \cap front => Holds(home[boot.p], boot.p)

KeysFor(q, p) == p # None => \A i \in DOMAIN q : q[i] = p

QueuesBelong ==
  /\ BootAt("fg") \/ KeysFor(glob.queue, fgp)
  /\ \A s \in Sessions \ {Shown} : KeysFor(slot[s].queue, fg[s])

KeyboardKept == GlobalsBelong /\ SpawnAlone /\ PointersAgree /\ QueuesBelong

SessInv ==
  /\ SessionTypes /\ Made /\ ForegroundLive
  /\ ~crossed => OneLine /\ KeyboardKept
------------------------------------------------------------------------------
\* The sessions at boot satisfy the invariant.
LEMMA SessInitInv == SessionInit => SessInv
<1> SUFFICES ASSUME SessionInit PROVE SessInv
  OBVIOUS
<1> USE DEF SessionInit
<1>1. \A s \in Sessions : [of |-> s, queue |-> <<>>] \in Contents
  BY DEF Contents
<1>2. SessionTypes
  BY <1>1 DEF SessionTypes
<1>3. Made /\ ForegroundLive
  BY DEF Made, ForegroundLive, Writing, BootAt, Spawning
<1>4. Writing = {} /\ Shown = active
  BY DEF Writing, Shown
<1>5. OneLine /\ SpawnAlone
  BY <1>4 DEF OneLine, SpawnAlone, Spawning
<1>6. GlobalsBelong /\ PointersAgree /\ QueuesBelong
  BY <1>4 DEF GlobalsBelong, PointersAgree, QueuesBelong, KeysFor, BootAt
<1> QED
  BY <1>2, <1>3, <1>5, <1>6 DEF SessInv, KeyboardKept

\* What is pushed stays a queue of processes.
LEMMA PushedType ==
  ASSUME SessionTypes, NEW p \in Procs
  PROVE  /\ Pushed(p) \in Contents /\ Flushed \in Contents
         /\ Pushed(p).of = glob.of /\ Flushed.of = glob.of /\ Flushed.queue = <<>>
         /\ Pushed(p).queue \in {glob.queue, Append(glob.queue, p)}
<1>1. glob \in [of : Sessions, queue : Seq(Procs)]
  BY DEF SessionTypes, Contents
<1>2. Append(glob.queue, p) \in Seq(Procs) /\ <<>> \in Seq(Procs)
  BY <1>1
<1>3. Flushed \in Contents /\ Flushed.of = glob.of /\ Flushed.queue = <<>>
  BY <1>1, <1>2 DEF Contents, Flushed
<1>4. CASE Len(glob.queue) < Room
  <2>1. Pushed(p) = [glob EXCEPT !.queue = Append(@, p)]
    BY <1>4 DEF Pushed
  <2>2. Pushed(p) \in Contents /\ Pushed(p).of = glob.of /\ Pushed(p).queue = Append(glob.queue, p)
    BY <1>1, <1>2, <2>1 DEF Contents
  <2> QED
    BY <1>3, <2>2
<1>5. CASE ~(Len(glob.queue) < Room)
  BY <1>1, <1>3, <1>5 DEF Pushed, Contents
<1> QED
  BY <1>4, <1>5

\* Every step keeps the types.
LEMMA TypeStep == SessInv /\ [SessionNext]_sessionVars => SessionTypes'
<1> SUFFICES ASSUME SessInv, [SessionNext]_sessionVars PROVE SessionTypes'
  OBVIOUS
<1>0. SessionTypes /\ Made /\ ForegroundLive
  BY DEF SessInv
<1>1. ASSUME NEW s \in Sessions, MainSwitch(s) \/ PollSwitch(s) PROVE SessionTypes'
  BY <1>0, <1>1 DEF SessionTypes, MainSwitch, PollSwitch, Switch
<1>2. CASE MainKey \/ WaitKey
  <2>1. PICK p \in Procs : glob' = Pushed(p)
    BY <1>0, <1>2 DEF SessionTypes, MainKey, WaitKey, Made, BootAt
  <2>2. glob' \in Contents
    BY <1>0, <2>1, PushedType
  <2> QED
    BY <1>0, <1>2, <2>2 DEF SessionTypes, MainKey, WaitKey
<1>3. CASE CtrlCRead \/ CtrlCKill
  BY <1>0, <1>3 DEF SessionTypes, CtrlCRead, CtrlCKill, BootGoto
<1>4. CASE CtrlCClear \/ SpawnSession \/ WaitCtrlC
  <2>1. boot.p \in Procs /\ glob' = Flushed
    BY <1>0, <1>4 DEF Made, BootAt, CtrlCClear, SpawnSession, WaitCtrlC
  <2>2. glob' \in Contents
    BY <1>0, <2>1, PushedType
  <2> QED
    BY <1>0, <1>4, <2>1, <2>2 DEF SessionTypes, CtrlCClear, SpawnSession, WaitCtrlC, BootGoto
<1>5. ASSUME NEW p \in Procs, NEW f \in BOOLEAN, Spawn(p, f) PROVE SessionTypes'
  BY <1>0, <1>5 DEF SessionTypes, Spawn, BootGoto
<1>6. CASE SpawnGlobal \/ WaitDone
  BY <1>0, <1>6 DEF SessionTypes, Made, SpawnGlobal, WaitDone, BootGoto, BootAt
<1>7. ASSUME NEW w \in BOOLEAN, SpawnThread(w) PROVE SessionTypes'
  <2>1. boot' \in {[at |-> "wait", p |-> boot.p], [at |-> "loop", p |-> None]}
    BY <1>7 DEF SpawnThread, BootGoto
  <2>2. boot' \in [at : {"loop", "kill", "clear", "fgp", "fg", "start", "wait"}, p : Procs \cup {None}]
    BY <1>0, <2>1 DEF SessionTypes
  <2> QED
    BY <1>0, <1>7, <2>2 DEF SessionTypes, SpawnThread
<1>8. CASE SpawnFails
  BY <1>0, <1>8 DEF SessionTypes, Made, Spawning, BootAt, SpawnFails, BootGoto, Drop
<1>9. ASSUME NEW p \in Procs, LineBegin(p) \/ LineEnd(p) PROVE SessionTypes'
  <2>1. home[p] \in Sessions /\ (thread[p] = "line" => saved[p] \in Sessions)
    BY <1>0, <1>9 DEF LineBegin, LineEnd, Running, Made, Writing
  <2> QED
    BY <1>0, <1>9, <2>1 DEF SessionTypes, LineBegin, LineEnd
<1>10. ASSUME NEW p \in Procs, Read(p) PROVE SessionTypes'
  <2>1. glob.queue \in Seq(Procs) /\ glob.queue # <<>>
    BY <1>0, <1>10 DEF SessionTypes, Contents, Read
  <2>2. Tail(glob.queue) \in Seq(Procs)
    BY <2>1
  <2>3. glob' \in Contents
    BY <1>0, <1>10, <2>2 DEF SessionTypes, Contents, Read
  <2> QED
    BY <1>0, <1>10, <2>3 DEF SessionTypes, Read
<1>11. ASSUME NEW p \in Procs, Exit(p) \/ Reap(p) PROVE SessionTypes'
  BY <1>0, <1>11 DEF SessionTypes, Made, Running, Exit, Reap, Drop
<1>12. CASE UNCHANGED sessionVars
  BY <1>0, <1>12 DEF SessionTypes, sessionVars
<1> QED
  BY <1>1, <1>2, <1>3, <1>4, <1>5, <1>6, <1>7, <1>8, <1>9, <1>10, <1>11, <1>12 DEF SessionNext

\* Sessions stay made, and the foreground of a session alive.
LEMMA MadeStep == SessInv /\ [SessionNext]_sessionVars => Made' /\ ForegroundLive'
<1> SUFFICES ASSUME SessInv, [SessionNext]_sessionVars PROVE Made' /\ ForegroundLive'
  OBVIOUS
<1>0. SessionTypes /\ Made /\ ForegroundLive
  BY DEF SessInv
<1> USE DEF SessionTypes, Made, ForegroundLive, Running, Writing, BootAt, BootGoto, Spawning
<1>1. ASSUME NEW s \in Sessions, MainSwitch(s) \/ PollSwitch(s) PROVE Made' /\ ForegroundLive'
  BY <1>0, <1>1 DEF MainSwitch, PollSwitch, Switch
<1>2. CASE MainKey \/ WaitKey \/ WaitDone \/ CtrlCRead
  BY <1>0, <1>2 DEF MainKey, WaitKey, WaitDone, CtrlCRead
<1>3. CASE CtrlCKill \/ CtrlCClear \/ WaitCtrlC
  BY <1>0, <1>3 DEF CtrlCKill, CtrlCClear, WaitCtrlC
<1>4. ASSUME NEW p \in Procs, NEW f \in BOOLEAN, Spawn(p, f) PROVE Made' /\ ForegroundLive'
  <2>1. p \notin alive /\ p \notin dead /\ thread[p] = "none"
    BY <1>0, <1>4, SessionAssumption DEF Spawn
  <2> QED
    BY <1>0, <1>4, <2>1 DEF Spawn
<1>5. CASE SpawnGlobal \/ SpawnSession
  BY <1>0, <1>5 DEF SpawnGlobal, SpawnSession
<1>6. ASSUME NEW w \in BOOLEAN, SpawnThread(w) PROVE Made' /\ ForegroundLive'
  BY <1>0, <1>6 DEF SpawnThread
<1>7. CASE SpawnFails
  BY <1>0, <1>7 DEF SpawnFails, Drop
<1>8. ASSUME NEW p \in Procs, LineBegin(p) \/ LineEnd(p) \/ Read(p) \/ Exit(p) PROVE Made' /\ ForegroundLive'
  BY <1>0, <1>8 DEF LineBegin, LineEnd, Read, Exit
<1>9. ASSUME NEW p \in Procs, Reap(p) PROVE Made' /\ ForegroundLive'
  BY <1>0, <1>9 DEF Reap, Drop
<1>10. CASE UNCHANGED sessionVars
  BY <1>0, <1>10 DEF sessionVars
<1> QED
  BY <1>1, <1>2, <1>3, <1>4, <1>5, <1>6, <1>7, <1>8, <1>9, <1>10 DEF SessionNext

------------------------------------------------------------------------------
(* The session shown *)

\* It is the active one when nobody writes, and else what the writer saved.
LEMMA ShownIs ==
  ASSUME OneLine
  PROVE  /\ Writing = {} => Shown = active
         /\ \A p \in Writing : Shown = saved[p]
<1>1. ASSUME NEW p \in Writing PROVE Shown = saved[p]
  <2>1. Writing = {p}
    BY <1>1 DEF OneLine
  <2> QED
    BY <2>1 DEF Shown
<1> QED
  BY <1>1 DEF Shown

\* The steps that neither begin nor end anything and show no other session.
Aside ==
  \/ MainKey \/ CtrlCRead \/ CtrlCKill \/ CtrlCClear
  \/ \E p \in Procs, f \in BOOLEAN : Spawn(p, f)
  \/ SpawnGlobal \/ SpawnSession \/ SpawnFails
  \/ WaitKey \/ WaitCtrlC \/ WaitDone
  \/ \E p \in Procs : Read(p) \/ Exit(p)
  \/ UNCHANGED sessionVars

\* The steps that leave the shown session and the keyboard alone.
LEMMA AsideKeeps == Aside => UNCHANGED <<active, thread, saved, lineActive>>
  BY DEF Aside, MainKey, CtrlCRead, CtrlCKill, CtrlCClear, Spawn, SpawnGlobal, SpawnSession,
     SpawnFails, WaitKey, WaitCtrlC, WaitDone, Read, Exit, sessionVars

\* The steps by what they do to the session shown.
LEMMA Steps ==
  [SessionNext]_sessionVars =>
    \/ Aside
    \/ \E s \in Sessions : MainSwitch(s) \/ PollSwitch(s)
    \/ \E w \in BOOLEAN : SpawnThread(w)
    \/ \E p \in Procs : LineBegin(p) \/ LineEnd(p) \/ Reap(p)
  BY DEF SessionNext, Aside

\* What was crossed stays so.
LEMMA CrossedStays == [SessionNext]_sessionVars /\ ~crossed' => ~crossed
<1>1. Aside /\ ~crossed' => ~crossed
  BY DEF Aside, MainKey, CtrlCRead, CtrlCKill, CtrlCClear, Spawn, SpawnGlobal, SpawnSession,
     SpawnFails, WaitKey, WaitCtrlC, WaitDone, Read, Exit, sessionVars
<1>2. ASSUME NEW s \in Sessions, MainSwitch(s) \/ PollSwitch(s), ~crossed' PROVE ~crossed
  BY <1>2 DEF MainSwitch, PollSwitch, Switch
<1>3. ASSUME NEW w \in BOOLEAN, SpawnThread(w), ~crossed' PROVE ~crossed
  BY <1>3 DEF SpawnThread
<1>4. ASSUME NEW p \in Procs, LineBegin(p) \/ LineEnd(p) \/ Reap(p), ~crossed' PROVE ~crossed
  BY <1>4 DEF LineBegin, LineEnd, Reap
<1> QED
  BY <1>1, <1>2, <1>3, <1>4, Steps

\* Lines begin and end alone, or the line is crossed.
LEMMA OneLineStep == SessInv /\ [SessionNext]_sessionVars /\ ~crossed' => OneLine'
<1> SUFFICES ASSUME SessInv, [SessionNext]_sessionVars, ~crossed' PROVE OneLine'
  OBVIOUS
<1>0. SessionTypes /\ Made /\ OneLine /\ ~crossed
  BY CrossedStays DEF SessInv
<1>1. ASSUME NEW p \in Procs, LineBegin(p) \/ LineEnd(p) PROVE OneLine'
  <2>1. OneLine
    BY <1>0, <1>1 DEF LineBegin, LineEnd
  <2>2. Writing' = (IF LineBegin(p) THEN {p} ELSE {})
    BY <1>0, <1>1, <2>1 DEF OneLine, Writing, LineBegin, LineEnd, SessionTypes
  <2>3. LineEnd(p) => ~LineBegin(p) /\ lineActive' = FALSE
    BY <1>1 DEF LineEnd, LineBegin
  <2>4. LineBegin(p) => lineActive' = TRUE
    BY DEF LineBegin
  <2> QED
    BY <1>1, <2>2, <2>3, <2>4 DEF OneLine
<1>2. ASSUME NEW p \in Procs, Reap(p) PROVE OneLine'
  <2>1. OneLine /\ Writing' = Writing /\ UNCHANGED lineActive
    BY <1>0, <1>2 DEF Reap, Writing, SessionTypes
  <2> QED
    BY <2>1 DEF OneLine
<1>3. ASSUME NEW w \in BOOLEAN, SpawnThread(w) PROVE OneLine'
  <2>1. OneLine /\ Writing' = Writing /\ UNCHANGED lineActive
    BY <1>0, <1>3 DEF SpawnThread, Writing, SessionTypes, Made, Spawning, BootAt
  <2> QED
    BY <2>1 DEF OneLine
<1>4. CASE Aside
  <2>1. OneLine /\ UNCHANGED <<thread, lineActive>>
    BY <1>0, <1>4, AsideKeeps
  <2> QED
    BY <2>1 DEF OneLine, Writing
<1>5. ASSUME NEW s \in Sessions, MainSwitch(s) \/ PollSwitch(s) PROVE OneLine'
  <2>1. OneLine /\ UNCHANGED <<thread, lineActive>>
    BY <1>0, <1>5 DEF MainSwitch, PollSwitch
  <2> QED
    BY <2>1 DEF OneLine, Writing
<1> QED
  BY <1>1, <1>2, <1>3, <1>4, <1>5, Steps

\* Only session_switch shows another session, and not while a line is written.
LEMMA ShownStays ==
  ASSUME SessInv, [SessionNext]_sessionVars, ~crossed',
         ~\E s \in Sessions : MainSwitch(s) \/ PollSwitch(s)
  PROVE  Shown' = Shown
<1>0. SessionTypes /\ Made /\ OneLine /\ ~crossed
  BY CrossedStays DEF SessInv
<1>1. ASSUME NEW p \in Procs, LineBegin(p) PROVE Shown' = Shown
  <2>1. OneLine /\ Writing = {} /\ saved'[p] = active
    BY <1>0, <1>1 DEF LineBegin, OneLine, SessionTypes
  <2>2. OneLine' /\ p \in Writing'
    BY <1>0, <1>1, OneLineStep DEF LineBegin, Writing, SessionTypes
  <2>3. Shown' = saved'[p]
    <3>1. Writing' = {p}
      BY <2>2 DEF OneLine
    <3> QED
      BY <3>1 DEF Shown
  <2> QED
    BY <2>1, <2>3, ShownIs
<1>2. ASSUME NEW p \in Procs, LineEnd(p) PROVE Shown' = Shown
  <2>1. OneLine /\ p \in Writing
    BY <1>0, <1>2 DEF LineEnd, Writing
  <2>2. Writing' = {}
    BY <1>0, <1>2, <2>1 DEF LineEnd, OneLine, Writing, SessionTypes
  <2>3. Shown' = active' /\ active' = saved[p]
    BY <1>2, <2>2 DEF Shown, LineEnd
  <2> QED
    BY <2>1, <2>3, ShownIs
<1>3. ASSUME NEW p \in Procs, Reap(p) PROVE Shown' = Shown
  <2>1. UNCHANGED <<active, saved>> /\ Writing' = Writing
    BY <1>0, <1>3 DEF Reap, Writing, SessionTypes
  <2> QED
    BY <2>1 DEF Shown
<1>4. ASSUME NEW w \in BOOLEAN, SpawnThread(w) PROVE Shown' = Shown
  <2>1. UNCHANGED <<active, saved>> /\ Writing' = Writing
    BY <1>0, <1>4 DEF SpawnThread, Writing, SessionTypes, Made, Spawning, BootAt
  <2> QED
    BY <2>1 DEF Shown
<1>5. CASE Aside
  <2>1. UNCHANGED <<active, saved>> /\ Writing' = Writing
    BY <1>5, AsideKeeps DEF Writing
  <2> QED
    BY <2>1 DEF Shown
<1> QED
  BY <1>1, <1>2, <1>3, <1>4, <1>5, Steps

\* Unless it is in between, the shown session exists.
LEMMA ShownType == SessInv /\ ~crossed => Shown \in Sessions
<1> SUFFICES ASSUME SessInv, ~crossed PROVE Shown \in Sessions
  OBVIOUS
<1>1. OneLine /\ active \in Sessions /\ \A p \in Writing : saved[p] \in Sessions
  BY DEF SessInv, SessionTypes, Made
<1> QED
  BY <1>1, ShownIs

------------------------------------------------------------------------------
(* The foreground *)

\* session_switch: the session left keeps its pointer and its queue.
LEMMA SwitchKeeps ==
  ASSUME SessInv, NEW s \in Sessions, MainSwitch(s) \/ PollSwitch(s), ~crossed'
  PROVE  KeyboardKept'
<1>0. /\ SessionTypes /\ Made /\ OneLine /\ KeyboardKept /\ ~crossed /\ Writing = {}
      /\ Shown = active
  BY ShownIs DEF SessInv, MainSwitch, PollSwitch, Switch
<1>1. ~Spawning /\ ~BootAt("fg")
  <2>1. CASE MainSwitch(s)
    BY <2>1 DEF MainSwitch, BootAt, Spawning
  <2>2. CASE PollSwitch(s)
    BY <2>2, <1>0 DEF PollSwitch, CompActive, KeyboardKept, SpawnAlone, BootAt, Spawning
  <2> QED
    BY <2>1, <2>2
<1>2. Writing' = {} /\ Shown' = s
  <2>1. Writing' = {} /\ active' = s
    BY <1>0 DEF MainSwitch, PollSwitch, Switch, Writing
  <2> QED
    BY <2>1 DEF Shown
<1>3. /\ s # active /\ active \in Sessions
      /\ slot' = [slot EXCEPT ![active] = glob] /\ fg' = [fg EXCEPT ![active] = fgp]
      /\ glob' = slot[s] /\ fgp' = fg[s]
      /\ UNCHANGED <<home, alive, dead, thread, boot, front>>
  BY <1>0 DEF MainSwitch, PollSwitch, Switch, SessionTypes
<1>4. /\ slot'[active] = glob /\ fg'[active] = fgp
      /\ \A r \in Sessions \ {active} : slot'[r] = slot[r] /\ fg'[r] = fg[r]
  BY <1>0, <1>3 DEF SessionTypes
<1>5. GlobalsBelong'
  BY <1>0, <1>2, <1>3, <1>4 DEF KeyboardKept, GlobalsBelong
<1>6. SpawnAlone'
  BY <1>1, <1>3 DEF SpawnAlone, Spawning
<1>7. PointersAgree'
  <2>1. ASSUME NEW p \in front, Holds(home[p], p) PROVE Holds(home[p], p)'
    <3>1. home[p] \in Sessions
      BY <1>0 DEF Made
    <3> QED
      BY <2>1, <3>1, <1>0, <1>2, <1>3, <1>4 DEF Holds
  <2>2. fg'[Shown'] \in {None, fgp'}
    BY <1>2, <1>3, <1>4
  <2>3. \A p \in front : Running(p)' => Running(p)
    BY <1>3 DEF Running
  <2> QED
    BY <1>0, <1>3, <2>1, <2>2, <2>3 DEF KeyboardKept, PointersAgree, BootAt, SessionTypes
<1>8. QueuesBelong'
  <2>1. KeysFor(glob.queue, fgp) /\ \A r \in Sessions \ {active} : KeysFor(slot[r].queue, fg[r])
    BY <1>0, <1>1 DEF KeyboardKept, QueuesBelong
  <2>2. KeysFor(glob'.queue, fgp')
    BY <1>3, <2>1
  <2>3. \A r \in Sessions \ {s} : KeysFor(slot'[r].queue, fg'[r])
    BY <1>3, <1>4, <2>1
  <2> QED
    BY <1>2, <2>2, <2>3 DEF QueuesBelong, KeysFor
<1> QED
  BY <1>5, <1>6, <1>7, <1>8 DEF KeyboardKept

\* Lines, the end of a thread and the steps of the boot thread that touch neither
\* the pointers nor the queues.
LEMMA RestKeeps ==
  ASSUME SessInv, [SessionNext]_sessionVars, ~crossed', Shown' = Shown,
         UNCHANGED <<glob, slot, fgp, fg, home, front>>,
         alive' \subseteq alive,
         \A p \in front : Running(p)' => Running(p),
         boot' = boot \/ (~Spawning' /\ ~BootAt("fg")),
         BootAt("wait")' => boot' = boot,
         Comp \in alive => (thread'[Comp] = "none" <=> thread[Comp] = "none")
  PROVE  KeyboardKept'
<1>0. KeyboardKept /\ ~crossed
  BY CrossedStays DEF SessInv
<1>1. GlobalsBelong'
  BY <1>0 DEF KeyboardKept, GlobalsBelong
<1>2. PointersAgree'
  BY <1>0 DEF KeyboardKept, PointersAgree, Holds, BootAt
<1>3. QueuesBelong'
  BY <1>0 DEF KeyboardKept, QueuesBelong, KeysFor, BootAt, Spawning
<1>4. SpawnAlone'
  BY <1>0 DEF KeyboardKept, SpawnAlone, Spawning, BootAt
<1> QED
  BY <1>1, <1>2, <1>3, <1>4 DEF KeyboardKept

\* Keys are pushed for the program in the foreground and taken from the front.
LEMMA QueueKeeps ==
  ASSUME SessInv, MainKey \/ WaitKey \/ WaitCtrlC \/ \E p \in Procs : Read(p), ~crossed', Shown' = Shown
  PROVE  KeyboardKept'
<1>0. /\ KeyboardKept /\ ~crossed /\ SessionTypes /\ Made /\ Shown \in Sessions
      /\ glob.queue \in Seq(Procs)
  <2>1. ~crossed
    BY DEF MainKey, WaitKey, WaitCtrlC, Read
  <2>2. SessionTypes => glob.queue \in Seq(Procs)
    BY DEF SessionTypes, Contents
  <2> QED
    BY <2>1, <2>2, ShownType DEF SessInv
<1>1. /\ UNCHANGED <<slot, fgp, fg, home, alive, thread, boot, front>>
      /\ dead \subseteq dead'
  BY DEF MainKey, WaitKey, WaitCtrlC, Read
<1>2. glob'.of = glob.of /\ (BootAt("fg") \/ KeysFor(glob'.queue, fgp))
  <2>1. CASE MainKey \/ WaitKey
    <3>1. ~BootAt("fg")
      BY <2>1 DEF MainKey, WaitKey, BootAt
    <3>2. fgp \in Procs /\ glob' = Pushed(fgp)
      <4>1. CASE MainKey
        <5>1. active = Shown /\ fg[active] # None /\ glob' = Pushed(fg[active])
          BY <4>1 DEF MainKey
        <5> QED
          BY <5>1, <1>0 DEF KeyboardKept, PointersAgree, SessionTypes
      <4>2. CASE WaitKey
        BY <4>2, <1>0 DEF WaitKey, KeyboardKept, PointersAgree, Holds, SessionTypes
      <4> QED
        BY <2>1, <4>1, <4>2
    <3>3. KeysFor(glob.queue, fgp)
      BY <1>0, <3>1 DEF KeyboardKept, QueuesBelong
    <3>4. KeysFor(Append(glob.queue, fgp), fgp)
      BY <1>0, <3>2, <3>3 DEF KeysFor
    <3> QED
      BY <1>0, <3>2, <3>3, <3>4, PushedType
  <2>2. CASE WaitCtrlC
    <3>1. glob' = [glob EXCEPT !.queue = <<>>]
      BY <2>2 DEF WaitCtrlC, Flushed
    <3> QED
      BY <3>1, <1>0 DEF KeysFor, SessionTypes, Contents
  <2>3. ASSUME NEW p \in Procs, Read(p) PROVE glob'.of = glob.of /\ (BootAt("fg") \/ KeysFor(glob'.queue, fgp))
    <3>1. glob' = [glob EXCEPT !.queue = Tail(glob.queue)] /\ glob.queue # <<>>
      BY <2>3 DEF Read
    <3>2. glob'.of = glob.of /\ glob'.queue = Tail(glob.queue)
      BY <3>1, <1>0 DEF SessionTypes, Contents
    <3>3. KeysFor(glob.queue, fgp) => KeysFor(Tail(glob.queue), fgp)
      BY <3>1, <1>0 DEF KeysFor
    <3> QED
      BY <3>2, <3>3, <1>0 DEF KeyboardKept, QueuesBelong
  <2> QED
    BY <2>1, <2>2, <2>3
<1>3. GlobalsBelong'
  BY <1>0, <1>1, <1>2 DEF KeyboardKept, GlobalsBelong
<1>4. PointersAgree'
  BY <1>0, <1>1 DEF KeyboardKept, PointersAgree, Holds, BootAt, Running
<1>5. QueuesBelong'
  BY <1>0, <1>1, <1>2 DEF KeyboardKept, QueuesBelong, KeysFor, BootAt
<1>6. SpawnAlone'
  BY <1>0, <1>1 DEF KeyboardKept, SpawnAlone, Spawning, BootAt, Running
<1> QED
  BY <1>3, <1>4, <1>5, <1>6 DEF KeyboardKept

\* Ctrl+C clears the pointer of the session shown, of a process that is dead.
LEMMA ClearKeeps ==
  ASSUME SessInv, CtrlCClear, ~crossed', Shown' = Shown
  PROVE  KeyboardKept'
<1>0. /\ KeyboardKept /\ ~crossed /\ SessionTypes /\ Made /\ Shown \in Sessions
      /\ active = Shown /\ fg[Shown] \in {boot.p, None}
  BY ShownType DEF SessInv, CtrlCClear
<1>1. /\ UNCHANGED <<slot, fgp, home, alive, dead, thread, front>>
      /\ ~Running(boot.p) /\ boot'.at = "loop"
      /\ fg' = [fg EXCEPT ![Shown] = None]
  BY <1>0 DEF CtrlCClear, BootGoto, Made
<1>2. glob'.of = glob.of /\ glob'.queue = <<>>
  BY <1>0 DEF CtrlCClear, Flushed, SessionTypes, Contents
<1>3. /\ fg'[Shown] = None
      /\ \A s \in Sessions \ {Shown} : fg'[s] = fg[s]
  BY <1>0, <1>1 DEF SessionTypes
<1>4. GlobalsBelong'
  BY <1>0, <1>1, <1>2 DEF KeyboardKept, GlobalsBelong
<1>5. PointersAgree'
  <2>1. ASSUME NEW p \in front, Running(p) PROVE Holds(home[p], p) /\ home[p] \in Sessions \ {Shown}
    <3>1. Holds(home[p], p) /\ home[p] \in Sessions /\ p # boot.p /\ p # None
      BY <2>1, <1>0, <1>1, SessionAssumption DEF KeyboardKept, PointersAgree, Made, SessionTypes
    <3> QED
      BY <3>1, <1>0 DEF Holds
  <2> QED
    BY <2>1, <1>0, <1>1, <1>3 DEF PointersAgree, Holds, BootAt, Running
<1>6. QueuesBelong'
  BY <1>0, <1>1, <1>2, <1>3 DEF KeyboardKept, QueuesBelong, KeysFor
<1>7. SpawnAlone'
  BY <1>1 DEF SpawnAlone, Spawning
<1> QED
  BY <1>4, <1>5, <1>6, <1>7 DEF KeyboardKept

\* wasm_spawn begins where nobody is in the foreground.
LEMMA SpawnKeeps ==
  ASSUME SessInv, NEW p \in Procs, NEW f \in BOOLEAN, Spawn(p, f), ~crossed', Shown' = Shown
  PROVE  KeyboardKept'
<1>0. /\ KeyboardKept /\ ~crossed /\ SessionTypes /\ Made /\ Shown \in Sessions
      /\ active = Shown /\ fg[Shown] = None /\ home[p] = None
  BY ShownType DEF SessInv, Spawn
<1>1. p \notin alive /\ p \notin front /\ thread[p] = "none"
  BY <1>0, SessionAssumption DEF Made
<1>2. /\ UNCHANGED <<glob, slot, fgp, fg, dead, thread>>
      /\ home' = [home EXCEPT ![p] = Shown] /\ alive' = alive \cup {p}
      /\ front' = (IF f THEN front \cup {p} ELSE front)
      /\ boot' = [at |-> IF f THEN "fgp" ELSE "start", p |-> p]
      /\ f = FALSE => p \notin front'
  BY <1>0, <1>1 DEF Spawn, BootGoto
<1>3. home'[p] = Shown /\ \A q \in Procs \ {p} : home'[q] = home[q]
  BY <1>0, <1>2 DEF SessionTypes
<1>4. \A q \in front' : Running(q)' => q # p /\ q \in front /\ Running(q)
  BY <1>1, <1>2 DEF Running
<1>5. GlobalsBelong'
  BY <1>0, <1>2 DEF KeyboardKept, GlobalsBelong
<1>6. PointersAgree'
  BY <1>0, <1>2, <1>3, <1>4 DEF KeyboardKept, PointersAgree, Holds, BootAt, SessionTypes
<1>7. QueuesBelong'
  <2>1. ~BootAt("fg")
    BY DEF Spawn, BootAt
  <2> QED
    BY <1>0, <1>2, <2>1 DEF KeyboardKept, QueuesBelong, KeysFor, BootAt
<1>8. SpawnAlone'
  <2>1. Comp \in alive' /\ home'[Comp] = Shown' => thread'[Comp] = "none"
    <3>1. ~(Comp \in alive /\ home[Comp] = Shown)
      BY <1>0 DEF Spawn, CompActive
    <3> QED
      BY <3>1, <1>0, <1>1, <1>2, <1>3 DEF SessionTypes
  <2>2. \A q \in front' : Running(q)' => home'[q] # Shown'
    <3> SUFFICES ASSUME NEW q \in front', Running(q)', home'[q] = Shown PROVE FALSE
      OBVIOUS
    <3>1. q # p /\ q \in front /\ Running(q) /\ q \in Procs
      BY <1>0, <1>4 DEF SessionTypes
    <3>2. fg[Shown] = q
      BY <3>1, <1>0, <1>3 DEF KeyboardKept, PointersAgree, Holds
    <3> QED
      BY <3>1, <3>2, <1>0, SessionAssumption
  <2>3. boot'.p = p /\ boot'.at \in {"fgp", "start"} /\ (p \in front' => boot'.at = "fgp")
    BY <1>2
  <2> QED
    BY <1>0, <1>2, <1>3, <2>1, <2>2, <2>3 DEF SpawnAlone, BootAt, Spawning
<1> QED
  BY <1>5, <1>6, <1>7, <1>8 DEF KeyboardKept

\* It takes the foreground, first the global and then the session's pointer.
LEMMA TakeKeeps ==
  ASSUME SessInv, SpawnGlobal \/ SpawnSession, ~crossed', Shown' = Shown
  PROVE  KeyboardKept'
<1>0. /\ KeyboardKept /\ ~crossed /\ SessionTypes /\ Made /\ Shown \in Sessions
      /\ Spawning /\ (BootAt("fgp") \/ BootAt("fg"))
  <2>1. BootAt("fgp") \/ BootAt("fg")
    BY DEF SpawnGlobal, SpawnSession
  <2>2. ~crossed
    BY CrossedStays DEF SessionNext
  <2> QED
    BY <2>1, <2>2, ShownType DEF SessInv, Spawning, BootAt
<1>1. /\ UNCHANGED <<slot, home, alive, dead, thread, front>>
      /\ boot'.p = boot.p /\ fgp' = boot.p /\ fg[Shown] = None
      /\ boot.p \in front /\ home[boot.p] = Shown
      /\ \A q \in front : Running(q) => home[q] # Shown
  BY <1>0 DEF SpawnGlobal, SpawnSession, BootGoto, Made, KeyboardKept, SpawnAlone, BootAt
<1>2. CASE SpawnGlobal
  <2>1. UNCHANGED <<glob, fg>> /\ boot'.at = "fg"
    BY <1>2 DEF SpawnGlobal, BootGoto
  <2>2. GlobalsBelong' /\ QueuesBelong'
    BY <1>0, <1>1, <2>1 DEF KeyboardKept, GlobalsBelong, QueuesBelong, KeysFor, BootAt
  <2>3. PointersAgree'
    BY <1>0, <1>1, <2>1 DEF KeyboardKept, PointersAgree, Holds, BootAt, Running
  <2>4. SpawnAlone'
    BY <1>0, <1>1, <2>1 DEF KeyboardKept, SpawnAlone, Spawning, BootAt, Running
  <2> QED
    BY <2>2, <2>3, <2>4 DEF KeyboardKept
<1>3. CASE SpawnSession
  <2>1. active = Shown /\ fg' = [fg EXCEPT ![Shown] = boot.p] /\ boot'.at = "start"
    BY <1>3 DEF SpawnSession, BootGoto
  <2>2. fg'[Shown] = boot.p /\ \A s \in Sessions \ {Shown} : fg'[s] = fg[s]
    BY <1>0, <2>1 DEF SessionTypes
  <2>3. glob'.of = glob.of /\ glob'.queue = <<>>
    BY <1>0, <1>3 DEF SpawnSession, Flushed, SessionTypes, Contents
  <2>4. GlobalsBelong' /\ QueuesBelong'
    BY <1>0, <1>1, <2>2, <2>3 DEF KeyboardKept, GlobalsBelong, QueuesBelong, KeysFor
  <2>5. PointersAgree'
    <3>1. \A q \in front : home[q] \in Sessions
      BY <1>0 DEF Made
    <3> QED
      BY <1>0, <1>1, <2>1, <2>2, <3>1 DEF KeyboardKept, PointersAgree, Holds, BootAt, Running
  <2>6. SpawnAlone'
    BY <1>0, <1>1, <2>1, <2>2 DEF KeyboardKept, SpawnAlone, Spawning, BootAt, Running
  <2> QED
    BY <2>4, <2>5, <2>6 DEF KeyboardKept
<1> QED
  BY <1>2, <1>3

\* The new thread has what wasm_spawn prepared for it.
LEMMA StartKeeps ==
  ASSUME SessInv, NEW w \in BOOLEAN, SpawnThread(w), ~crossed', Shown' = Shown
  PROVE  KeyboardKept'
<1>0. /\ KeyboardKept /\ ~crossed /\ SessionTypes /\ Made /\ BootAt("start") /\ Spawning
      /\ boot.p \in Procs /\ ~BootAt("fg")
  BY DEF SessInv, SpawnThread, BootAt, Spawning, Made
<1>1. /\ UNCHANGED <<glob, slot, fgp, fg, home, alive, dead, front>>
      /\ boot'.at \in {"wait", "loop"} /\ (boot'.at = "wait" => boot'.p = boot.p)
  BY DEF SpawnThread, BootGoto
<1>2. \A q \in Procs \ {boot.p} : Running(q)' => Running(q)
  BY <1>0 DEF SpawnThread, Running, SessionTypes
<1>3. boot.p \in front => Holds(home[boot.p], boot.p)
  BY <1>0 DEF KeyboardKept, SpawnAlone, Holds
<1>4. GlobalsBelong' /\ QueuesBelong'
  BY <1>0, <1>1 DEF KeyboardKept, GlobalsBelong, QueuesBelong, KeysFor
<1>5. PointersAgree'
  BY <1>0, <1>1, <1>2, <1>3 DEF KeyboardKept, PointersAgree, Holds, BootAt, SessionTypes
<1>6. SpawnAlone'
  BY <1>1 DEF SpawnAlone, Spawning
<1> QED
  BY <1>4, <1>5, <1>6 DEF KeyboardKept

\* process_exit takes back the pointers of its process and no others.
LEMMA ExitKeeps ==
  ASSUME SessInv, SpawnFails \/ \E p \in Procs : Reap(p), ~crossed', Shown' = Shown
  PROVE  KeyboardKept'
<1>0. /\ KeyboardKept /\ ~crossed /\ SessionTypes /\ Made /\ Shown \in Sessions
  <2>1. [SessionNext]_sessionVars
    BY DEF SessionNext
  <2>2. ~crossed
    BY <2>1, CrossedStays
  <2> QED
    BY <2>2, ShownType DEF SessInv
<1>1. CASE SpawnFails
  <2>1. /\ Spawning /\ ~BootAt("fg") /\ boot.p \in Procs /\ ~Running(boot.p) /\ boot'.at = "loop"
        /\ UNCHANGED <<glob, slot, home, dead, thread, front>>
    BY <1>0, <1>1 DEF SpawnFails, BootGoto, Spawning, BootAt, Made, Running
  <2>2. boot.p \in front => fg[active] = boot.p /\ fgp = boot.p
    BY <1>0, <1>1 DEF SpawnFails, KeyboardKept, SpawnAlone, Spawning, BootAt
  <2>3. fgp' = (IF fgp = boot.p THEN None ELSE fgp) /\ fg' = Drop(boot.p)
    <3>1. Drop(boot.p)[active] = None \/ boot.p \notin front
      BY <1>0, <2>2 DEF Drop, SessionTypes
    <3>2. [Drop(boot.p) EXCEPT ![active] = None] = Drop(boot.p) \/ boot.p \notin front
      BY <3>1 DEF Drop
    <3> QED
      BY <1>1, <2>2, <3>2 DEF SpawnFails
  <2>4. \A s \in Sessions : fg'[s] = (IF fg[s] = boot.p THEN None ELSE fg[s])
    BY <2>3 DEF Drop
  <2>5. GlobalsBelong' /\ SpawnAlone'
    BY <1>0, <2>1 DEF KeyboardKept, GlobalsBelong, SpawnAlone, Spawning
  <2>6. QueuesBelong'
    BY <1>0, <2>1, <2>3, <2>4 DEF KeyboardKept, QueuesBelong, KeysFor
  <2>7. PointersAgree'
    <3>1. \A q \in front : home[q] \in Sessions
      BY <1>0 DEF Made
    <3> QED
      BY <1>0, <2>1, <2>3, <2>4, <3>1 DEF KeyboardKept, PointersAgree, Holds, BootAt, Running
  <2> QED
    BY <2>5, <2>6, <2>7 DEF KeyboardKept
<1>2. ASSUME NEW p \in Procs, Reap(p) PROVE KeyboardKept'
  <2>1. /\ UNCHANGED <<glob, slot, home, boot, front>>
        /\ p \in dead /\ alive' = alive \ {p}
        /\ fgp' = (IF fgp = p THEN None ELSE fgp)
        /\ \A s \in Sessions : fg'[s] = (IF fg[s] = p THEN None ELSE fg[s])
    BY <1>2 DEF Reap, Drop
  <2>2. \A q \in Procs : Running(q)' => Running(q) /\ q # p
    BY <1>0, <1>2 DEF Reap, Running, SessionTypes
  <2>3. \A q \in front : home[q] \in Sessions /\ q \in Procs
    BY <1>0 DEF Made, SessionTypes
  <2>4. Spawning => boot.p # p
    BY <1>0, <2>1 DEF Made
  <2>5. GlobalsBelong' /\ QueuesBelong'
    BY <1>0, <2>1 DEF KeyboardKept, GlobalsBelong, QueuesBelong, KeysFor, BootAt
  <2>6. PointersAgree'
    BY <1>0, <2>1, <2>2, <2>3 DEF KeyboardKept, PointersAgree, Holds, BootAt
  <2>7. SpawnAlone'
    <3>1. Comp \in alive' /\ thread[Comp] = "none" => thread'[Comp] = "none"
      BY <1>0, <1>2 DEF Reap, SessionTypes
    <3> QED
      BY <1>0, <2>1, <2>2, <2>3, <2>4, <3>1 DEF KeyboardKept, SpawnAlone, Spawning, BootAt
  <2> QED
    BY <2>5, <2>6, <2>7 DEF KeyboardKept
<1> QED
  BY <1>1, <1>2

\* Unless a line is crossed, every step keeps the keyboard with the shown session.
LEMMA KeyboardStep == SessInv /\ [SessionNext]_sessionVars /\ ~crossed' => KeyboardKept'
<1> SUFFICES ASSUME SessInv, [SessionNext]_sessionVars, ~crossed' PROVE KeyboardKept'
  OBVIOUS
<1>1. CASE \E s \in Sessions : MainSwitch(s) \/ PollSwitch(s)
  BY <1>1, SwitchKeeps
<1>2. CASE ~\E s \in Sessions : MainSwitch(s) \/ PollSwitch(s)
  <2>0. Shown' = Shown /\ SessionTypes /\ Made
    BY <1>2, ShownStays DEF SessInv
  <2>1. CASE MainKey \/ WaitKey \/ WaitCtrlC \/ \E p \in Procs : Read(p)
    BY <2>0, <2>1, QueueKeeps
  <2>2. CASE CtrlCClear
    BY <2>0, <2>2, ClearKeeps
  <2>3. ASSUME NEW p \in Procs, NEW f \in BOOLEAN, Spawn(p, f) PROVE KeyboardKept'
    BY <2>0, <2>3, SpawnKeeps
  <2>4. CASE SpawnGlobal \/ SpawnSession
    BY <2>0, <2>4, TakeKeeps
  <2>5. ASSUME NEW w \in BOOLEAN, SpawnThread(w) PROVE KeyboardKept'
    BY <2>0, <2>5, StartKeeps
  <2>6. CASE SpawnFails \/ \E p \in Procs : Reap(p)
    BY <2>0, <2>6, ExitKeeps
  <2>7. CASE CtrlCRead \/ CtrlCKill \/ WaitDone
    BY <2>0, <2>7, RestKeeps DEF CtrlCRead, CtrlCKill, WaitDone, BootGoto, BootAt, Spawning, Running
  <2>8. ASSUME NEW p \in Procs, LineBegin(p) \/ LineEnd(p) \/ Exit(p) PROVE KeyboardKept'
    <3>1. /\ UNCHANGED <<glob, slot, fgp, fg, home, alive, boot, front>>
          /\ \A q \in Procs : Running(q)' => Running(q)
          /\ \A q \in Procs : thread'[q] = "none" <=> thread[q] = "none"
      BY <2>0, <2>8 DEF LineBegin, LineEnd, Exit, Running, SessionTypes
    <3> QED
      BY <2>0, <3>1, RestKeeps DEF SessionTypes, BootAt
  <2>9. CASE UNCHANGED sessionVars
    BY <2>0, <2>9, RestKeeps DEF sessionVars, BootAt, Running
  <2> QED
    BY <1>2, <2>1, <2>2, <2>3, <2>4, <2>5, <2>6, <2>7, <2>8, <2>9 DEF SessionNext
<1> QED
  BY <1>1, <1>2

\* Every step keeps the invariant of the sessions.
LEMMA SessInvStep == SessInv /\ [SessionNext]_sessionVars => SessInv'
  BY TypeStep, MadeStep, OneLineStep, KeyboardStep DEF SessInv

\* So it always holds.
LEMMA SessInvariance == SessionSpec => []SessInv
  BY SessInitInv, SessInvStep, PTL DEF SessionSpec

------------------------------------------------------------------------------
(* The theorems *)

\* No foreground pointer outlives its process, every session's globals stay its
\* own, and a program in the foreground keeps its keyboard until it ends.
THEOREM SessionsStayKept == SessionSpec => []SessionsKept
<1>1. SessInv => SessionsKept
  <2> SUFFICES ASSUME SessInv PROVE SessionsKept
    OBVIOUS
  <2>1. GlobalsBelong /\ ForegroundKept
    BY DEF SessInv, KeyboardKept, GlobalsBelong, PointersAgree, Holds, ForegroundKept
  <2> QED
    BY <2>1 DEF SessInv, SessionsKept
<1> QED
  BY <1>1, SessInvariance, PTL

\* The foreground program of the session shown eats only its own keys: a queue
\* that holds keys of another is flushed before the pointer changes.
THEOREM KeysForForeground == SessionSpec => KeysReachForeground
<1> DEFINE Own == \A p \in Procs : Read(p) /\ fg[Shown] = p /\ ~crossed => Head(glob.queue) = p
<1>1. SessInv /\ [SessionNext]_sessionVars => [Own]_sessionVars
  <2> SUFFICES ASSUME SessInv, NEW p \in Procs, Read(p), fg[Shown] = p, ~crossed
               PROVE  Head(glob.queue) = p
    OBVIOUS
  <2>1. /\ KeyboardKept /\ p # None /\ glob.queue \in Seq(Procs) /\ glob.queue # <<>>
    BY SessionAssumption DEF SessInv, SessionTypes, Contents, Read
  <2>2. fgp = p /\ ~BootAt("fg")
    BY <2>1 DEF KeyboardKept, PointersAgree, SpawnAlone, Spawning, BootAt
  <2>3. \A i \in DOMAIN glob.queue : glob.queue[i] = p
    BY <2>1, <2>2 DEF KeyboardKept, QueuesBelong, KeysFor
  <2> QED
    BY <2>1, <2>3
<1> QED
  BY <1>1, SessInvariance, PTL DEF SessionSpec, KeysReachForeground

(* The grid *)

Grids == [Cells -> {Kernel, Program, Blank}]
Across == 0 .. Cols - 1
Down == 0 .. Rows - 1
Parsers == [state : {"ground", "esc", "csi", "osc"}, params : Seq(Nat), private : BOOLEAN]

\* Sessions whose cursor is in one of the columns X and in a row of the grid.
Ttys(X) == [cells : Grids, x : X, y : Down, sx : Across, sy : Down, alt : Grids \cup {NoAlt}]

\* An emulator with its cursor there.
Fields == {"s", "p", "out", "spilled", "guard"}
AtCols(e, X) == DOMAIN e = Fields /\ e.s \in Ttys(X) /\ e.p \in Parsers /\ e.p.params # <<>>
InGrid(e) == AtCols(e, Across)

TermInv ==
  /\ tty \in Ttys(Across) /\ parser \in Parsers /\ parser.params # <<>>
  /\ capture \in Int /\ (capture # NoCapture => capture >= 0 /\ capture < CaptureMax)

\* The size of the grid.
LEMMA GridIs ==
  ASSUME TermAssumption
  PROVE  /\ Cols \in Nat \ {0} /\ Rows \in Nat \ {0}
         /\ 0 \in Across /\ 0 \in Down /\ Cols - 1 \in Across /\ Rows - 1 \in Down
  BY DEF TermAssumption, Across, Down

\* An emulator of which only the session is changed.
LEMMA SessionOnly ==
  ASSUME NEW e, InGrid(e), NEW t \in Ttys(Across)
  PROVE  InGrid([e EXCEPT !.s = t])
<1>1. PICK d : d = [e EXCEPT !.s = t]
  OBVIOUS
<1>2. DOMAIN d = Fields /\ d.s = t /\ d.p = e.p
  BY <1>1 DEF InGrid, AtCols, Fields
<1> QED
  BY <1>1, <1>2 DEF InGrid, AtCols

\* A line that ends, on whatever row and also behind the last column.
LEMMA NewLineInGrid ==
  ASSUME TermAssumption, NEW e, AtCols(e, Nat)
  PROVE  InGrid(NewLine(e))
<1>1. /\ Cols \in Nat \ {0} /\ Rows \in Nat \ {0}
      /\ 0 \in Across /\ 0 \in Down /\ Cols - 1 \in Across /\ Rows - 1 \in Down
  BY GridIs
<1>2. PICK s : s = e.s
  OBVIOUS
<1>3. s \in Ttys(Nat) /\ s.y \in Nat /\ s.cells \in Grids
  BY <1>1, <1>2 DEF AtCols, Ttys, Down
<1>4. PICK d : d = [e EXCEPT !.s.y = @ + 1, !.s.x = 0]
  OBVIOUS
<1>5. /\ DOMAIN d = Fields /\ d.p = e.p
      /\ d.s = [s EXCEPT !.y = s.y + 1, !.x = 0]
  BY <1>2, <1>4 DEF AtCols, Ttys, Fields
<1>6. d.s.y = s.y + 1 /\ d.s.cells = s.cells
  BY <1>3, <1>5 DEF Ttys
<1>7. NewLine(e) = IF s.y + 1 >= Rows THEN Scroll(d) ELSE d
  BY <1>4, <1>6 DEF NewLine
<1>8. CASE ~(s.y + 1 >= Rows)
  <2>1. s.y + 1 \in Down
    BY <1>1, <1>3, <1>8 DEF Down
  <2>2. d.s \in Ttys(Across)
    BY <1>1, <1>3, <1>5, <2>1 DEF Ttys
  <2> QED
    BY <1>5, <1>7, <1>8, <2>2 DEF InGrid, AtCols
<1>9. CASE s.y + 1 >= Rows
  <2>1. \A g \in Grids : Scrolled(g) \in Grids
    BY DEF Scrolled, Grids
  <2>2. PICK g, c : /\ g = Scroll(d)
                    /\ c = IF d.guard THEN Scrolled(s.cells) ELSE Scrolled(Scrolled(s.cells))
    OBVIOUS
  <2>3. c \in Grids
    BY <1>3, <2>1, <2>2
  <2>4. DOMAIN g = Fields /\ g.p = e.p /\ g.s = [d.s EXCEPT !.cells = c, !.y = Rows - 1]
    <3>1. CASE d.guard
      BY <1>5, <1>6, <2>2, <3>1 DEF Scroll, Fields
    <3>2. CASE ~d.guard
      BY <1>5, <1>6, <2>2, <3>2 DEF Scroll, Fields
    <3> QED
      BY <3>1, <3>2
  <2>5. g.s = [s EXCEPT !.cells = c, !.y = Rows - 1, !.x = 0]
    BY <1>3, <1>5, <2>4 DEF Ttys
  <2>6. g.s \in Ttys(Across)
    BY <1>1, <1>3, <2>3, <2>5 DEF Ttys
  <2>7. NewLine(e) = g
    BY <1>7, <1>9, <2>2
  <2> QED
    BY <2>4, <2>6, <2>7 DEF InGrid, AtCols
<1> QED
  BY <1>8, <1>9

\* A character is put where the cursor is.
LEMMA PutCharInGrid ==
  ASSUME TermAssumption, NEW e, InGrid(e), NEW c \in {Kernel, Program}
  PROVE  InGrid(PutChar(e, c))
<1>1. Cols \in Nat \ {0}
  BY GridIs
<1>2. PICK s, at : s = e.s /\ at = e.s.y * Cols + e.s.x
  OBVIOUS
<1>3. s \in Ttys(Across) /\ s.x \in Nat /\ s.cells \in Grids
  BY <1>1, <1>2 DEF InGrid, AtCols, Ttys, Across
<1>4. PICK d, g : g = [s.cells EXCEPT ![at] = c] /\ d = [e EXCEPT !.s.cells = g, !.s.x = @ + 1]
  OBVIOUS
<1>5. g \in Grids
  BY <1>3, <1>4 DEF Grids
<1>6. DOMAIN d = Fields /\ d.p = e.p /\ d.s = [s EXCEPT !.cells = g, !.x = s.x + 1]
  BY <1>2, <1>4 DEF InGrid, AtCols, Ttys, Fields
<1>7. d.s.x = s.x + 1
  BY <1>3, <1>6 DEF Ttys
<1>8. PutChar(e, c) = IF s.x + 1 >= Cols THEN NewLine(d) ELSE d
  BY <1>2, <1>4, <1>7 DEF PutChar
<1>9. CASE ~(s.x + 1 >= Cols)
  <2>1. s.x + 1 \in Across
    BY <1>1, <1>3, <1>9 DEF Across
  <2>2. d.s \in Ttys(Across)
    BY <1>3, <1>5, <1>6, <2>1 DEF Ttys
  <2> QED
    BY <1>6, <1>8, <1>9, <2>2 DEF InGrid, AtCols
<1>10. CASE s.x + 1 >= Cols
  <2>1. s.x + 1 \in Nat
    BY <1>3
  <2>2. d.s \in Ttys(Nat)
    BY <1>3, <1>5, <1>6, <2>1 DEF Ttys
  <2>3. AtCols(d, Nat)
    BY <1>6, <2>2 DEF InGrid, AtCols
  <2> QED
    BY <1>8, <1>10, <2>3, NewLineInGrid
<1> QED
  BY <1>9, <1>10

\* The control characters.
LEMMA PutcInGrid ==
  ASSUME TermAssumption, NEW e, InGrid(e), NEW b, NEW c \in {Kernel, Program}
  PROVE  InGrid(Putc(e, b, c))
<1>1. Cols \in Nat \ {0} /\ 0 \in Across /\ Cols - 1 \in Across
  BY GridIs
<1>2. PICK s : s = e.s
  OBVIOUS
<1>3. s \in Ttys(Across) /\ s.x \in Nat /\ s.x < Cols /\ DOMAIN e = Fields
  BY <1>1, <1>2 DEF InGrid, AtCols, Ttys, Across
<1>4. ASSUME NEW x \in Across
      PROVE  InGrid([e EXCEPT !.s.x = x])
  <2>1. [e EXCEPT !.s.x = x] = [e EXCEPT !.s = [s EXCEPT !.x = x]]
    BY <1>2, <1>3 DEF Fields
  <2>2. [s EXCEPT !.x = x] \in Ttys(Across)
    BY <1>3 DEF Ttys
  <2> QED
    BY <2>1, <2>2, SessionOnly
<1>5. PICK left, tab : /\ left = (IF s.x > 0 THEN s.x - 1 ELSE 0)
                       /\ tab = Smaller(((s.x + 8) \div 8) * 8, Cols - 1)
  OBVIOUS
<1>6. left \in Across
  BY <1>1, <1>3, <1>5, SMTT(30) DEF Across
<1>7. tab \in Across
  <2>1. ((s.x + 8) \div 8) * 8 \in Nat
    BY <1>3
  <2> QED
    BY <1>1, <1>5, <2>1 DEF Across, Smaller
<1>8. CASE b[1] = "nl"
  <2>1. AtCols(e, Nat)
    BY <1>2, <1>3 DEF InGrid, AtCols, Ttys
  <2> QED
    BY <1>8, <2>1, NewLineInGrid DEF Putc
<1>9. CASE b[1] = "cr"
  <2>1. Putc(e, b, c) = [e EXCEPT !.s.x = 0]
    BY <1>9 DEF Putc
  <2> QED
    BY <1>1, <1>4, <2>1
<1>10. CASE b[1] = "bs"
  <2>1. Putc(e, b, c) = [e EXCEPT !.s.x = left]
    BY <1>2, <1>5, <1>10 DEF Putc
  <2> QED
    BY <1>4, <1>6, <2>1
<1>11. CASE b[1] = "tab"
  <2>1. Putc(e, b, c) = [e EXCEPT !.s.x = tab]
    BY <1>2, <1>5, <1>11 DEF Putc
  <2> QED
    BY <1>4, <1>7, <2>1
<1>12. CASE b[1] = "bel"
  BY <1>12 DEF Putc
<1>13. CASE b[1] \notin {"nl", "cr", "bs", "tab", "bel"}
  BY <1>13, PutCharInGrid DEF Putc
<1> QED
  BY <1>8, <1>9, <1>10, <1>11, <1>12, <1>13

\* A parameter that is missing counts as 1.
LEMMA ParamIs ==
  ASSUME NEW p \in Parsers, NEW i \in Nat \ {0}
  PROVE  Param(p, i) \in Nat \ {0}
<1>1. p.params \in Seq(Nat)
  BY DEF Parsers
<1>2. CASE i > Len(p.params)
  BY <1>2 DEF Param
<1>3. CASE ~(i > Len(p.params))
  <2>1. i \in 1 .. Len(p.params)
    BY <1>1, <1>3
  <2>2. p.params[i] \in Nat
    BY <1>1, <2>1
  <2> QED
    BY <1>3, <2>2 DEF Param
<1> QED
  BY <1>2, <1>3

\* Whatever its parameters, a sequence leaves the cursor in the grid.
LEMMA ExecutedInGrid ==
  ASSUME TermAssumption, NEW s \in Ttys(Across), NEW p \in Parsers, NEW b
  PROVE  Executed(s, p, b) \in Ttys(Across)
<1>1. Cols \in Nat \ {0} /\ Rows \in Nat \ {0} /\ 0 \in Across /\ 0 \in Down
  BY GridIs
<1>2. PICK n, m : n = Param(p, 1) /\ m = Param(p, 2)
  OBVIOUS
<1>3. n \in Nat \ {0} /\ m \in Nat \ {0}
  BY <1>2, ParamIs
<1>4. /\ s.x \in Across /\ s.y \in Down /\ s.sx \in Across /\ s.sy \in Down
      /\ s.cells \in Grids /\ s.alt \in Grids \cup {NoAlt}
  BY DEF Ttys
<1>5. s.x \in Nat /\ s.y \in Nat /\ s.x < Cols /\ s.y < Rows
  BY <1>1, <1>4 DEF Across, Down
<1>6. ASSUME NEW g \in Grids
      PROVE  [s EXCEPT !.cells = g] \in Ttys(Across)
  BY DEF Ttys
<1>7. ASSUME NEW x \in Across
      PROVE  [s EXCEPT !.x = x] \in Ttys(Across)
  BY DEF Ttys
<1>8. ASSUME NEW y \in Down
      PROVE  [s EXCEPT !.y = y] \in Ttys(Across)
  BY DEF Ttys
<1>9. \A k \in Nat : Smaller(k, Cols - 1) \in Across /\ Smaller(k, Rows - 1) \in Down
  BY <1>1 DEF Smaller, Across, Down
<1>10. Clear \in Grids /\ \A f, t : Erased(s, f, t) \in Grids
  BY <1>4 DEF Clear, Erased, Grids
<1>11. CASE b = "H"
  <2>1. Executed(s, p, b) = [s EXCEPT !.y = Smaller(n - 1, Rows - 1), !.x = Smaller(m - 1, Cols - 1)]
    BY <1>2, <1>11 DEF Executed, Goto
  <2>2. Smaller(n - 1, Rows - 1) \in Down /\ Smaller(m - 1, Cols - 1) \in Across
    BY <1>3, <1>9
  <2> QED
    BY <2>1, <2>2 DEF Ttys
<1>12. CASE b = "A"
  <2>1. Executed(s, p, b) = [s EXCEPT !.y = IF s.y >= n THEN s.y - n ELSE 0]
    BY <1>2, <1>12 DEF Executed
  <2>2. (IF s.y >= n THEN s.y - n ELSE 0) \in Down
    BY <1>1, <1>3, <1>5 DEF Down
  <2> QED
    BY <1>8, <2>1, <2>2
<1>13. CASE b = "B"
  <2>1. Executed(s, p, b) = [s EXCEPT !.y = Smaller(Wrap16(s.y + n), Rows - 1)]
    BY <1>2, <1>13 DEF Executed
  <2>2. Wrap16(s.y + n) \in Nat
    BY <1>3, <1>5 DEF Wrap16
  <2> QED
    BY <1>8, <1>9, <2>1, <2>2
<1>14. CASE b = "C"
  <2>1. Executed(s, p, b) = [s EXCEPT !.x = Smaller(Wrap16(s.x + n), Cols - 1)]
    BY <1>2, <1>14 DEF Executed
  <2>2. Wrap16(s.x + n) \in Nat
    BY <1>3, <1>5 DEF Wrap16
  <2> QED
    BY <1>7, <1>9, <2>1, <2>2
<1>15. CASE b = "D"
  <2>1. Executed(s, p, b) = [s EXCEPT !.x = IF s.x >= n THEN s.x - n ELSE 0]
    BY <1>2, <1>15 DEF Executed
  <2>2. (IF s.x >= n THEN s.x - n ELSE 0) \in Across
    BY <1>1, <1>3, <1>5 DEF Across
  <2> QED
    BY <1>7, <2>1, <2>2
<1>16. CASE b \in {"J", "K"}
  <2>1. Executed(s, p, b) = s \/ \E g \in Grids : Executed(s, p, b) = [s EXCEPT !.cells = g]
    BY <1>2, <1>10, <1>16 DEF Executed
  <2> QED
    BY <1>6, <2>1
<1>17. CASE b = "s"
  <2>1. Executed(s, p, b) = s \/ Executed(s, p, b) = [s EXCEPT !.sx = s.x, !.sy = s.y]
    BY <1>17 DEF Executed
  <2> QED
    BY <1>4, <2>1 DEF Ttys
<1>18. CASE b = "u"
  <2>1. Executed(s, p, b) = s \/ Executed(s, p, b) = [s EXCEPT !.x = s.sx, !.y = s.sy]
    BY <1>18 DEF Executed
  <2> QED
    BY <1>4, <2>1 DEF Ttys
<1>19. CASE b \in {"h", "l"}
  <2>1. Mode(s, n, b = "h") \in Ttys(Across)
    <3>1. CASE n = 1049 /\ b = "h"
      <4>1. Mode(s, n, b = "h") = [s EXCEPT !.alt = s.cells, !.cells = Clear, !.x = 0, !.y = 0]
        BY <3>1 DEF Mode
      <4> QED
        BY <1>1, <1>4, <1>10, <4>1 DEF Ttys
    <3>2. CASE n = 1049 /\ b # "h" /\ s.alt # NoAlt
      <4>1. Mode(s, n, b = "h") = [s EXCEPT !.cells = s.alt, !.x = s.sx, !.y = s.sy]
        BY <3>2 DEF Mode
      <4>2. PICK g : g = s.alt
        OBVIOUS
      <4>3. g \in Grids /\ Mode(s, n, b = "h") = [s EXCEPT !.cells = g, !.x = s.sx, !.y = s.sy]
        BY <1>4, <3>2, <4>1, <4>2
      <4> QED
        BY <1>4, <4>3 DEF Ttys
    <3>3. CASE ~(n = 1049 /\ b = "h") /\ ~(n = 1049 /\ b # "h" /\ s.alt # NoAlt)
      BY <3>3 DEF Mode
    <3> QED
      BY <3>1, <3>2, <3>3
  <2>2. Executed(s, p, b) = s \/ Executed(s, p, b) = Mode(s, n, b = "h")
    BY <1>2, <1>19 DEF Executed
  <2> QED
    BY <2>1, <2>2
<1>20. CASE b \notin {"H", "A", "B", "C", "D", "J", "K", "s", "u", "h", "l"}
  BY <1>20 DEF Executed
<1> QED
  BY <1>11, <1>12, <1>13, <1>14, <1>15, <1>16, <1>17, <1>18, <1>19, <1>20

\* A byte, in whatever sequence it comes.
LEMMA ByteInGrid ==
  ASSUME TermAssumption, NEW e, InGrid(e), NEW b, b[2] \in Nat, NEW c \in {Kernel, Program}
  PROVE  InGrid(AnsiPutc(e, b, c))
<1>1. PICK p, st, k : p = e.p /\ st = e.p.state /\ k = b[1]
  OBVIOUS
<1>2. /\ DOMAIN e = Fields /\ e.s \in Ttys(Across) /\ p \in Parsers /\ p.params # <<>>
      /\ p.params \in Seq(Nat) /\ st \in {"ground", "esc", "csi", "osc"}
  BY <1>1 DEF InGrid, AtCols, Parsers
<1>3. ASSUME NEW q \in Parsers, q.params # <<>>
      PROVE  InGrid([e EXCEPT !.p = q])
  <2>1. PICK d : d = [e EXCEPT !.p = q]
    OBVIOUS
  <2>2. DOMAIN d = Fields /\ d.s = e.s /\ d.p = q
    BY <1>2, <2>1 DEF Fields
  <2> QED
    BY <1>2, <1>3, <2>1, <2>2 DEF InGrid, AtCols
<1>4. <<0>> \in Seq(Nat) /\ <<0>> # <<>>
  OBVIOUS
<1>5. ASSUME NEW to \in {"ground", "esc", "csi", "osc"}
      PROVE  InGrid([e EXCEPT !.p.state = to])
  <2>1. [e EXCEPT !.p.state = to] = [e EXCEPT !.p = [p EXCEPT !.state = to]]
    BY <1>1, <1>2 DEF Fields
  <2>2. [p EXCEPT !.state = to] \in Parsers /\ [p EXCEPT !.state = to].params # <<>>
    BY <1>2 DEF Parsers
  <2> QED
    BY <1>3, <2>1, <2>2
<1>6. CASE st = "ground" /\ k = "esc"
  <2>1. AnsiPutc(e, b, c) = [e EXCEPT !.p = [Ground EXCEPT !.state = "esc"]]
    BY <1>1, <1>6 DEF AnsiPutc
  <2>2. /\ [Ground EXCEPT !.state = "esc"] \in Parsers
        /\ [Ground EXCEPT !.state = "esc"].params # <<>>
    BY <1>4 DEF Ground, Parsers
  <2> QED
    BY <1>3, <2>1, <2>2
<1>7. CASE st = "ground" /\ k # "esc"
  <2>1. AnsiPutc(e, b, c) = Putc(e, b, c)
    BY <1>1, <1>7 DEF AnsiPutc
  <2> QED
    BY <2>1, PutcInGrid
<1>8. CASE st = "esc"
  <2>1. \E to \in {"ground", "esc", "csi", "osc"} : AnsiPutc(e, b, c) = [e EXCEPT !.p.state = to]
    <3>1. CASE k = "["
      BY <1>1, <1>8, <3>1 DEF AnsiPutc
    <3>2. CASE k = "]"
      BY <1>1, <1>8, <3>2 DEF AnsiPutc
    <3>3. CASE k \notin {"[", "]"}
      BY <1>1, <1>8, <3>3 DEF AnsiPutc
    <3> QED
      BY <3>1, <3>2, <3>3
  <2> QED
    BY <1>5, <2>1
<1>9. CASE st = "csi" /\ k = "number"
  <2>1. PICK n, ps : n = Len(p.params) /\ ps = [p.params EXCEPT ![n] = b[2]]
    OBVIOUS
  <2>2. n \in 1 .. n /\ n = Len(p.params)
    BY <1>2, <2>1, EmptySeq
  <2>3. ps \in Seq(Nat) /\ Len(ps) = n
    BY <1>2, <2>1, <2>2
  <2>4. AnsiPutc(e, b, c) = [e EXCEPT !.p.params[n] = b[2]]
    BY <1>1, <1>9, <2>1 DEF AnsiPutc
  <2>5. [e EXCEPT !.p.params[n] = b[2]] = [e EXCEPT !.p = [p EXCEPT !.params = ps]]
    BY <1>1, <1>2, <2>1 DEF Fields, Parsers
  <2>6. [p EXCEPT !.params = ps] \in Parsers /\ [p EXCEPT !.params = ps].params = ps
    BY <1>2, <2>3 DEF Parsers
  <2>7. ps # <<>>
    <3>1. Len(ps) # 0
      BY <2>2, <2>3
    <3> QED
      BY <3>1
  <2> QED
    BY <1>3, <2>4, <2>5, <2>6, <2>7
<1>10. CASE st = "csi" /\ k = ";"
  <2>1. PICK ps : ps = Append(p.params, 0)
    OBVIOUS
  <2>2. ps \in Seq(Nat) /\ ps # <<>>
    BY <1>2, <2>1
  <2>3. [p EXCEPT !.params = ps] \in Parsers /\ [p EXCEPT !.params = ps].params = ps
    BY <1>2, <2>2 DEF Parsers
  <2>4. [e EXCEPT !.p.params = ps] = [e EXCEPT !.p = [p EXCEPT !.params = ps]]
    BY <1>1, <1>2 DEF Fields
  <2>5. AnsiPutc(e, b, c) = e \/ AnsiPutc(e, b, c) = [e EXCEPT !.p.params = ps]
    BY <1>1, <1>10, <2>1 DEF AnsiPutc
  <2> QED
    BY <1>3, <2>2, <2>3, <2>4, <2>5
<1>11. CASE st = "csi" /\ k = "?"
  <2>1. AnsiPutc(e, b, c) = [e EXCEPT !.p.private = TRUE]
    BY <1>1, <1>11 DEF AnsiPutc
  <2>2. [e EXCEPT !.p.private = TRUE] = [e EXCEPT !.p = [p EXCEPT !.private = TRUE]]
    BY <1>1, <1>2 DEF Fields
  <2>3. [p EXCEPT !.private = TRUE] \in Parsers /\ [p EXCEPT !.private = TRUE].params # <<>>
    BY <1>2 DEF Parsers
  <2> QED
    BY <1>3, <2>1, <2>2, <2>3
<1>12. CASE st = "csi" /\ k \notin {"number", ";", "?"}
  <2>1. PICK d : d = AnsiPutc(e, b, c)
    OBVIOUS
  <2>2. d = [e EXCEPT !.s = Executed(e.s, e.p, k), !.p = Ground]
    BY <1>1, <1>12, <2>1 DEF AnsiPutc
  <2>3. DOMAIN d = Fields /\ d.s = Executed(e.s, e.p, k) /\ d.p = Ground
    BY <1>2, <2>2 DEF Fields
  <2>4. d.s \in Ttys(Across)
    BY <1>1, <1>2, <2>3, ExecutedInGrid
  <2>5. Ground \in Parsers /\ Ground.params # <<>>
    BY <1>4 DEF Ground, Parsers
  <2> QED
    BY <2>1, <2>3, <2>4, <2>5 DEF InGrid, AtCols
<1>13. CASE st = "osc"
  <2>1. \E to \in {"ground", "esc", "csi", "osc"} : AnsiPutc(e, b, c) = [e EXCEPT !.p.state = to]
    <3>1. CASE k = "bel"
      BY <1>1, <1>13, <3>1 DEF AnsiPutc
    <3>2. CASE k = "esc"
      BY <1>1, <1>13, <3>2 DEF AnsiPutc
    <3>3. CASE k \notin {"bel", "esc"}
      BY <1>1, <1>13, <3>3 DEF AnsiPutc
    <3> QED
      BY <3>1, <3>2, <3>3
  <2> QED
    BY <1>5, <2>1
<1> QED
  BY <1>2, <1>6, <1>7, <1>8, <1>9, <1>10, <1>11, <1>12, <1>13

\* A non-empty set of naturals has a least element.
LEMMA SmallestOfNats ==
  ASSUME NEW S, S \subseteq Nat, S # {}
  PROVE  \E n \in S : \A m \in S : n <= m
<1> DEFINE Less == {ss \in Nat \X Nat : ss[1] < ss[2]}
<1>1. IsWellFoundedOn(Less, Nat)
  BY Zenon, NatLessThanWellFounded DEF OpToRel
<1>2. \A m, n \in Nat : <<m, n>> \in Less <=> m < n
  OBVIOUS
<1> HIDE DEF Less
<1>3. PICK n \in S : \A m \in S : <<m, n>> \notin Less
  BY <1>1, WFMin
<1>4. ASSUME NEW m \in S
      PROVE  n <= m
  <2>1. m \in Nat /\ n \in Nat /\ ~(m < n)
    BY <1>2, <1>3
  <2> QED
    BY <2>1
<1> QED
  BY <1>4

\* What a line of the kernel does is defined up to its last character.
Ran(f, m) ==
  f = [n \in 0 .. m |-> IF n = 0 THEN Emulator(TRUE) ELSE AnsiPutc(f[n - 1], Byte("char"), Kernel)]

\* The recursion over the characters of a line exists: by a least place at
\* which it would be undefined.
LEMMA AfterCharsIs ==
  ASSUME TermAssumption
  PROVE  /\ AfterChars[0] = Emulator(TRUE)
         /\ \A n \in 1 .. MaxLine : AfterChars[n] = AnsiPutc(AfterChars[n - 1], Byte("char"), Kernel)
<1> DEFINE S == {m \in 0 .. MaxLine : ~\E f : Ran(f, m)}
<1>1. MaxLine \in Nat
  BY DEF TermAssumption
<1>2. S = {}
  <2> SUFFICES ASSUME S # {} PROVE FALSE
    OBVIOUS
  <2>1. PICK m \in S : \A k \in S : m <= k
    <3>1. S \subseteq Nat
      BY <1>1
    <3> HIDE DEF S
    <3> QED
      BY <3>1, SmallestOfNats
  <2>2. m \in 0 .. MaxLine /\ ~\E f : Ran(f, m)
    OBVIOUS
  <2>3. CASE m = 0
    <3>1. Ran([n \in 0 .. 0 |-> Emulator(TRUE)], 0)
      BY DEF Ran
    <3> QED
      BY <2>2, <2>3, <3>1
  <2>4. CASE m # 0
    <3>1. m - 1 \in 0 .. MaxLine /\ m - 1 \notin S
      BY <1>1, <2>1, <2>2, <2>4
    <3>2. PICK f : Ran(f, m - 1)
      BY <3>1
    <3> DEFINE One(e) == AnsiPutc(e, Byte("char"), Kernel)
               g == [n \in 0 .. m |-> IF n < m THEN f[n] ELSE One(f[m - 1])]
    <3>3. m \in Nat /\ m > 0
      BY <1>1, <2>2, <2>4
    <3> HIDE DEF One
    <3>4. \A n \in 0 .. m - 1 : f[n] = IF n = 0 THEN Emulator(TRUE) ELSE One(f[n - 1])
      BY <3>2, <3>3 DEF Ran, One
    <3>5. \A n \in 0 .. m : g[n] = IF n = 0 THEN Emulator(TRUE) ELSE One(g[n - 1])
      <4> SUFFICES ASSUME NEW n \in 0 .. m PROVE g[n] = IF n = 0 THEN Emulator(TRUE) ELSE One(g[n - 1])
        OBVIOUS
      <4>1. CASE n < m
        <5>1. n \in 0 .. m - 1 /\ g[n] = f[n] /\ (n # 0 => g[n - 1] = f[n - 1])
          BY <3>3, <4>1
        <5> QED
          BY <3>4, <5>1
      <4>2. CASE n = m
        <5>1. g[n - 1] = f[n - 1] /\ g[n] = One(f[m - 1])
          BY <3>3, <4>2
        <5>2. n # 0 /\ f[m - 1] = f[n - 1]
          BY <3>3, <4>2
        <5> HIDE DEF g
        <5> QED
          BY <5>1, <5>2
      <4>3. n < m \/ n = m
        BY <3>3
      <4> HIDE DEF g
      <4> QED
        BY <4>1, <4>2, <4>3
    <3>6. Ran(g, m)
      BY <3>5 DEF Ran, One
    <3> HIDE DEF g
    <3> QED
      BY <2>2, <3>6
  <2> QED
    BY <2>3, <2>4
<1>3. \E f : Ran(f, MaxLine)
  BY <1>1, <1>2
<1>4. AfterChars = CHOOSE f : Ran(f, MaxLine)
  BY Zenon DEF AfterChars, Ran
<1>5. Ran(AfterChars, MaxLine)
  BY <1>3, <1>4
<1>6. PICK f : f = AfterChars
  OBVIOUS
<1>7. f = [n \in 0 .. MaxLine |-> IF n = 0 THEN Emulator(TRUE) ELSE AnsiPutc(f[n - 1], Byte("char"), Kernel)]
  BY <1>5, <1>6 DEF Ran
<1>8. f[0] = Emulator(TRUE)
  BY <1>1, <1>7
<1>9. ASSUME NEW n \in 1 .. MaxLine
      PROVE  f[n] = AnsiPutc(f[n - 1], Byte("char"), Kernel)
  <2>1. n \in 0 .. MaxLine /\ n # 0
    BY <1>1
  <2> QED
    BY <1>7, <2>1
<1> QED
  BY <1>6, <1>8, <1>9

\* A line of the kernel stays in the grid, whatever its length.
LEMMA AfterCharsInGrid ==
  ASSUME TermAssumption, TermInv, NEW n \in 0 .. MaxLine
  PROVE  InGrid(AfterChars[n])
<1> DEFINE S == {m \in 0 .. MaxLine : ~InGrid(AfterChars[m])}
<1>1. MaxLine \in Nat
  BY DEF TermAssumption
<1>2. SUFFICES ASSUME S # {} PROVE FALSE
  OBVIOUS
<1>3. PICK m \in S : \A k \in S : m <= k
  <2>1. S \subseteq Nat
    BY <1>1
  <2> HIDE DEF S
  <2> QED
    BY <1>2, <2>1, SmallestOfNats
<1>4. m \in 0 .. MaxLine /\ ~InGrid(AfterChars[m])
  OBVIOUS
<1>5. CASE m = 0
  <2>1. InGrid(Emulator(TRUE))
    BY DEF Emulator, InGrid, AtCols, Fields, TermInv
  <2> QED
    BY <1>4, <1>5, <2>1, AfterCharsIs
<1>6. CASE m # 0
  <2>1. m - 1 \in 0 .. MaxLine /\ m - 1 \notin S /\ m \in 1 .. MaxLine
    BY <1>1, <1>3, <1>4, <1>6
  <2>2. InGrid(AfterChars[m - 1])
    BY <2>1
  <2>3. Byte("char")[2] \in Nat
    BY DEF Byte
  <2>4. AfterChars[m] = AnsiPutc(AfterChars[m - 1], Byte("char"), Kernel)
    BY <2>1, AfterCharsIs
  <2> HIDE DEF S
  <2> QED
    BY <1>4, <2>2, <2>3, <2>4, ByteInGrid
<1> QED
  BY <1>5, <1>6

\* A line and a byte that are diverted leave a place for the final zero.
LEMMA CaptureFits ==
  ASSUME TermAssumption, capture \in Nat, capture < CaptureMax, NEW n \in Nat
  PROVE  /\ CapturedLine(n) \in Nat /\ CapturedLine(n) < CaptureMax
         /\ Filled(1, n) \in Nat /\ Filled(1, n) < CaptureMax
<1>1. CaptureMax \in Nat
  BY DEF TermAssumption
<1>2. Filled(2, n) \in Nat /\ Filled(2, n) < CaptureMax
  BY <1>1 DEF Filled, Smaller
<1>3. Filled(1, n) \in Nat /\ Filled(1, n) < CaptureMax
  BY <1>1 DEF Filled, Smaller
<1> QED
  BY <1>1, <1>2, <1>3 DEF CapturedLine

\* A step that ends with an emulator in the grid.
LEMMA BecameInGrid ==
  ASSUME TermInv, NEW e, InGrid(e), Became(e), capture' = capture
  PROVE  TermInv'
  BY DEF TermInv, InGrid, AtCols, Became, Ttys, Grids, Across, Down, Parsers, Cells

\* Whatever sequence a program sends, with any parameters, and wherever a line
\* of the kernel of any length cuts it, the cursor and the saved cursor are
\* cells of the grid (ansi_execute, term_newline), and captured output leaves a
\* place for its final zero.
THEOREM WritesStayInBuffers == TermSpec => []WritesInBuffers
<1>1. TermAssumption
  BY TermAssumption
<1>2. TermInit => TermInv
  <2> SUFFICES ASSUME TermInit PROVE TermInv
    OBVIOUS
  <2>1. Clear \in Grids /\ Ground \in Parsers /\ Ground.params # <<>>
    <3>1. <<0>> \in Seq(Nat) /\ <<0>> # <<>>
      OBVIOUS
    <3> QED
      BY <3>1 DEF Clear, Grids, Ground, Parsers
  <2>2. 0 \in Across /\ 0 \in Down
    BY <1>1, GridIs
  <2>3. tty \in Ttys(Across)
    BY <2>1, <2>2 DEF TermInit, Ttys
  <2> QED
    BY <2>1, <2>3 DEF TermInit, TermInv, NoCapture
<1>3. TermInv /\ [TermNext]_termVars => TermInv'
  <2> SUFFICES ASSUME TermInv, [TermNext]_termVars PROVE TermInv'
    OBVIOUS
  <2>1. CASE UNCHANGED termVars
    BY <2>1 DEF termVars, TermInv, Ttys, Grids, Across, Down, Parsers, Cells
  <2>2. ASSUME NEW b \in Bytes \cup InSequence, ProgramByte(b) PROVE TermInv'
    <3>1. InGrid(Emulator(FALSE))
      BY DEF Emulator, InGrid, AtCols, Fields, TermInv
    <3>2. b[2] \in Nat
      <4>1. CASE \E k : b = Byte(k)
        BY <4>1 DEF Byte
      <4>2. CASE \E n \in Params : b = Number(n)
        BY <1>1, <4>2 DEF Number, TermAssumption
      <4> QED
        BY <4>1, <4>2 DEF Bytes, InSequence
    <3>3. InGrid(AnsiPutc(Emulator(FALSE), b, Program))
      BY <1>1, <3>1, <3>2, ByteInGrid
    <3> QED
      BY <2>2, <3>3, BecameInGrid DEF ProgramByte
  <2>3. ASSUME NEW n \in 0 .. MaxLine, PushLine(n) PROVE TermInv'
    <3>1. Byte("nl")[2] \in Nat
      BY DEF Byte
    <3>2. InGrid(AnsiPutc(AfterChars[n], Byte("nl"), Kernel))
      BY <1>1, <3>1, AfterCharsInGrid, ByteInGrid
    <3> QED
      BY <2>3, <3>2, BecameInGrid DEF PushLine
  <2>4. ASSUME capture' \in Int, capture' # NoCapture => capture' \in Nat /\ capture' < CaptureMax,
               UNCHANGED <<tty, parser>>
        PROVE  TermInv'
    BY <2>4 DEF TermInv, Ttys, Grids, Across, Down, Parsers, Cells
  <2>5. ASSUME NEW n \in 0 .. MaxLine, CaptureLine(n) PROVE TermInv'
    <3>1. capture \in Nat /\ capture < CaptureMax /\ n \in Nat
      BY <1>1, <2>5 DEF TermInv, CaptureLine, TermAssumption
    <3>2. CapturedLine(n) \in Nat /\ CapturedLine(n) < CaptureMax
      BY <1>1, <3>1, CaptureFits
    <3> QED
      BY <2>4, <2>5, <3>2 DEF CaptureLine
  <2>6. CASE CaptureByte
    <3>1. capture \in Nat /\ capture < CaptureMax
      BY <2>6 DEF TermInv, CaptureByte
    <3>2. Filled(1, 1) \in Nat /\ Filled(1, 1) < CaptureMax
      BY <1>1, <3>1, CaptureFits
    <3> QED
      BY <2>4, <2>6, <3>2 DEF CaptureByte
  <2>7. CASE CaptureBegin
    BY <1>1, <2>4, <2>7 DEF CaptureBegin, TermAssumption
  <2>8. CASE CaptureEnd
    BY <2>4, <2>8 DEF CaptureEnd, NoCapture
  <2> QED
    BY <2>1, <2>2, <2>3, <2>5, <2>6, <2>7, <2>8 DEF TermNext
<1>4. TermInv => WritesInBuffers
  BY DEF TermInv, WritesInBuffers, Ttys, Across, Down
<1> QED
  BY <1>2, <1>3, <1>4, PTL DEF TermSpec
=============================================================================

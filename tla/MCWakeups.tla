------------------------------ MODULE MCWakeups ------------------------------
(* What must go on: the waiters for signals, the main loop that drains the     *)
(* keyboard's ring, and the assembler that reads a text, each on an instance   *)
(* of its own.  They share no state; each behaviour is one of one part.       *)
EXTENDS KernSignals, KernInput, WatAssembler
CONSTANTS tA, tB
VARIABLE part

Pieces == LET inner == {Nothing, Plain("nop"), Folded(Const, Nothing), Call("$f")}
          IN inner \cup {Block(k, Then(a, b)) : k \in {"block", "if"}, a \in inner, b \in inner}
Bodies == {Then(a, b) : a \in Pieces, b \in Pieces \cup {Outside("bad"), Outside("else"),
            Folded(Call("$g"), Const), IfElse(Plain("nop"), Plain("drop"))}}
Rest == {Other(<<"memory", "7">>), Other(<<"data", "(", "i32.const", "7", ")", "str">>),
         Other(<<"global", "$x", "(", "mut", "i32", ")", "(", "i32.const", "7", ")">>), Table, Export}
Samples ==
  {<<Import("$f"), Other(<<"memory", "7">>), Func(TRUE, FALSE, Then(Folded(Call("$f"), Folded(Const, Nothing)), Plain("drop")))>>,
   <<Func(FALSE, TRUE, Then(Const, Plain("drop"))), Export>>}
(* The text of the behaviours that read none: one the assembler need not finish. *)
NoText == <<Import("$f"), Func(TRUE, TRUE, Outside("else")), Export>>
TheTexts ==
  Samples \cup {<<Import("$f"), Func(inline, sig, b), Export>> : inline, sig \in BOOLEAN, b \in Bodies}
  \cup {NoText} \cup {<<Import("$f"), Import("$g"), o, Func(TRUE, TRUE, Call("$g")), q, Func(FALSE, FALSE, b), Export>> :
         o \in Rest \ {Export}, q \in Rest, b \in Pieces}

WakeInit == /\ SigInit /\ InputInit /\ WatInit
            /\ part \in {"signals", "input", "text"}
            /\ part # "text" => fields = NoText
WakeNext ==
  /\ UNCHANGED part
  /\ \/ part = "signals" /\ SigNext /\ UNCHANGED <<inputVars, watVars>>
     \/ part = "input" /\ InputNext /\ UNCHANGED <<allVars, watVars>>
     \/ part = "text" /\ WatNext /\ UNCHANGED <<allVars, inputVars>>
(* The fairness of the three specifications, each for its own part.          *)
In(p, A) == part = p /\ A
WakeFairness ==
  /\ WF_allVars(In("signals", Preempt /\ UNCHANGED sigVars))
  /\ WF_allVars(In("signals", Walk /\ UNCHANGED sigVars))
  /\ \A t \in Tasks : SF_allVars(In("signals", \/ SignalWaitCheck(t) \/ SignalWaitBlock(t)
                                                 \/ SignalWaitYield(t) \/ SignalWaitResume(t)))
  /\ SF_inputVars(In("input", (\E t \in Task : Switch(t)) /\ UNCHANGED keyVars))
  /\ SF_inputVars(In("input", BootStep))
  /\ WF_watVars(In("text", WatNext))
WakeSpec == WakeInit /\ [][WakeNext]_<<allVars, inputVars, watVars, part>> /\ WakeFairness
==============================================================================

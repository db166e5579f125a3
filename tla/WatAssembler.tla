---- MODULE WatAssembler ----
(* wat2wasm_compile of wat2wasm_native.c: the compiler from WebAssembly text *)
(* to binary the kernel carries.  The text is given as tokens.  A step is    *)
(* one construct: a field of the module, or an instruction of a function;    *)
(* what is emitted is kept as instructions and indices, not as bytes, and    *)
(* signatures, memories, data and globals are skipped over: only where the   *)
(* parser stands after them is kept.                                         *)
(*                                                                           *)
(* A text comes with what it means: the imports, functions and exports it    *)
(* would have by the rules of the text format.                               *)
EXTENDS Integers, Sequences, FiniteSets, SequencesExt, FiniteSetsExt

CONSTANTS Texts    \* texts, each [fields |-> a sequence of fields]; see Field below

VARIABLES
  fields,   \* what the text was written from
  tok,      \* its tokens
  pos,      \* lexer_t.pos
  open,     \* what is being parsed, the innermost last
  emitted,  \* the code of the function being parsed
  out,      \* [imports, funcs, exports] so far
  verdict   \* "running", or how wat2wasm_compile returned
watVars == <<fields, tok, pos, open, emitted, out, verdict>>

-----------------------------------------------------------------------------
(* Writing texts.  A piece of a body is its tokens, the code they mean, with *)
(* operands before their instruction, and whether it is plain: no operands   *)
(* inside an instruction's parentheses, and no parenthesis opens a block.    *)
Piece(t, c, plain) == [toks |-> t, code |-> c, plain |-> plain]
StartsPlain(p) == p.plain /\ (p.toks # <<>> => Head(p.toks) # "(")
Nothing == Piece(<<>>, <<>>, TRUE)
Plain(op) == Piece(<<op>>, <<<<op>>>>, TRUE)
Outside(op) == Piece(<<op>>, <<<<op>>>>, FALSE)     \* not of the supported subset
Const == Piece(<<"i32.const", "7">>, <<<<"i32.const">>>>, TRUE)
Call(f) == Piece(<<"call", f>>, <<<<"call", f>>>>, TRUE)
Then(a, b) == Piece(a.toks \o b.toks, a.code \o b.code, a.plain /\ b.plain)
Folded(instr, operands) ==
  Piece(<<"(">> \o instr.toks \o operands.toks \o <<")">>, operands.code \o instr.code,
        operands = Nothing)
Block(kind, inside) ==
  Piece(<<"(", kind>> \o inside.toks \o <<")">>, <<<<kind>>>> \o inside.code \o <<<<"end">>>>,
        StartsPlain(inside))
IfElse(a, b) ==
  Piece(<<"(", "if">> \o a.toks \o <<"(", "else">> \o b.toks \o <<")", ")">>,
        <<<<"if">>>> \o a.code \o <<<<"else">>>> \o b.code \o <<<<"end">>>>, FALSE)

Import(f) ==
  [kind |-> "import", name |-> f, toks |-> <<"(", "import", "str", "str", "(", "func", f>>
     \o <<"(", "param", "i32", ")", ")", ")">>]
Other(t) == [kind |-> "other", toks |-> <<"(">> \o t \o <<")">>]
Table == [kind |-> "table", toks |-> <<"(", "table", "7", "funcref", ")">>]
Func(inline, sig, body) ==
  [kind |-> "func", inline |-> inline, code |-> body.code,
   plain |-> StartsPlain(body) /\ (sig => inline),
   toks |-> <<"(", "func">> \o (IF inline THEN <<"(", "export", "str", ")">> ELSE <<>>)
              \o (IF sig THEN <<"(", "param", "i32", ")", "(", "result", "i32", ")">> ELSE <<>>)
              \o body.toks \o <<")">>]
Export == [kind |-> "export", toks |-> <<"(", "export", "str", "(", "func", "$last", ")", ")">>]

Tokens(fs) ==
  <<"(", "module">> \o FlattenSeq([i \in DOMAIN fs |-> fs[i].toks]) \o <<")", "eof">>

Kind(fs, k) == SelectSeq(fs, LAMBDA f : f.kind = k)
Imports(fs) == [i \in DOMAIN Kind(fs, "import") |-> Kind(fs, "import")[i].name]
Before(fs, i, k) == Len(Kind(SubSeq(fs, 1, i), k))
Resolved(names, c) == IF c[1] = "call" THEN <<"call", Min({i \in DOMAIN names : names[i] = c[2]}) - 1>> ELSE c

(* An exported function is the one just written; imports come before all.    *)
Meaning(fs) ==
  LET names == Imports(fs)
      fun == Kind(fs, "func")
      exporting == SelectSeq([i \in DOMAIN fs |-> i],
                             LAMBDA i : fs[i].kind = "export" \/ (fs[i].kind = "func" /\ fs[i].inline))
  IN [imports |-> names,
      funcs |-> [i \in DOMAIN fun |->
                   [j \in DOMAIN fun[i].code |-> Resolved(names, fun[i].code[j])] \o <<<<"end">>>>],
      exports |-> [i \in DOMAIN exporting |->
                     Len(names) + Before(fs, exporting[i], "func") - 1]]

-----------------------------------------------------------------------------
(* The parser: the token at a place, and the place after one that is expected*)
(* there; one that is missing is not reported.                               *)
Tok(p) == IF p \in DOMAIN tok THEN tok[p] ELSE "eof"
Expect(p, t) == IF Tok(p) = t THEN p + 1 ELSE p
Places == 1 .. Len(tok) + 1
AfterName(p) == IF Tok(p) \in {"$f", "$g", "$last", "$x"} THEN p + 1 ELSE p

(* The rest of a value type list, and of a list of params, results, locals.  *)
TypesEnd(p) == LET end[q \in Places] == IF Tok(q) = "i32" THEN end[q + 1] ELSE q IN end[p]
SigEnd(p, kinds) ==
  LET end[q \in Places] ==
        IF Tok(q) # "(" THEN q
        ELSE IF Tok(q + 1) \in kinds THEN end[Expect(TypesEnd(q + 2), ")")]
        ELSE end[Expect(q + 1, ")")]
  IN end[p]

WatInit ==
  /\ fields \in Texts
  /\ tok = Tokens(fields)
  /\ pos = 3
  /\ open = <<"module">> /\ emitted = <<>>
  /\ out = [imports |-> <<>>, funcs |-> <<>>, exports |-> <<>>]
  /\ verdict = "running"

InModule == verdict = "running" /\ open = <<"module">>
AtField(kw) == InModule /\ Tok(pos) = "(" /\ Tok(pos + 1) = kw
FieldDone(p) == pos' = Expect(p, ")") /\ UNCHANGED <<fields, tok, open, emitted, verdict>>
Fail == verdict' = "error" /\ UNCHANGED <<fields, tok, pos, open, emitted, out>>

(* The index of the function that comes next, after all the imports so far.  *)
(* A faulty variant: imports have no place in the index space.               *)
NextFuncAlone == Len(out.funcs)
NextFunc == Len(out.imports) + Len(out.funcs)

ImportField ==
  /\ AtField("import")
  /\ LET f == Expect(pos + 4, "(") IN      \* after the two strings
     /\ out' = [out EXCEPT !.imports = Append(@, Tok(f + 1))]
     /\ FieldDone(Expect(SigEnd(f + 2, {"param", "result"}), ")"))

MemoryField ==
  /\ AtField("memory") \/ AtField("start")
  /\ FieldDone(Expect(pos + 2, "7"))
  /\ UNCHANGED out

DataField ==
  /\ AtField("data")
  /\ LET offset == Expect(pos + 2, "(")
         text == Expect(IF Tok(offset) = "i32.const" THEN Expect(offset + 1, "7") ELSE offset, ")")
     IN FieldDone(Expect(text, "str"))
  /\ UNCHANGED out

GlobalField ==
  /\ AtField("global")
  /\ LET type == AfterName(pos + 2)
         init == IF Tok(type) = "(" THEN Expect(TypesEnd(Expect(type + 1, "mut")), ")") ELSE TypesEnd(type)
     IN FieldDone(IF Tok(init) = "(" THEN Expect(init + 3, ")") ELSE init)
  /\ UNCHANGED out

(* A parenthesis after func that does not open an inline export is taken for *)
(* one, and so is the one after the signature.                               *)
FuncField ==
  /\ AtField("func")
  /\ LET p == AfterName(pos + 2)
         inline == Tok(p) = "(" /\ Tok(p + 1) = "export"
         sig == Expect(IF inline THEN p + 3 ELSE Expect(p, "("), IF Tok(p) = "(" THEN ")" ELSE "none")
     IN /\ out' = IF inline THEN [out EXCEPT !.exports = Append(@, NextFunc)] ELSE out
        /\ pos' = SigEnd(sig, {"param", "result", "local"})
  /\ open' = Append(open, "func") /\ emitted' = <<>>
  /\ UNCHANGED <<fields, tok, verdict>>

ExportField ==
  /\ AtField("export")
  /\ out' = [out EXCEPT !.exports = Append(@, NextFunc - 1)]
  /\ FieldDone(Expect(AfterName(Expect(pos + 3, "(") + 1), ")"))

Fields == {"import", "memory", "start", "data", "global", "func", "export"}

(* Any other field is skipped up to its last parenthesis, which is left.     *)
SkipField ==
  /\ InModule /\ Tok(pos) = "(" /\ Tok(pos + 1) \notin Fields
  /\ LET depth(p) == Cardinality({i \in pos .. p : tok[i] = "("}) - Cardinality({i \in pos .. p : tok[i] = ")"})
     IN pos' = Min({p \in pos .. Len(tok) : depth(p) = 0 \/ p = Len(tok)})
  /\ UNCHANGED <<fields, tok, open, emitted, out, verdict>>

ModuleEnd ==
  /\ InModule /\ Tok(pos) \in {")", "eof"}
  /\ verdict' = "ok"
  /\ UNCHANGED <<fields, tok, pos, open, emitted, out>>

ModuleError == InModule /\ Tok(pos) \notin {"(", ")", "eof"} /\ Fail

-----------------------------------------------------------------------------
(* The body of a function.  At an instruction, bare or in parentheses, p is  *)
(* where its name stands.                                                    *)
InBody == verdict = "running" /\ Len(open) > 1
At == IF Tok(pos) = "(" THEN pos + 1 ELSE pos
Simple == {"nop", "drop"}
Kinds == {"block", "loop", "if"}
(* Where parse_expr returns without moving.  A faulty variant: an instruction*)
(* it does not know is also left where it is, and no error.                  *)
SignalToksMore == {"end", "else", "eof", "bad"}
SignalToks == {"end", "else", "eof"}

InstrDone(p) == pos' = IF At = pos THEN p ELSE Expect(p, ")")
Emit(instr) == emitted' = Append(emitted, instr)

OpenBlock ==
  /\ InBody /\ Tok(pos) = "(" /\ Tok(pos + 1) \in Kinds
  /\ Emit(<<Tok(pos + 1)>>)
  /\ open' = Append(open, "block")
  /\ pos' = IF Tok(pos + 2) # "(" THEN pos + 2
            ELSE IF Tok(pos + 3) = "result" THEN Expect(TypesEnd(pos + 4), ")")
            ELSE Expect(pos + 3, ")")
  /\ UNCHANGED <<fields, tok, out, verdict>>

Instr ==
  /\ InBody
  /\ \/ Tok(At) \in Simple /\ Emit(<<Tok(At)>>) /\ InstrDone(At + 1)
     \/ /\ Tok(At) = "i32.const" /\ Tok(At + 1) = "7"
        /\ Emit(<<"i32.const">>) /\ InstrDone(At + 2)
     \/ /\ Tok(At) = "call" /\ Tok(At + 1) \in Range(out.imports)
        /\ Emit(Resolved(out.imports, <<"call", Tok(At + 1)>>)) /\ InstrDone(At + 2)
  /\ UNCHANGED <<fields, tok, open, out, verdict>>

(* end and else are for the caller, which does not look at them: a parenthe- *)
(* sis before one is swallowed, and without one nothing moves.               *)
Signalled ==
  /\ InBody /\ Tok(At) \in SignalToks
  /\ pos' = At
  /\ UNCHANGED <<fields, tok, open, emitted, out, verdict>>

(* The parenthesis that ends the body of a block or of the function.  What   *)
(* parse_body looks for after the body of an if can only be a parenthesis    *)
(* that closes.                                                              *)
Close ==
  /\ InBody /\ Tok(pos) = ")"
  /\ pos' = pos + 1 /\ open' = Front(open)
  /\ IF Last(open) = "func"
     THEN emitted' = <<>> /\ out' = [out EXCEPT !.funcs = Append(@, Append(emitted, <<"end">>))]
     ELSE Emit(<<"end">>) /\ UNCHANGED out
  /\ UNCHANGED <<fields, tok, verdict>>

(* An unknown instruction, a constant without its value, a call of a name    *)
(* that was not imported.                                                    *)
BodyError ==
  /\ InBody
  /\ \/ /\ Tok(At) \notin Simple \cup SignalToks \cup {")", "i32.const", "call"}
        /\ ~(Tok(pos) = "(" /\ Tok(At) \in Kinds)
     \/ Tok(At) = "i32.const" /\ Tok(At + 1) # "7"
     \/ Tok(At) = "call" /\ Tok(At + 1) \notin Range(out.imports)
  /\ Fail

WatNext ==
  \/ ImportField \/ MemoryField \/ DataField \/ GlobalField \/ FuncField \/ ExportField
  \/ SkipField \/ ModuleEnd \/ ModuleError
  \/ OpenBlock \/ Instr \/ Signalled \/ Close \/ BodyError

WatSpec == WatInit /\ [][WatNext]_watVars /\ WF_watVars(WatNext)

-----------------------------------------------------------------------------
(* A text whose functions are written plainly, with every operand before its *)
(* instruction and no parenthesis where the parser takes one for an export   *)
(* or a type, is compiled into what it means: every call and export reaches  *)
(* the function it names, whatever fields stand between, and every block     *)
(* ends where it was closed (wat2wasm_native.c 644-915).                     *)
PlainText == \A i \in DOMAIN fields :
  /\ fields[i].kind # "table"
  /\ fields[i].kind = "func" => fields[i].plain
AsWritten == PlainText /\ verdict # "running" => verdict = "ok" /\ out = Meaning(fields)

(* The parser comes to an end on every text without an instruction it only   *)
(* signals: it never waits on a token it does not consume (parse_body,       *)
(* wat2wasm_native.c 428-505).                                               *)
NoSignal == \A i \in DOMAIN tok : tok[i] \notin {"end", "else"}
Finishes == NoSignal ~> verdict # "running"

====

---------------------------- MODULE KernTerminal -----------------------------
(* The terminal emulator of kern_terminal.c: the cell grid of one session,   *)
(* its cursor, the escape sequence parser all sessions share, and the rows   *)
(* that leave the top of the grid for the scrollback.  Two kinds of writers: *)
(* programs, byte by byte through term_write, and the kernel, line by line   *)
(* through screen_push_line.                                                 *)
(*                                                                           *)
(* A cell holds who wrote it (Kernel or Program) and not which character;    *)
(* colours and the cursor's visibility are left out.  The scrollback itself  *)
(* is reduced to the rows the last step handed to it.                        *)
EXTENDS Integers, Sequences, SequencesExt

CONSTANTS
  Cols, Rows,
  Finals,       \* final bytes programs send
  Params,       \* values programs give a parameter
  MaxParams,    \* parameters in one sequence, at most
  MaxLine,      \* length of the longest line of the kernel
  CaptureMax,   \* output_capture_max
  Kernel, Program, Blank

ASSUME TermAssumption ==
  /\ {Cols, Rows, CaptureMax} \subseteq Nat \ {0}
  /\ Cols * Rows > 1
  /\ Params \subseteq Nat /\ MaxLine \in Nat

VARIABLES
  tty,          \* the session: [cells, x, y, sx, sy, alt]
  parser,       \* ansi_parser: [state, params, private]
  out,          \* the rows the last step pushed to the scrollback
  capture,      \* output_capture_len, or NoCapture: nothing is captured
  spilled       \* a cell outside the grid was written
termVars == <<tty, parser, out, capture, spilled>>

NoCapture == -1
NoAlt == <<>>
Cells == 0 .. Cols * Rows - 1
Clear == [i \in Cells |-> Blank]
Ground == [state |-> "ground", params |-> <<0>>, private |-> FALSE]

TermInit ==
  /\ tty = [cells |-> Clear, x |-> 0, y |-> 0, sx |-> 0, sy |-> 0, alt |-> NoAlt]
  /\ parser = Ground
  /\ out = <<>>
  /\ capture = NoCapture
  /\ spilled = FALSE

Smaller(a, b) == IF a < b THEN a ELSE b
Wrap16(n) == n % 65536

------------------------------------------------------------------------------
(* scroll_cell_buffer turns the top row into text, without its empty cells.  *)
TopRow(s) == SelectSeq([i \in 1 .. Cols |-> s.cells[i - 1]], LAMBDA c : c # Blank)

(* A faulty variant: the bottom row is not cleared.                          *)
ScrolledKeep(cells) ==
  [i \in Cells |-> IF i + Cols \in Cells THEN cells[i + Cols] ELSE cells[i]]

Scrolled(cells) ==
  [i \in Cells |-> IF i + Cols \in Cells THEN cells[i + Cols] ELSE Blank]

(* An emulator under way: the session, the parser, the rows pushed so far,   *)
(* whether it has left the grid, and screen_cellbuf_line_active.             *)
Emulator(guard) == [s |-> tty, p |-> parser, out |-> <<>>, spilled |-> FALSE, guard |-> guard]

(* term_newline past the last row.  Inside a line of the kernel the row goes *)
(* to the scrollback.  Otherwise screen_push_line writes it to the grid      *)
(* again, where the cursor is, under the last row, ends it there, and that   *)
(* scrolls too.                                                              *)
Scroll(e) ==
  LET row == TopRow(e.s)
  IN IF e.guard
     THEN [e EXCEPT !.out = Append(@, row), !.s.cells = Scrolled(@), !.s.y = Rows - 1]
     ELSE [e EXCEPT !.out = Append(@, row),
                    !.s.cells = Scrolled(Scrolled(@)),
                    !.s.y = Rows - 1,
                    !.spilled = @ \/ row # <<>>]

NewLine(e) ==
  LET down == [e EXCEPT !.s.y = @ + 1, !.s.x = 0]
  IN IF down.s.y >= Rows THEN Scroll(down) ELSE down

PutChar(e, c) ==
  LET at == e.s.y * Cols + e.s.x
      put == [e EXCEPT !.s.cells = [@ EXCEPT ![at] = c], !.s.x = @ + 1]
  IN IF put.s.x >= Cols THEN NewLine(put) ELSE put

(* A byte is a pair: what it is, and the value of a parameter.               *)
Byte(k) == <<k, 0>>
Number(n) == <<"number", n>>

(* term_putc                                                                 *)
Putc(e, b, who) ==
  CASE b[1] = "nl"  -> NewLine(e)
    [] b[1] = "cr"  -> [e EXCEPT !.s.x = 0]
    [] b[1] = "bs"  -> [e EXCEPT !.s.x = IF @ > 0 THEN @ - 1 ELSE 0]
    [] b[1] = "tab" -> [e EXCEPT !.s.x = Smaller(((@ + 8) \div 8) * 8, Cols - 1)]
    [] b[1] = "bel" -> e
    [] OTHER        -> PutChar(e, who)

------------------------------------------------------------------------------
(* A parameter of a sequence; a missing one, and 0, count as 1.              *)
Param(p, i) == IF i > Len(p.params) \/ p.params[i] = 0 THEN 1 ELSE p.params[i]

Erased(s, from, to) == [i \in Cells |-> IF i \in from .. to THEN Blank ELSE s.cells[i]]
Here(s) == s.y * Cols + s.x

(* A faulty variant: columns and rows count from 0.                          *)
GotoZero(s, row, col) == [s EXCEPT !.y = Smaller(row, Rows), !.x = Smaller(col, Cols - 1)]

Goto(s, row, col) == [s EXCEPT !.y = Smaller(row - 1, Rows - 1), !.x = Smaller(col - 1, Cols - 1)]

(* DECSET and DECRST 1049; 25 only shows and hides the cursor.               *)
Mode(s, n, set) ==
  CASE n = 1049 /\ set -> [s EXCEPT !.alt = s.cells, !.cells = Clear, !.x = 0, !.y = 0]
    [] n = 1049 /\ ~set /\ s.alt # NoAlt -> [s EXCEPT !.cells = s.alt, !.x = s.sx, !.y = s.sy]
    [] OTHER -> s

(* ansi_execute                                                              *)
Executed(s, p, b) ==
  LET n == Param(p, 1)
  IN CASE b = "H" -> Goto(s, n, Param(p, 2))
       [] b = "A" -> [s EXCEPT !.y = IF @ >= n THEN @ - n ELSE 0]
       [] b = "B" -> [s EXCEPT !.y = Smaller(Wrap16(@ + n), Rows - 1)]
       [] b = "C" -> [s EXCEPT !.x = Smaller(Wrap16(@ + n), Cols - 1)]
       [] b = "D" -> [s EXCEPT !.x = IF @ >= n THEN @ - n ELSE 0]
       [] b = "J" /\ n = 2 -> [s EXCEPT !.cells = Clear]
       [] b = "J" /\ n = 1 -> [s EXCEPT !.cells = Erased(s, 0, Here(s))]
       [] b = "K" /\ n = 2 -> [s EXCEPT !.cells = Erased(s, s.y * Cols, s.y * Cols + Cols - 1)]
       [] b = "K" /\ n = 1 -> [s EXCEPT !.cells = Erased(s, s.y * Cols, Here(s))]
       [] b = "s" /\ ~p.private -> [s EXCEPT !.sx = s.x, !.sy = s.y]
       [] b = "u" /\ ~p.private -> [s EXCEPT !.x = s.sx, !.y = s.sy]
       [] b \in {"h", "l"} /\ p.private -> Mode(s, n, b = "h")
       [] OTHER -> s

(* ansi_putc.  A parameter is one byte here, whatever its digits.            *)
AnsiPutc(e, b, who) ==
  LET To(state) == [e EXCEPT !.p.state = state]
      st == e.p.state
      k == b[1]
  IN CASE st = "ground" /\ k = "esc" -> [e EXCEPT !.p = [Ground EXCEPT !.state = "esc"]]
       [] st = "ground" /\ k # "esc" -> Putc(e, b, who)
       [] st = "esc" -> To(CASE k = "[" -> "csi" [] k = "]" -> "osc" [] OTHER -> "ground")
       [] st = "csi" /\ k = "number" -> [e EXCEPT !.p.params[Len(e.p.params)] = b[2]]
       [] st = "csi" /\ k = ";" ->
            IF Len(e.p.params) < 16 THEN [e EXCEPT !.p.params = Append(@, 0)] ELSE e
       [] st = "csi" /\ k = "?" -> [e EXCEPT !.p.private = TRUE]
       [] st = "csi" /\ k \notin {"number", ";", "?"} ->
            [e EXCEPT !.s = Executed(e.s, e.p, k), !.p = Ground]
       [] st = "osc" -> To(CASE k = "bel" -> "ground" [] k = "esc" -> "esc" [] OTHER -> "osc")

Became(e) ==
  /\ tty' = e.s
  /\ parser' = e.p
  /\ out' = e.out
  /\ spilled' = e.spilled

------------------------------------------------------------------------------
Bytes == {Byte(k) : k \in {"char", "nl", "cr", "bs", "tab", "bel", "esc", "[", "]"}}
InSequence == {Byte(k) : k \in Finals \cup {";", "?"}} \cup {Number(n) : n \in Params}

(* term_write with one more byte of a program.                               *)
ProgramByte(b) ==
  /\ capture = NoCapture /\ ~spilled
  /\ b \in InSequence => parser.state = "csi"
  /\ b[1] = "number" => Last(parser.params) = 0
  /\ b[1] = ";" => Len(parser.params) < MaxParams
  /\ Became(AnsiPutc(Emulator(FALSE), b, Program))
  /\ UNCHANGED capture

(* screen_push_line: what the first n characters of a line do, and a line of *)
(* n characters.                                                             *)
AfterChars[n \in 0 .. MaxLine] ==
  IF n = 0 THEN Emulator(TRUE) ELSE AnsiPutc(AfterChars[n - 1], Byte("char"), Kernel)
PushLine(n) ==
  /\ capture = NoCapture /\ ~spilled
  /\ Became(AnsiPutc(AfterChars[n], Byte("nl"), Kernel))
  /\ UNCHANGED capture

(* exec_capture, and the output it diverts: a line keeps a place for its     *)
(* newline, a program's bytes do not.                                        *)
CaptureBegin == capture = NoCapture /\ capture' = 0 /\ UNCHANGED <<tty, parser, out, spilled>>
CaptureEnd == capture # NoCapture /\ capture' = NoCapture /\ UNCHANGED <<tty, parser, out, spilled>>

Filled(room, n) == IF capture + room >= CaptureMax THEN capture
                   ELSE Smaller(capture + n, CaptureMax - room)

CapturedLine(n) ==
  LET text == Filled(2, n) IN IF text + 1 < CaptureMax THEN text + 1 ELSE text

CaptureLine(n) ==
  capture # NoCapture /\ capture' = CapturedLine(n) /\ UNCHANGED <<tty, parser, out, spilled>>
CaptureByte ==
  capture # NoCapture /\ capture' = Filled(1, 1) /\ UNCHANGED <<tty, parser, out, spilled>>

TermNext ==
  \/ \E b \in Bytes \cup InSequence : ProgramByte(b)
  \/ \E n \in 0 .. MaxLine : PushLine(n) \/ CaptureLine(n)
  \/ CaptureBegin \/ CaptureEnd \/ CaptureByte

------------------------------------------------------------------------------
(* Whatever sequence a program sends, and wherever a line of the kernel cuts *)
(* it, the cursor and the saved cursor are cells of the grid and captured    *)
(* output leaves a place for its final zero, unless program output scrolled. *)
WritesInBuffers ==
  ~spilled =>
    /\ tty.x \in 0 .. Cols - 1 /\ tty.y \in 0 .. Rows - 1
    /\ tty.sx \in 0 .. Cols - 1 /\ tty.sy \in 0 .. Rows - 1
    /\ capture # NoCapture => capture < CaptureMax

Text(s) == SelectSeq([i \in 1 .. Cols * Rows |-> s.cells[i - 1]], LAMBDA c : c # Blank)

(* A line of the kernel at the end of what is on the screen is neither cut   *)
(* nor doubled, and nothing above it is lost, however far it scrolls: rows   *)
(* given to the scrollback, then the grid, hold all that was there and the   *)
(* line.                                                                     *)
LinesKept ==
  [][\A n \in 0 .. MaxLine :
       /\ tty' # tty /\ parser = Ground
       /\ \A i \in Cells : i >= Here(tty) => tty.cells[i] = Blank
       /\ PushLine(n)
       => FlattenSeq(out') \o Text(tty') = Text(tty) \o [i \in 1 .. n |-> Kernel]]_termVars

(* "The nested call must write ONLY to the linked-list scrollback - not back *)
(* into the cell buffer": no write of the terminal leaves the grid.          *)
WritesInGrid == ~spilled

TermSpec == TermInit /\ [][TermNext]_termVars
==============================================================================

----------------------------- MODULE TermCanvas ------------------------------
(* The terminal program, wasm/term/term.c: its grid of characters, the rows  *)
(* it marks, and the canvas it draws them on.  How keys and sizes reach it   *)
(* is in KernWm; here a key is one action, with the output of the command    *)
(* when it is Enter, and a cell of the canvas is a character, inverted where *)
(* the cursor was drawn.  Colours are left out.                              *)
EXTENDS Naturals, Sequences, SequencesExt

CONSTANTS
  MaxCols, MaxRows,  \* MAX_COLS and MAX_ROWS
  Geometries,        \* the sizes the window may have, [cols, rows]
  TabStop,           \* 4
  CmdRoom,           \* the characters cmd_buf takes
  Letters,           \* characters that are typed
  PromptText,        \* what print_prompt writes
  Outputs            \* what commands print, "nl", "cr", "bs" and "tab" among it

ASSUME CanvasAssumption ==
  \A g \in Geometries : g.cols \in 1 .. MaxCols /\ g.rows \in 1 .. MaxRows

VARIABLES
  size,      \* max_cols and max_rows
  pad,       \* grid, row_dirty as a set, the cursor x and y, prev_cursor, and the canvas
  cmd_len,
  round      \* "wait", or what modified says of the keys read since the signal
canvasVars == <<size, pad, cmd_len, round>>

Space == " "
GridRows == 0 .. MaxRows - 1
GridCols == 0 .. MaxCols - 1
RowsOf(g) == 0 .. g.rows - 1
Pixel(ch, inv) == [ch |-> ch, inv |-> inv]

-----------------------------------------------------------------------------
(* term_scroll, at size g                                                    *)
ScrollUp(g, p) ==
  [p EXCEPT !.grid = [r \in GridRows |-> [c \in GridCols |->
                        IF r \notin RowsOf(g) \/ c >= g.cols THEN @[r][c]
                        ELSE IF r < g.rows - 1 THEN @[r + 1][c] ELSE Space]],
            !.dirty = @ \cup RowsOf(g), !.y = g.rows - 1]
NextLine(g, p) ==
  IF p.y + 1 < g.rows THEN [p EXCEPT !.x = 0, !.y = @ + 1] ELSE ScrollUp(g, [p EXCEPT !.x = 0])

(* A character into a cell of the current row.                               *)
SetCell(p, c, ch) == [p EXCEPT !.grid[p.y][c] = ch, !.dirty = @ \cup {p.y}]

(* A faulty variant: the row is not marked.                                  *)
BackUnmarked(p) == IF p.x = 0 THEN p ELSE [p EXCEPT !.grid[p.y][p.x - 1] = Space, !.x = @ - 1]
Back(p) == IF p.x = 0 THEN p ELSE [SetCell(p, p.x - 1, Space) EXCEPT !.x = @ - 1]

(* term_putc                                                                 *)
TabEnd(g, p) == (p.x \div TabStop) * TabStop + TabStop
Tabbed(g, p) ==
  [p EXCEPT !.grid[p.y] = [c \in GridCols |-> IF c >= p.x /\ c < TabEnd(g, p) /\ c < g.cols THEN Space ELSE @[c]],
            !.dirty = @ \cup {p.y},
            !.x = IF TabEnd(g, p) < g.cols THEN TabEnd(g, p) ELSE IF @ < g.cols THEN g.cols ELSE @]
Written(g, p, ch) ==
  LET q == IF p.x >= g.cols THEN NextLine(g, p) ELSE p
  IN [SetCell(q, q.x, ch) EXCEPT !.x = @ + 1]
PutCh(g, p, ch) ==
  CASE ch = "nl" -> NextLine(g, p)
    [] ch = "cr" -> [p EXCEPT !.x = 0]
    [] ch = "bs" -> Back(p)
    [] ch = "tab" -> Tabbed(g, p)
    [] OTHER -> Written(g, p, ch)
PutAll(g, p, text) == FoldLeft(LAMBDA q, ch : PutCh(g, q, ch), p, text)

(* term_render: the place of the last cursor, the marked rows, the cursor if *)
(* it is inside, and nothing below the rows.                                 *)
Visible(g, p) == p.x < g.cols /\ p.y < g.rows
Rendered(g, p) ==
  LET drawn(c, r) == r \in p.dirty \/ (c = p.prev.x /\ r = p.prev.y)
  IN [p EXCEPT
        !.canvas = [r \in GridRows |-> [c \in GridCols |->
          IF r >= g.rows THEN Pixel(Space, FALSE)
          ELSE IF c >= g.cols THEN @[r][c]
          ELSE IF Visible(g, p) /\ c = p.x /\ r = p.y THEN Pixel(p.grid[r][c], TRUE)
          ELSE IF drawn(c, r) THEN Pixel(p.grid[r][c], FALSE) ELSE @[r][c]]],
        !.dirty = @ \ RowsOf(g),
        !.prev = IF Visible(g, p) THEN [x |-> p.x, y |-> p.y] ELSE @]

(* update_geometry                                                           *)
Lifted(g, p) ==
  IF p.y < g.rows THEN p
  ELSE LET shift == p.y - (g.rows - 1)
       IN [p EXCEPT !.grid = [r \in GridRows |-> IF r \notin RowsOf(g) THEN @[r]
                                                 ELSE IF r + shift < MaxRows THEN @[r + shift]
                                                 ELSE [c \in GridCols |-> Space]],
                    !.dirty = @ \cup RowsOf(g), !.y = g.rows - 1]
ClearedAfter(g, p) ==
  [p EXCEPT !.grid = [r \in GridRows |-> [c \in GridCols |->
                        IF r > p.y \/ (r = p.y /\ c >= p.x) THEN Space ELSE @[r][c]]],
            !.dirty = @ \cup (p.y .. g.rows - 1)]
Reshaped(old, g, p) ==
  LET q == ClearedAfter(g, Lifted(g, p))
  IN IF p.y >= g.rows \/ g # old THEN Rendered(g, [q EXCEPT !.dirty = @ \cup RowsOf(g)]) ELSE q

-----------------------------------------------------------------------------
(* _start up to the first wait                                               *)
CanvasInit ==
  /\ size \in Geometries
  /\ pad = LET blank == [r \in GridRows |-> [c \in GridCols |-> Space]]
               p == [grid |-> blank, dirty |-> GridRows, x |-> 0, y |-> 0, prev |-> [x |-> 0, y |-> 0],
                     canvas |-> [r \in GridRows |-> [c \in GridCols |-> Pixel(Space, FALSE)]]]
           IN Rendered(size, PutAll(size, p, PromptText))
  /\ cmd_len = 0
  /\ round = "wait"

(* A signal that keys are there, or another size.                            *)
KeySignal(g) ==
  /\ round = "wait"
  /\ size' = g /\ pad' = Reshaped(size, g, pad) /\ round' = "same"
  /\ UNCHANGED cmd_len

TypeLetter(ch) ==
  /\ round # "wait" /\ cmd_len < CmdRoom
  /\ cmd_len' = cmd_len + 1 /\ pad' = PutCh(size, pad, ch) /\ round' = "modified"
  /\ UNCHANGED size
TypeErase ==
  /\ round # "wait" /\ cmd_len > 0
  /\ cmd_len' = cmd_len - 1 /\ pad' = PutCh(size, pad, "bs") /\ round' = "modified"
  /\ UNCHANGED size

(* exec_command: the line and then the command's output and a prompt are     *)
(* drawn; a command that is empty prints nothing.                            *)
TypeEnter(out) ==
  /\ round # "wait" /\ (cmd_len = 0 => out = << >>)
  /\ LET p == PutAll(size, Rendered(size, PutCh(size, pad, "nl")), out)
         q == IF p.x > 0 THEN PutCh(size, p, "nl") ELSE p
     IN pad' = Rendered(size, PutAll(size, q, PromptText))
  /\ cmd_len' = 0 /\ round' = "same"
  /\ UNCHANGED size

(* cancel_command                                                            *)
TypeCancel ==
  /\ round # "wait"
  /\ pad' = Rendered(size, PutAll(size, pad, <<"^", "C", "nl">> \o PromptText))
  /\ cmd_len' = 0 /\ round' = "same"
  /\ UNCHANGED size

KeysRead ==
  /\ round # "wait"
  /\ pad' = IF round = "modified" THEN Rendered(size, pad) ELSE pad
  /\ round' = "wait"
  /\ UNCHANGED <<size, cmd_len>>

CanvasNext ==
  \/ \E g \in Geometries : KeySignal(g)
  \/ \E ch \in Letters : TypeLetter(ch)
  \/ TypeErase \/ TypeCancel \/ KeysRead
  \/ \E out \in Outputs : TypeEnter(out)

CanvasSpec == CanvasInit /\ [][CanvasNext]_canvasVars

-----------------------------------------------------------------------------
(* When the terminal waits, its canvas shows the grid in every row that is   *)
(* not marked for drawing, and one cursor, where the grid's is, or none when *)
(* that is past the end of the line: whatever was written, scrolled, erased  *)
(* or resized in between (row_dirty and prev_cursor, term.c 284-335).        *)
CanvasFollows ==
  round = "wait" =>
    \A r \in RowsOf(size), c \in 0 .. size.cols - 1 :
      /\ r \in pad.dirty \/ pad.canvas[r][c].ch = pad.grid[r][c]
      /\ pad.canvas[r][c].inv <=> (c = pad.x /\ r = pad.y)
==============================================================================

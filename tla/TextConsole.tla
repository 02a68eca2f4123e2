---------------------------- MODULE TextConsole ----------------------------
(*********************************************************************************)
(* The text console of x86_64: print.c, which keeps a cursor over the CGA        *)
(* buffer, and console.c, which calls it and moves the hardware cursor.  A row   *)
(* that is full is left only by the next character, so the cursor's x may be     *)
(* CGA_NUM_COLS.                                                                 *)
(*                                                                               *)
(* The reference is an endless tape of cells, of which the screen shows the last *)
(* rows: printing goes on along the tape, a deletion goes back by one cell.      *)
(*********************************************************************************)
EXTENDS Naturals, Sequences

CONSTANTS
  CGA_NUM_COLS, CGA_NUM_ROWS,   \* 80 and 25 in the code
  Strings,                      \* arguments of con_string
  Places,                       \* arguments of con_xy
  MaxOps                        \* bound: console operations in a behaviour

ASSUME ScreenAssumption ==
  /\ CGA_NUM_COLS \in Nat \ {0} /\ CGA_NUM_ROWS \in Nat \ {0, 1}
  /\ \A str \in Strings : Len(str) \in Nat
  /\ Places \subseteq Nat \X Nat
  /\ MaxOps \in Nat

VARIABLES
  cursor,       \* [x, y]
  cga_buffer,   \* cell -> [code, color]
  char_color,
  hwcursor,     \* position register of the hardware cursor
  tape,         \* reference: [cell, pos, full, top]; full: pos is past a full row
  entered, ops  \* history: tape cells typed since another operation, operations

convars == <<cursor, cga_buffer, char_color, hwcursor, tape, entered, ops>>

(* The first cell of a row, and the row of a cell *)
RowAt(r) == r * CGA_NUM_COLS
RowOf(p) == p \div CGA_NUM_COLS

Cells == 0..(RowAt(CGA_NUM_ROWS) - 1)
Empty == [code |-> "0", color |-> char_color]

(* The two static objects of print.c *)
screen == [x |-> cursor.x, y |-> cursor.y, buf |-> cga_buffer]
At(s) == s.x + RowAt(s.y)

(* A store: outside the buffer it would add a cell to it. *)
Store(s, c) ==
  [s EXCEPT !.buf = [i \in DOMAIN s.buf \cup {At(s)} |-> IF i = At(s) THEN c ELSE s.buf[i]]]

(* Slip: the rows move down. *)
Scrolled_down(buf) ==
  [i \in Cells |-> IF RowOf(i) = CGA_NUM_ROWS - 1 THEN Empty
                   ELSE IF i < CGA_NUM_COLS THEN buf[i] ELSE buf[i - CGA_NUM_COLS]]

(* The rows move up, and clear_row empties the last. *)
Scrolled(buf) ==
  [i \in Cells |-> IF RowOf(i) = CGA_NUM_ROWS - 1 THEN Empty
                   ELSE buf[i + CGA_NUM_COLS]]

print_newLine(s) ==
  IF s.y < CGA_NUM_ROWS - 1
    THEN [x |-> 0, y |-> s.y + 1, buf |-> s.buf]
    ELSE [x |-> 0, y |-> s.y, buf |-> Scrolled(s.buf)]

(* Slip: a deletion stops at the start of the row. *)
print_del_row(s) ==
  IF s.x = 0 THEN s
  ELSE Store([s EXCEPT !.x = s.x - 1], Empty)

print_del(s) ==
  LET back == IF s.x > 0 THEN [s EXCEPT !.x = s.x - 1]
              ELSE [x |-> CGA_NUM_COLS - 1, y |-> s.y - 1, buf |-> s.buf]
  IN  IF s.x = 0 /\ s.y = 0 THEN s ELSE Store(back, Empty)

(* print_char for a character with a glyph *)
print_glyph(s, c) ==
  LET t == IF s.x >= CGA_NUM_COLS THEN print_newLine(s) ELSE s
  IN  [Store(t, [code |-> c, color |-> char_color]) EXCEPT !.x = t.x + 1]

print_tab(s) == LET space(u) == print_glyph(u, " ") IN space(space(space(space(s))))

print_char(s, c) ==
  CASE c = "TAB" -> print_tab(s)
    [] c = "CR"  -> [s EXCEPT !.x = 0]
    [] c = "LF"  -> print_newLine(s)
    [] c = "DEL" -> print_del(s)
    [] OTHER     -> print_glyph(s, c)

print_string(s, str) ==
  LET printed[n \in 0..Len(str)] == IF n = 0 THEN s ELSE print_char(printed[n - 1], str[n])
  IN  printed[Len(str)]

-----------------------------------------------------------------------------
(* The reference.  Cells of the tape that were never written are empty. *)
CellAt(t, p) == IF p \in DOMAIN t.cell THEN t.cell[p] ELSE "0"
Write(t, p, c) ==
  [t EXCEPT !.cell = [i \in DOMAIN t.cell \cup {p} |-> IF i = p THEN c ELSE t.cell[i]]]

RowStart(p) == RowAt(RowOf(p))
Shows(t, p) ==    \* the window reaches down to the row of cell p
  [t EXCEPT !.top = IF RowOf(p) >= t.top + CGA_NUM_ROWS THEN RowOf(p) - CGA_NUM_ROWS + 1
                    ELSE t.top]
Put(t, c) ==
  LET w == Write(Shows(t, t.pos), t.pos, c)
  IN  [cell |-> w.cell, pos |-> t.pos + 1, full |-> (RowStart(t.pos + 1) = t.pos + 1),
       top |-> w.top]
Go(t, p) == [cell |-> t.cell, pos |-> p, full |-> FALSE, top |-> t.top]

TapeChar(t, c) ==
  CASE c = "TAB" -> LET space(u) == Put(u, " ") IN space(space(space(space(t))))
    [] c = "CR"  -> Go(t, IF t.full THEN t.pos - CGA_NUM_COLS ELSE RowStart(t.pos))
    [] c = "LF"  -> LET p == IF t.full THEN t.pos ELSE RowStart(t.pos) + CGA_NUM_COLS
                    IN  Go(Shows(t, p), p)
    [] c = "DEL" -> IF t.pos = RowAt(t.top) THEN t
                    ELSE Write(Go(t, t.pos - 1), t.pos - 1, "0")
    [] OTHER     -> Put(t, c)

TapeString(t, str) ==
  LET along[n \in 0..Len(str)] == IF n = 0 THEN t ELSE TapeChar(along[n - 1], str[n])
  IN  along[Len(str)]

BlankTape == [cell |-> <<>>, pos |-> 0, full |-> FALSE, top |-> 0]

-----------------------------------------------------------------------------
(* The buffer holds what the firmware has left there. *)
ConInit ==
  /\ cursor = [x |-> 0, y |-> 0]
  /\ cga_buffer = [i \in Cells |-> [code |-> "?", color |-> "gray"]]
  /\ char_color = "white"
  /\ hwcursor = 0
  /\ tape = BlankTape /\ entered = <<>> /\ ops = 0

(* Slip: row and column are swapped. *)
move_cursor_swapped(s) ==
  /\ cursor' = [x |-> s.x, y |-> s.y]
  /\ cga_buffer' = s.buf
  /\ hwcursor' = s.y + RowAt(s.x)

(* The end of a console operation: move_cursor *)
move_cursor(s) ==
  /\ cursor' = [x |-> s.x, y |-> s.y]
  /\ cga_buffer' = s.buf
  /\ hwcursor' = At(s)

Op == 0 < ops /\ ops < MaxOps /\ ops' = ops + 1 /\ UNCHANGED char_color

(* con_string; con_char, con_tab and con_ln print one or two characters. *)
con_string(str) ==
  /\ Op
  /\ move_cursor(print_string(screen, str))
  /\ tape' = TapeString(tape, str)
  /\ entered' = <<>>

(* con_char for a glyph, and for a deletion *)
con_char(c) ==
  /\ Op
  /\ move_cursor(print_char(screen, c))
  /\ tape' = TapeChar(tape, c)
  /\ entered' = IF c # "DEL" THEN Append(entered, tape.pos)
                ELSE IF entered = <<>> THEN entered ELSE SubSeq(entered, 1, Len(entered) - 1)

(* Slip: the bounds include the size. *)
con_xy_past(cx, cy) ==
  /\ Op
  /\ LET s == IF cx > CGA_NUM_COLS \/ cy > CGA_NUM_ROWS THEN screen
              ELSE [screen EXCEPT !.x = cx, !.y = cy]
     IN  move_cursor(s)
  /\ tape' = tape
  /\ entered' = <<>>

(* con_xy: print_setxy refuses a place outside the screen. *)
con_xy(cx, cy) ==
  /\ Op
  /\ LET out == cx >= CGA_NUM_COLS \/ cy >= CGA_NUM_ROWS
     IN  /\ move_cursor(IF out THEN screen ELSE [x |-> cx, y |-> cy, buf |-> cga_buffer])
         /\ tape' = IF out THEN tape ELSE Go(tape, RowAt(tape.top + cy) + cx)
  /\ entered' = <<>>

Cleared == [x |-> 0, y |-> 0, buf |-> [i \in Cells |-> Empty]]

(* con_clear *)
con_clear ==
  /\ Op
  /\ move_cursor(Cleared)
  /\ tape' = BlankTape
  /\ entered' = <<>>

(* set_con: the screen is cleared in the old color. *)
set_con ==
  /\ ops = 0 /\ ops' = 1
  /\ move_cursor(Cleared)
  /\ char_color' = "yellow"
  /\ UNCHANGED <<tape, entered>>

ConNext ==
  \/ set_con \/ con_clear
  \/ \E s \in Strings : con_string(s)
  \/ \E c \in {"a", "DEL"} : con_char(c)
  \/ \E p \in Places : con_xy(p[1], p[2])

ConSpec == ConInit /\ [][ConNext]_convars

-----------------------------------------------------------------------------
(* print.c: the cursor stays on the screen, or just after a full row, and nothing is stored *)
(* outside the buffer.                                                                      *)
ConTypeOK ==
  /\ cursor \in [x : 0..CGA_NUM_COLS, y : 0..(CGA_NUM_ROWS - 1)]
  /\ DOMAIN cga_buffer = Cells
  /\ char_color \in {"white", "yellow"}
  /\ hwcursor \in Nat

(* print.c: whatever is printed, deleted, scrolled and wrapped, the screen shows the last rows *)
(* of the text, in order and in the console's color.                                           *)
ScreenShowsTape ==
  ops > 0 => \A i \in Cells :
    /\ cga_buffer[i].code = CellAt(tape, i + RowAt(tape.top))
    /\ cga_buffer[i].code # "0" => cga_buffer[i].color = char_color

(* console.c, move_cursor: the hardware cursor is at the cell where the next character *)
(* will appear, also after a full row; only after a full last row it is beyond the     *)
(* screen.                                                                             *)
CursorAtNextCell ==
  /\ hwcursor = tape.pos - RowAt(tape.top)
  /\ hwcursor \notin Cells => tape.full /\ cursor.y = CGA_NUM_ROWS - 1

(* print_del: characters typed one by one are erased in reverse order by as many deletions, *)
(* across wrapped rows and scrolling, as long as they are on the screen.                    *)
DelErasesLast ==
  [][con_char("DEL") /\ entered # <<>> /\ entered[Len(entered)] >= RowAt(tape.top)
       => LET i == entered[Len(entered)] - RowAt(tape.top)
          IN  hwcursor' = i /\ cga_buffer'[i].code = "0"]_convars

=============================================================================

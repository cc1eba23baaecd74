--------------------------------- MODULE Tty ---------------------------------
(***************************************************************************)
(* The terminal: the cursor, the screen and the functions that print,      *)
(* called by several tasks that the timer preempts anywhere, and by the    *)
(* keyboard handler, which clears the screen on ctrl-l.                    *)
(*                                                                         *)
(* Nothing is locked.  The kernel is compiled without optimisation, so an  *)
(* increment of tty_xpos or tty_ypos is a load and a store, and the test   *)
(* that follows reads the variable again; each is a step, with these       *)
(* exceptions.  The two coordinates that are passed to a function, and     *)
(* those that tty_deleteprev looks at, are loaded together: each by itself *)
(* is then on the screen or not, whatever moves the other.  The loops over *)
(* the cells in tty_scroll and tty_clear are one step, the write of a cell *)
(* goes with the load after it and the port writes of update_cursor with   *)
(* the store before them: only what the screen looks like after two        *)
(* printers have met depends on these.  Colours are left out.  Operands    *)
(* are forgotten (0) once used.                                            *)
(***************************************************************************)
EXTENDS Integers, SequencesExt

CONSTANTS
  Printers,       \* tasks that print
  Chars,          \* printable characters
  SCREEN_WIDTH, SCREEN_HEIGHT,
  TabStop,        \* 8
  SizeMod         \* range of size_t (2^32)

ASSUME TtyConstants ==
  /\ SCREEN_WIDTH \in Nat \ {0, 1} /\ SCREEN_HEIGHT \in Nat \ {0, 1}
  /\ TabStop \in Nat \ {0}
  /\ SizeMod \in Nat /\ SizeMod > SCREEN_WIDTH + 1 /\ SizeMod > SCREEN_HEIGHT + 1

Columns == 0..SCREEN_WIDTH - 1
Rows    == 0..SCREEN_HEIGHT - 1
Sizes   == 0..SizeMod - 1
Cells   == Chars \cup {" "}
Blank   == [r \in Rows |-> [k \in Columns |-> " "]]

VARIABLES
  tty_xpos, tty_ypos,
  tty_buffer,   \* the rows of cells
  cursor,       \* position in the VGA registers
  pc,           \* of each task: the access it makes next, "idle" outside
  x, y,         \* of each task: operands, arguments
  char,         \* of each task: what the next cell is set to
  blanks,       \* of each task: characters a tab has still to print
  stray,        \* a cell outside the screen was written
  met,          \* history: somebody acted while another was inside a call
  caught,       \* history: ... while another was Exposed
  paper         \* history: the rows printed, as on endless paper

globals  == <<tty_xpos, tty_ypos, tty_buffer, cursor>>
locals   == <<x, y, char, blanks>>
notes    == <<met, caught>>
vars     == <<globals, pc, locals, stray, notes, paper>>

Init ==
  /\ tty_xpos = 0 /\ tty_ypos = 0 /\ tty_buffer = Blank /\ cursor = 0
  /\ pc = [p \in Printers |-> "idle"]
  /\ x = [p \in Printers |-> 0] /\ y = [p \in Printers |-> 0]
  /\ char = [p \in Printers |-> " "] /\ blanks = [p \in Printers |-> 0]
  /\ stray = FALSE /\ met = FALSE /\ caught = FALSE
  /\ paper = << <<>> >>

-----------------------------------------------------------------------------
(* Endless paper: the reference for what the screen shows *)

NewRow(rows) == Append(rows, <<>>)

Typed(rows, c) ==
  LET row == Append(Last(rows), c) IN
  IF Len(row) = SCREEN_WIDTH THEN NewRow(Append(Front(rows), row))
  ELSE Append(Front(rows), row)

Padded(row) == [k \in Columns |-> IF k < Len(row) THEN row[k + 1] ELSE " "]

\* At the start of a row the last column of the row before is erased.
Rubbed(rows) ==
  IF Last(rows) # <<>> THEN Append(Front(rows), Front(Last(rows)))
  ELSE LET before == Padded(Last(Front(rows))) IN
       Append(Front(Front(rows)), [k \in 1..SCREEN_WIDTH - 1 |-> before[k - 1]])

-----------------------------------------------------------------------------
(* Steps of a call; p is the task that makes it *)

\* The paper is not kept beyond the first overlap.
Record(rows) == paper' = IF met' THEN << <<>> >> ELSE rows

Go(p, next) == pc' = [pc EXCEPT ![p] = next]
Local(v, p, n) == [v EXCEPT ![p] = n % SizeMod]

Enter(p) == pc[p] = "idle"

\* tty_putc: a newline, a tab (a loop of blanks), or a cell.
PutNewline(p) ==
  /\ Enter(p)
  /\ tty_xpos' = 0
  /\ Record(NewRow(paper))
  /\ Go(p, "load y")
  /\ UNCHANGED <<tty_ypos, tty_buffer, cursor, locals, stray>>

PutTab(p) ==
  /\ Enter(p)
  /\ blanks' = [blanks EXCEPT ![p] = TabStop - (tty_xpos % TabStop)]
  /\ Record(paper)
  /\ Go(p, "cell")
  /\ UNCHANGED <<globals, x, y, char, stray>>

PutChar(p, c) ==
  /\ Enter(p)
  /\ blanks' = [blanks EXCEPT ![p] = 1]
  /\ char' = [char EXCEPT ![p] = c]
  /\ Record(paper)
  /\ Go(p, "cell")
  /\ UNCHANGED <<globals, x, y, stray>>

CellArgs(p) ==
  /\ pc[p] = "cell"
  /\ x' = Local(x, p, tty_xpos) /\ y' = Local(y, p, tty_ypos)
  /\ Record(Typed(paper, char[p]))
  /\ Go(p, "write cell")
  /\ UNCHANGED <<globals, char, blanks, stray>>

\* The arguments' cell, or memory beside the screen.
tty_putentryat(p) ==
  IF x[p] \in Columns /\ y[p] \in Rows
  THEN tty_buffer' = [tty_buffer EXCEPT ![y[p]][x[p]] = char[p]] /\ UNCHANGED stray
  ELSE stray' = TRUE /\ UNCHANGED tty_buffer

LoadX(p) ==
  /\ pc[p] = "write cell"
  /\ tty_putentryat(p)
  /\ x' = Local(x, p, tty_xpos) /\ y' = Local(y, p, 0)
  /\ Go(p, "store x")
  /\ UNCHANGED <<tty_xpos, tty_ypos, cursor, char, blanks, paper>>

StoreX(p) ==
  /\ pc[p] = "store x"
  /\ tty_xpos' = (x[p] + 1) % SizeMod
  /\ Go(p, "test x")
  /\ UNCHANGED <<tty_ypos, tty_buffer, cursor, locals, stray, paper>>

TestX(p) ==
  /\ pc[p] = "test x"
  /\ \/ tty_xpos = SCREEN_WIDTH /\ Go(p, "wrap") /\ UNCHANGED x
     \/ tty_xpos # SCREEN_WIDTH /\ Go(p, "args") /\ x' = Local(x, p, 0)
  /\ UNCHANGED <<globals, y, char, blanks, stray, paper>>

Wrap(p) ==
  /\ pc[p] = "wrap"
  /\ tty_xpos' = 0
  /\ x' = Local(x, p, 0)
  /\ Go(p, "load y")
  /\ UNCHANGED <<tty_ypos, tty_buffer, cursor, y, char, blanks, stray, paper>>

LoadY(p) ==
  /\ pc[p] = "load y"
  /\ y' = Local(y, p, tty_ypos)
  /\ Go(p, "store y")
  /\ UNCHANGED <<globals, x, char, blanks, stray, paper>>

StoreY(p) ==
  /\ pc[p] = "store y"
  /\ tty_ypos' = (y[p] + 1) % SizeMod
  /\ Go(p, "test y")
  /\ UNCHANGED <<tty_xpos, tty_buffer, cursor, locals, stray, paper>>

\* Fault: the last row is not the last that fits.
TestY_late(p) ==
  /\ pc[p] = "test y"
  /\ Go(p, IF tty_ypos > SCREEN_HEIGHT THEN "scroll" ELSE "args")
  /\ y' = Local(y, p, 0)
  /\ UNCHANGED <<globals, x, char, blanks, stray, paper>>

TestY(p) ==
  /\ pc[p] = "test y"
  /\ Go(p, IF tty_ypos = SCREEN_HEIGHT THEN "scroll" ELSE "args")
  /\ y' = Local(y, p, 0)
  /\ UNCHANGED <<globals, x, char, blanks, stray, paper>>

\* Fault: the last row stays.
Scrolled_uncleared ==
  [r \in Rows |-> tty_buffer[IF r = SCREEN_HEIGHT - 1 THEN r ELSE r + 1]]

Scrolled ==
  [r \in Rows |-> IF r = SCREEN_HEIGHT - 1 THEN [k \in Columns |-> " "]
                  ELSE tty_buffer[r + 1]]

tty_scroll(p) ==
  /\ pc[p] = "scroll"
  /\ tty_buffer' = Scrolled
  /\ Go(p, "load row")
  /\ UNCHANGED <<tty_xpos, tty_ypos, cursor, locals, stray, paper>>

\* tty_ypos--, at the end of tty_scroll and in tty_deleteprev.
LoadRow(p) ==
  /\ pc[p] \in {"load row", "load row above"}
  /\ y' = Local(y, p, tty_ypos)
  /\ Go(p, IF pc[p] = "load row" THEN "store row" ELSE "store row above")
  /\ UNCHANGED <<globals, x, char, blanks, stray, paper>>

StoreRow(p) ==
  /\ pc[p] \in {"store row", "store row above"}
  /\ tty_ypos' = (y[p] - 1) % SizeMod
  /\ y' = Local(y, p, 0)
  /\ Go(p, IF pc[p] = "store row" THEN "args" ELSE "blank")
  /\ UNCHANGED <<tty_xpos, tty_buffer, cursor, x, char, blanks, stray, paper>>

\* update_cursor(tty_xpos, tty_ypos) stores its arguments back.
CursorArgs(p) ==
  /\ pc[p] = "args"
  /\ x' = Local(x, p, tty_xpos) /\ y' = Local(y, p, tty_ypos)
  /\ Go(p, "set x")
  /\ UNCHANGED <<globals, char, blanks, stray, paper>>

SetX(p) ==
  /\ pc[p] = "set x"
  /\ tty_xpos' = x[p]
  /\ Go(p, "set y")
  /\ UNCHANGED <<tty_ypos, tty_buffer, cursor, locals, stray, paper>>

\* The call ends here, unless a tab has more blanks to print.
SetY(p) ==
  LET left == IF blanks[p] > 0 THEN blanks[p] - 1 ELSE 0 IN
  /\ pc[p] = "set y"
  /\ tty_ypos' = y[p]
  /\ cursor' = y[p] * SCREEN_WIDTH + x[p]
  /\ x' = Local(x, p, 0) /\ y' = Local(y, p, 0)
  /\ blanks' = [blanks EXCEPT ![p] = left]
  /\ char' = [char EXCEPT ![p] = " "]
  /\ Go(p, IF left > 0 THEN "cell" ELSE "idle")
  /\ UNCHANGED <<tty_xpos, tty_buffer, stray, paper>>

tty_putc(p) ==
  \/ PutNewline(p) \/ PutTab(p) \/ \E c \in Chars : PutChar(p, c)
  \/ CellArgs(p) \/ LoadX(p) \/ StoreX(p) \/ TestX(p) \/ Wrap(p)
  \/ LoadY(p) \/ StoreY(p) \/ TestY(p) \/ tty_scroll(p) \/ LoadRow(p) \/ StoreRow(p)
  \/ CursorArgs(p) \/ SetX(p) \/ SetY(p)

\* tty_deleteprev: nothing in the upper left corner; otherwise the column, or
\* the row and the last column, before the blank.
Delete(p) ==
  /\ Enter(p)
  /\ IF tty_xpos = 0 /\ tty_ypos = 0 THEN UNCHANGED pc /\ Record(paper)
     ELSE /\ Go(p, IF tty_xpos = 0 THEN "last column" ELSE "load column")
          /\ Record(IF paper = << <<>> >> THEN paper ELSE Rubbed(paper))
  /\ UNCHANGED <<globals, locals, stray>>

DeleteLastColumn(p) ==
  /\ pc[p] = "last column"
  /\ tty_xpos' = SCREEN_WIDTH - 1
  /\ Go(p, "load row above")
  /\ UNCHANGED <<tty_ypos, tty_buffer, cursor, locals, stray, paper>>

DeleteLoadColumn(p) ==
  /\ pc[p] = "load column"
  /\ x' = Local(x, p, tty_xpos)
  /\ Go(p, "store column")
  /\ UNCHANGED <<globals, y, char, blanks, stray, paper>>

DeleteStoreColumn(p) ==
  /\ pc[p] = "store column"
  /\ tty_xpos' = (x[p] - 1) % SizeMod
  /\ x' = Local(x, p, 0)
  /\ Go(p, "blank")
  /\ UNCHANGED <<tty_ypos, tty_buffer, cursor, y, char, blanks, stray, paper>>

DeleteArgs(p) ==
  /\ pc[p] = "blank"
  /\ x' = Local(x, p, tty_xpos) /\ y' = Local(y, p, tty_ypos)
  /\ Go(p, "write blank")
  /\ UNCHANGED <<globals, char, blanks, stray, paper>>

DeleteWrite(p) ==
  /\ pc[p] = "write blank"
  /\ tty_putentryat(p)
  /\ x' = Local(x, p, 0) /\ y' = Local(y, p, 0)
  /\ Go(p, "args")
  /\ UNCHANGED <<tty_xpos, tty_ypos, cursor, char, blanks, paper>>

tty_deleteprev(p) ==
  \/ Delete(p) \/ DeleteLastColumn(p) \/ DeleteLoadColumn(p) \/ DeleteStoreColumn(p)
  \/ DeleteArgs(p) \/ DeleteWrite(p)

\* tty_clear, called by the console's clear command.
Clear(p) ==
  /\ Enter(p)
  /\ tty_buffer' = Blank
  /\ tty_xpos' = 0
  /\ Record(<< <<>> >>)
  /\ Go(p, "clear y")
  /\ UNCHANGED <<tty_ypos, cursor, locals, stray>>

ClearY(p) ==
  /\ pc[p] = "clear y"
  /\ tty_ypos' = 0
  /\ Go(p, "set x")
  /\ UNCHANGED <<tty_xpos, tty_buffer, cursor, locals, stray, paper>>

tty_clear(p) == Clear(p) \/ ClearY(p)

\* isr_key_press calls tty_clear for ctrl-l, with interrupts off.
isr_key_press ==
  /\ tty_buffer' = Blank /\ tty_xpos' = 0 /\ tty_ypos' = 0 /\ cursor' = 0
  /\ Record(<< <<>> >>)
  /\ UNCHANGED <<pc, locals, stray>>

-----------------------------------------------------------------------------
(* Preemption *)

\* Between an increment that reaches the edge of the screen and the step that
\* brings the cursor back, and between tty_deleteprev's test and its load.
Exposed(p) ==
  \/ pc[p] \in {"test x", "wrap"} /\ x[p] + 1 = SCREEN_WIDTH
  \/ pc[p] = "test y" /\ y[p] + 1 = SCREEN_HEIGHT
  \/ pc[p] \in {"scroll", "load row", "store row"}
  \/ pc[p] \in {"load column", "last column", "load row above"}

Note(others) ==
  /\ met' = (met \/ \E q \in others : pc[q] # "idle")
  /\ caught' = (caught \/ \E q \in others : Exposed(q))

Next ==
  \/ \E p \in Printers : /\ Note(Printers \ {p})
                         /\ tty_putc(p) \/ tty_deleteprev(p) \/ tty_clear(p)
  \/ Note(Printers) /\ isr_key_press

Spec == Init /\ [][Next]_vars

-----------------------------------------------------------------------------
(* Properties *)

TypeOK ==
  /\ tty_xpos \in Sizes /\ tty_ypos \in Sizes /\ cursor \in Nat
  /\ tty_buffer \in [Rows -> [Columns -> Cells]]
  /\ x \in [Printers -> Sizes] /\ y \in [Printers -> Sizes]
  /\ char \in [Printers -> Cells] /\ blanks \in [Printers -> 0..TabStop]
  /\ stray \in BOOLEAN /\ met \in BOOLEAN /\ caught \in BOOLEAN

\* However the tasks are preempted and whenever ctrl-l is typed, no cell outside
\* the screen is written and the cursor stays on the screen, unless somebody
\* acts while another is at one of the few steps that Exposed names.
CursorOnScreen ==
  ~caught => /\ ~stray
             /\ (\A p \in Printers : ~Exposed(p))
                  => tty_xpos \in Columns /\ tty_ypos \in Rows

\* As long as calls do not overlap, the screen shows the end of the paper with
\* the cursor behind it: row by row upwards from the cursor, blank below it.
ScreenShowsPaper ==
  ~met /\ (\A p \in Printers : pc[p] = "idle") =>
    /\ tty_xpos = Len(Last(paper)) /\ tty_ypos < Len(paper)
    /\ cursor = tty_ypos * SCREEN_WIDTH + tty_xpos
    /\ \A r \in Rows :
         tty_buffer[r] = Padded(IF r > tty_ypos THEN <<>>
                                ELSE paper[Len(paper) - tty_ypos + r])
=============================================================================

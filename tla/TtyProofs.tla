------------------------------ MODULE TtyProofs ------------------------------
(***************************************************************************)
(* Proofs about Tty, for any number of tasks that print, any screen and    *)
(* any tab stop, whatever the preemptions.                                 *)
(***************************************************************************)
EXTENDS Tty, TLAPS

-----------------------------------------------------------------------------
(* The inductive invariant *)

Steps == {"idle", "cell", "write cell", "store x", "test x", "wrap", "load y", "store y",
          "test y", "scroll", "load row", "store row", "load row above", "store row above",
          "args", "set x", "set y", "last column", "load column", "store column", "blank",
          "write blank", "clear y"}

OnScreen == tty_xpos \in Columns /\ tty_ypos \in Rows

\* What a task read when nobody was Exposed.
Operands(p) ==
  /\ pc[p] \in {"idle", "clear y", "write cell", "set x", "set y", "write blank"}
       => x[p] \in Columns /\ y[p] \in Rows
  /\ pc[p] \in {"store x", "test x"} => x[p] \in Columns
  /\ pc[p] \in {"store y", "test y"} => y[p] \in Rows
  /\ pc[p] = "wrap" => x[p] + 1 = SCREEN_WIDTH
  /\ pc[p] = "store column" => x[p] \in Columns \ {0}
  /\ pc[p] = "store row above" => y[p] \in Rows \ {0}

\* Where a task that is Exposed has left the cursor.
Edge(p) ==
  /\ pc[p] \in {"test x", "wrap"} => tty_xpos = SCREEN_WIDTH /\ tty_ypos \in Rows
  /\ pc[p] \in {"test y", "scroll", "load row", "store row"}
       => tty_xpos \in Columns /\ tty_ypos = SCREEN_HEIGHT
  /\ pc[p] = "store row" => y[p] = SCREEN_HEIGHT
  /\ pc[p] \in {"load column", "last column", "load row above"} => OnScreen
  /\ pc[p] = "load column" => tty_xpos # 0
  /\ pc[p] \in {"last column", "load row above"} => tty_ypos # 0

\* Seen from a task that acts while no other one is Exposed.
Good(p) ==
  /\ ~stray /\ Operands(p)
  /\ Exposed(p) => Edge(p)
  /\ ~Exposed(p) => OnScreen

\* Until somebody is caught, at most one task is Exposed.
Safe ==
  ~caught =>
    /\ ~stray
    /\ \A p \in Printers : Operands(p)
    /\ \A p \in Printers : Exposed(p) => Edge(p) /\ \A q \in Printers : Exposed(q) => q = p
    /\ (\A p \in Printers : ~Exposed(p)) => OnScreen

IInv == TypeOK /\ pc \in [Printers -> Steps] /\ Safe

-----------------------------------------------------------------------------
(* Numbers *)

\* size_t arithmetic wraps only outside its range.
LEMMA Modulo ==
  /\ \A v \in Int : v % SizeMod \in Sizes
  /\ \A v \in Sizes : v % SizeMod = v
<1>1. SizeMod \in Nat \ {0}
  BY TtyConstants
<1>2. \A v \in Int : v % SizeMod \in Sizes
  BY <1>1 DEF Sizes
<1>3. ASSUME NEW v \in Sizes PROVE v % SizeMod = v
  BY <1>1, <1>3 DEF Sizes
<1> QED
  BY <1>2, <1>3

LEMMA SizesAreNat == \A v \in Sizes : v \in Nat /\ v + 1 \in Int /\ v - 1 \in Int
BY TtyConstants DEF Sizes

LEMMA Bounds ==
  /\ \A v \in Columns : v \in Sizes /\ v + 1 \in Sizes /\ (v # 0 => v - 1 \in Columns)
                        /\ (v + 1 # SCREEN_WIDTH => v + 1 \in Columns)
  /\ \A v \in Rows : v \in Sizes /\ v + 1 \in Sizes /\ (v # 0 => v - 1 \in Rows)
                     /\ (v + 1 # SCREEN_HEIGHT => v + 1 \in Rows)
  /\ 0 \in Columns /\ SCREEN_WIDTH - 1 \in Columns /\ SCREEN_WIDTH \notin Columns
  /\ 0 \in Rows /\ SCREEN_HEIGHT - 1 \in Rows /\ SCREEN_HEIGHT \notin Rows
  /\ SCREEN_WIDTH \in Sizes /\ SCREEN_HEIGHT \in Sizes
BY TtyConstants DEF Columns, Rows, Sizes

LEMMA InitIInv == Init => IInv
<1> SUFFICES ASSUME Init PROVE IInv
  OBVIOUS
<1>1. TypeOK
  <2>1. tty_buffer \in [Rows -> [Columns -> Cells]] /\ char \in [Printers -> Cells]
    BY DEF Init, Blank, Cells
  <2>0. 0 \in Sizes
    BY Bounds
  <2>2. /\ x \in [Printers -> Sizes] /\ y \in [Printers -> Sizes]
        /\ tty_xpos \in Sizes /\ tty_ypos \in Sizes
    BY <2>0 DEF Init
  <2>3. blanks \in [Printers -> 0..TabStop]
    <3>1. 0 \in 0..TabStop
      BY TtyConstants
    <3> QED
      BY <3>1 DEF Init
  <2> QED
    BY <2>1, <2>2, <2>3 DEF Init, TypeOK
<1>2. pc \in [Printers -> Steps]
  BY DEF Init, Steps
<1>3. Safe
  BY Bounds DEF Init, Safe, Operands, Exposed, OnScreen
<1> QED
  BY <1>1, <1>2, <1>3 DEF IInv

-----------------------------------------------------------------------------
(* One step of one task *)

\* The types of what a step of a call changes, pc apart.
TypeCore ==
  /\ tty_xpos \in Sizes /\ tty_ypos \in Sizes /\ cursor \in Nat
  /\ tty_buffer \in [Rows -> [Columns -> Cells]]
  /\ x \in [Printers -> Sizes] /\ y \in [Printers -> Sizes]
  /\ char \in [Printers -> Cells] /\ blanks \in [Printers -> 0..TabStop]
  /\ stray \in BOOLEAN

\* Task p goes on to next with operands a and b; the others stay where they are.
Moves(p, next, a, b) ==
  /\ pc' \in [Printers -> Steps] /\ x' \in [Printers -> Sizes] /\ y' \in [Printers -> Sizes]
  /\ pc'[p] = next /\ x'[p] = a /\ y'[p] = b
  /\ \A q \in Printers \ {p} : pc'[q] = pc[q] /\ x'[q] = x[q] /\ y'[q] = y[q]

LEMMA Moved ==
  ASSUME TypeCore, pc \in [Printers -> Steps], NEW p \in Printers,
         NEW next \in Steps, Go(p, next), NEW a \in Sizes, NEW b \in Sizes,
         x' = Local(x, p, a) \/ (x' = x /\ a = x[p]),
         y' = Local(y, p, b) \/ (y' = y /\ b = y[p])
  PROVE  Moves(p, next, a, b)
<1>1. Local(x, p, a) = [x EXCEPT ![p] = a] /\ Local(y, p, b) = [y EXCEPT ![p] = b]
  BY Modulo DEF Local
<1>2. x' \in [Printers -> Sizes] /\ x'[p] = a /\ \A q \in Printers \ {p} : x'[q] = x[q]
  BY <1>1 DEF TypeCore
<1>3. y' \in [Printers -> Sizes] /\ y'[p] = b /\ \A q \in Printers \ {p} : y'[q] = y[q]
  BY <1>1 DEF TypeCore
<1>4. pc' \in [Printers -> Steps] /\ pc'[p] = next /\ \A q \in Printers \ {p} : pc'[q] = pc[q]
  BY DEF Go
<1> QED
  BY <1>2, <1>3, <1>4 DEF Moves

\* What a step of p keeps.
Kept(p) ==
  /\ TypeCore' /\ \E next, a, b : Moves(p, next, a, b)
  /\ Good(p) => Good(p)'

\* A cell of the screen is written unless the operands are beside it.
LEMMA CellWritten ==
  ASSUME TypeCore, NEW p \in Printers, tty_putentryat(p)
  PROVE  /\ tty_buffer' \in [Rows -> [Columns -> Cells]] /\ stray' \in BOOLEAN
         /\ x[p] \in Columns /\ y[p] \in Rows => stray' = stray
<1>1. CASE x[p] \in Columns /\ y[p] \in Rows
  <2>1. tty_buffer' = [tty_buffer EXCEPT ![y[p]][x[p]] = char[p]] /\ stray' = stray
    BY <1>1 DEF tty_putentryat
  <2>2. char[p] \in Cells
    BY DEF TypeCore
  <2> QED
    BY <1>1, <2>1, <2>2 DEF TypeCore
<1>2. CASE ~(x[p] \in Columns /\ y[p] \in Rows)
  BY <1>2 DEF tty_putentryat, TypeCore
<1> QED
  BY <1>1, <1>2

LEMMA CellStep ==
  ASSUME TypeCore, pc \in [Printers -> Steps], NEW p \in Printers,
         CellArgs(p) \/ CursorArgs(p) \/ DeleteArgs(p)
  PROVE  Kept(p)
<1> DEFINE next == CASE pc[p] = "cell" -> "write cell" [] pc[p] = "args" -> "set x"
                     [] pc[p] = "blank" -> "write blank"
<1>1. /\ pc[p] \in {"cell", "args", "blank"} /\ Go(p, next)
      /\ x' = Local(x, p, tty_xpos) /\ y' = Local(y, p, tty_ypos)
      /\ UNCHANGED <<globals, char, blanks, stray>>
  BY DEF CellArgs, CursorArgs, DeleteArgs
<1>2. next \in {"write cell", "set x", "write blank"} /\ next \in Steps
  BY <1>1 DEF Steps
<1> HIDE DEF next
<1>3. Moves(p, next, tty_xpos, tty_ypos)
  BY <1>1, <1>2, Moved DEF TypeCore
<1>4. TypeCore'
  BY <1>1, <1>3 DEF TypeCore, Moves, globals
<1>5. ASSUME Good(p) PROVE Good(p)'
  <2>1. OnScreen
    BY <1>1, <1>5 DEF Good, Exposed
  <2> QED
    BY <1>1, <1>2, <1>3, <1>5, <2>1 DEF Good, Exposed, Operands, Moves, OnScreen, globals
<1> QED
  BY <1>3, <1>4, <1>5 DEF Kept

LEMMA LoadXStep ==
  ASSUME TypeCore, pc \in [Printers -> Steps], NEW p \in Printers, LoadX(p)
  PROVE  Kept(p)
<1>1. /\ pc[p] = "write cell" /\ Go(p, "store x") /\ tty_putentryat(p)
      /\ x' = Local(x, p, tty_xpos) /\ y' = Local(y, p, 0)
      /\ UNCHANGED <<tty_xpos, tty_ypos, cursor, char, blanks>>
  BY DEF LoadX
<1>2. "store x" \in Steps /\ 0 \in Sizes
  BY Bounds DEF Steps
<1>3. Moves(p, "store x", tty_xpos, 0)
  BY <1>1, <1>2, Moved DEF TypeCore
<1>4. TypeCore'
  BY <1>1, <1>3, CellWritten DEF TypeCore, Moves
<1>5. ASSUME Good(p) PROVE Good(p)'
  <2>1. OnScreen /\ x[p] \in Columns /\ y[p] \in Rows /\ ~stray
    BY <1>1, <1>5 DEF Good, Exposed, Operands
  <2>2. ~stray'
    BY <1>1, <2>1, CellWritten
  <2> QED
    BY <1>1, <1>3, <2>1, <2>2 DEF Good, Exposed, Operands, Moves, OnScreen
<1> QED
  BY <1>3, <1>4, <1>5 DEF Kept

LEMMA StoreXStep ==
  ASSUME TypeCore, pc \in [Printers -> Steps], NEW p \in Printers, StoreX(p)
  PROVE  Kept(p)
<1>1. /\ pc[p] = "store x" /\ Go(p, "test x") /\ tty_xpos' = (x[p] + 1) % SizeMod
      /\ UNCHANGED <<tty_ypos, tty_buffer, cursor, locals, stray>>
  BY DEF StoreX
<1>2. "test x" \in Steps /\ x[p] \in Sizes /\ y[p] \in Sizes /\ x' = x /\ y' = y
  BY <1>1 DEF Steps, TypeCore, locals
<1>3. Moves(p, "test x", x[p], y[p])
  BY <1>1, <1>2, Moved
<1>4. TypeCore'
  <2>1. tty_xpos' \in Sizes
    <3>1. x[p] + 1 \in Int
      BY <1>2, SizesAreNat
    <3> QED
      BY <1>1, <3>1, Modulo
  <2> QED
    BY <1>1, <1>3, <2>1 DEF TypeCore, Moves, locals
<1>5. ASSUME Good(p) PROVE Good(p)'
  <2>1. OnScreen /\ x[p] \in Columns /\ ~stray
    BY <1>1, <1>5 DEF Good, Exposed, Operands
  <2>2. tty_xpos' = x[p] + 1 /\ (x[p] + 1 # SCREEN_WIDTH => x[p] + 1 \in Columns)
    BY <1>1, <2>1, Modulo, Bounds
  <2> QED
    BY <1>1, <1>3, <2>1, <2>2 DEF Good, Exposed, Operands, Edge, Moves, OnScreen
<1> QED
  BY <1>3, <1>4, <1>5 DEF Kept

LEMMA TestXStep ==
  ASSUME TypeCore, pc \in [Printers -> Steps], NEW p \in Printers, TestX(p)
  PROVE  Kept(p)
<1>1. /\ pc[p] = "test x" /\ UNCHANGED <<globals, y, char, blanks, stray>>
      /\ \/ tty_xpos = SCREEN_WIDTH /\ Go(p, "wrap") /\ x' = x
         \/ tty_xpos # SCREEN_WIDTH /\ Go(p, "args") /\ x' = Local(x, p, 0)
  BY DEF TestX
<1>2. /\ "wrap" \in Steps /\ "args" \in Steps
      /\ x[p] \in Sizes /\ y[p] \in Sizes /\ 0 \in Sizes
  BY Bounds DEF Steps, TypeCore
<1>3. \/ tty_xpos = SCREEN_WIDTH /\ Moves(p, "wrap", x[p], y[p])
      \/ tty_xpos # SCREEN_WIDTH /\ Moves(p, "args", 0, y[p])
  BY <1>1, <1>2, Moved
<1>4. TypeCore'
  BY <1>1, <1>3 DEF TypeCore, Moves, globals
<1>5. ASSUME Good(p) PROVE Good(p)'
  <2>1. /\ x[p] + 1 = SCREEN_WIDTH => tty_xpos = SCREEN_WIDTH /\ tty_ypos \in Rows
        /\ x[p] + 1 # SCREEN_WIDTH => OnScreen
        /\ ~stray
    BY <1>1, <1>5 DEF Good, Exposed, Operands, Edge
  <2>2. tty_xpos = SCREEN_WIDTH => ~OnScreen
    BY Bounds DEF OnScreen
  <2> QED
    BY <1>1, <1>3, <2>1, <2>2 DEF Good, Exposed, Operands, Edge, Moves, OnScreen, globals
<1> QED
  BY <1>3, <1>4, <1>5 DEF Kept

LEMMA WrapStep ==
  ASSUME TypeCore, pc \in [Printers -> Steps], NEW p \in Printers, Wrap(p)
  PROVE  Kept(p)
<1>1. /\ pc[p] = "wrap" /\ Go(p, "load y") /\ tty_xpos' = 0 /\ x' = Local(x, p, 0)
      /\ UNCHANGED <<tty_ypos, tty_buffer, cursor, y, char, blanks, stray>>
  BY DEF Wrap
<1>2. "load y" \in Steps /\ y[p] \in Sizes /\ 0 \in Sizes /\ 0 \in Columns
  BY Bounds DEF Steps, TypeCore
<1>3. Moves(p, "load y", 0, y[p])
  BY <1>1, <1>2, Moved
<1>4. TypeCore'
  BY <1>1, <1>2, <1>3 DEF TypeCore, Moves
<1>5. ASSUME Good(p) PROVE Good(p)'
  <2>1. tty_ypos \in Rows /\ ~stray
    BY <1>1, <1>5 DEF Good, Exposed, Operands, Edge
  <2> QED
    BY <1>1, <1>2, <1>3, <2>1 DEF Good, Exposed, Operands, Moves, OnScreen
<1> QED
  BY <1>3, <1>4, <1>5 DEF Kept

LEMMA LoadYStep ==
  ASSUME TypeCore, pc \in [Printers -> Steps], NEW p \in Printers, LoadY(p)
  PROVE  Kept(p)
<1>1. /\ pc[p] = "load y" /\ Go(p, "store y") /\ y' = Local(y, p, tty_ypos)
      /\ UNCHANGED <<globals, x, char, blanks, stray>>
  BY DEF LoadY
<1>2. "store y" \in Steps /\ x[p] \in Sizes
  BY DEF Steps, TypeCore
<1>3. Moves(p, "store y", x[p], tty_ypos)
  BY <1>1, <1>2, Moved DEF TypeCore
<1>4. TypeCore'
  BY <1>1, <1>3 DEF TypeCore, Moves, globals
<1>5. ASSUME Good(p) PROVE Good(p)'
  <2>1. OnScreen /\ ~stray
    BY <1>1, <1>5 DEF Good, Exposed
  <2> QED
    BY <1>1, <1>3, <2>1 DEF Good, Exposed, Operands, Moves, OnScreen, globals
<1> QED
  BY <1>3, <1>4, <1>5 DEF Kept

LEMMA StoreYStep ==
  ASSUME TypeCore, pc \in [Printers -> Steps], NEW p \in Printers, StoreY(p)
  PROVE  Kept(p)
<1>1. /\ pc[p] = "store y" /\ Go(p, "test y") /\ tty_ypos' = (y[p] + 1) % SizeMod
      /\ UNCHANGED <<tty_xpos, tty_buffer, cursor, locals, stray>>
  BY DEF StoreY
<1>2. "test y" \in Steps /\ x[p] \in Sizes /\ y[p] \in Sizes /\ x' = x /\ y' = y
  BY <1>1 DEF Steps, TypeCore, locals
<1>3. Moves(p, "test y", x[p], y[p])
  BY <1>1, <1>2, Moved
<1>4. TypeCore'
  <2>1. y[p] + 1 \in Int
    BY <1>2, SizesAreNat
  <2>2. tty_ypos' \in Sizes
    BY <1>1, <2>1, Modulo
  <2> QED
    BY <1>1, <1>3, <2>2 DEF TypeCore, Moves, locals
<1>5. ASSUME Good(p) PROVE Good(p)'
  <2>1. OnScreen /\ y[p] \in Rows /\ ~stray
    BY <1>1, <1>5 DEF Good, Exposed, Operands
  <2>2. tty_ypos' = y[p] + 1 /\ (y[p] + 1 # SCREEN_HEIGHT => y[p] + 1 \in Rows)
    BY <1>1, <2>1, Modulo, Bounds
  <2> QED
    BY <1>1, <1>3, <2>1, <2>2 DEF Good, Exposed, Operands, Edge, Moves, OnScreen
<1> QED
  BY <1>3, <1>4, <1>5 DEF Kept

LEMMA TestYStep ==
  ASSUME TypeCore, pc \in [Printers -> Steps], NEW p \in Printers, TestY(p)
  PROVE  Kept(p)
<1>1. /\ pc[p] = "test y" /\ UNCHANGED <<globals, x, char, blanks, stray>>
      /\ y' = Local(y, p, 0)
      /\ \/ tty_ypos = SCREEN_HEIGHT /\ Go(p, "scroll")
         \/ tty_ypos # SCREEN_HEIGHT /\ Go(p, "args")
  BY DEF TestY
<1>2. "scroll" \in Steps /\ "args" \in Steps /\ x[p] \in Sizes /\ 0 \in Sizes
  BY Bounds DEF Steps, TypeCore
<1>3. \/ tty_ypos = SCREEN_HEIGHT /\ Moves(p, "scroll", x[p], 0)
      \/ tty_ypos # SCREEN_HEIGHT /\ Moves(p, "args", x[p], 0)
  BY <1>1, <1>2, Moved
<1>4. TypeCore'
  BY <1>1, <1>3 DEF TypeCore, Moves, globals
<1>5. ASSUME Good(p) PROVE Good(p)'
  <2>1. /\ y[p] + 1 = SCREEN_HEIGHT => tty_xpos \in Columns /\ tty_ypos = SCREEN_HEIGHT
        /\ y[p] + 1 # SCREEN_HEIGHT => OnScreen
        /\ ~stray
    BY <1>1, <1>5 DEF Good, Exposed, Operands, Edge
  <2>2. tty_ypos = SCREEN_HEIGHT => ~OnScreen
    BY Bounds DEF OnScreen
  <2> QED
    BY <1>1, <1>3, <2>1, <2>2 DEF Good, Exposed, Operands, Edge, Moves, OnScreen, globals
<1> QED
  BY <1>3, <1>4, <1>5 DEF Kept

LEMMA ScrollStep ==
  ASSUME TypeCore, pc \in [Printers -> Steps], NEW p \in Printers, tty_scroll(p)
  PROVE  Kept(p)
<1>1. /\ pc[p] = "scroll" /\ Go(p, "load row") /\ tty_buffer' = Scrolled
      /\ UNCHANGED <<tty_xpos, tty_ypos, cursor, locals, stray>>
  BY DEF tty_scroll
<1>2. "load row" \in Steps /\ x[p] \in Sizes /\ y[p] \in Sizes /\ x' = x /\ y' = y
  BY <1>1 DEF Steps, TypeCore, locals
<1>3. Moves(p, "load row", x[p], y[p])
  BY <1>1, <1>2, Moved
<1>4. TypeCore'
  <2>1. \A r \in Rows : r # SCREEN_HEIGHT - 1 => r + 1 \in Rows
    BY TtyConstants DEF Rows
  <2>2. Scrolled \in [Rows -> [Columns -> Cells]]
    BY <2>1 DEF Scrolled, Cells, TypeCore
  <2> QED
    BY <1>1, <1>3, <2>2 DEF TypeCore, Moves, locals
<1>5. ASSUME Good(p) PROVE Good(p)'
  BY <1>1, <1>3, <1>5 DEF Good, Exposed, Operands, Edge, Moves
<1> QED
  BY <1>3, <1>4, <1>5 DEF Kept

LEMMA LoadRowStep ==
  ASSUME TypeCore, pc \in [Printers -> Steps], NEW p \in Printers, LoadRow(p)
  PROVE  Kept(p)
<1>1. /\ y' = Local(y, p, tty_ypos) /\ UNCHANGED <<globals, x, char, blanks, stray>>
      /\ \/ pc[p] = "load row" /\ Go(p, "store row")
         \/ pc[p] = "load row above" /\ Go(p, "store row above")
  BY DEF LoadRow
<1>2. "store row" \in Steps /\ "store row above" \in Steps /\ x[p] \in Sizes
  BY DEF Steps, TypeCore
<1>3. \/ pc[p] = "load row" /\ Moves(p, "store row", x[p], tty_ypos)
      \/ pc[p] = "load row above" /\ Moves(p, "store row above", x[p], tty_ypos)
  BY <1>1, <1>2, Moved DEF TypeCore
<1>4. TypeCore'
  BY <1>1, <1>3 DEF TypeCore, Moves, globals
<1>5. ASSUME Good(p) PROVE Good(p)'
  BY <1>1, <1>3, <1>5 DEF Good, Exposed, Operands, Edge, Moves, OnScreen, globals
<1> QED
  BY <1>3, <1>4, <1>5 DEF Kept

LEMMA StoreRowStep ==
  ASSUME TypeCore, pc \in [Printers -> Steps], NEW p \in Printers, StoreRow(p)
  PROVE  Kept(p)
<1>1. /\ tty_ypos' = (y[p] - 1) % SizeMod /\ y' = Local(y, p, 0)
      /\ UNCHANGED <<tty_xpos, tty_buffer, cursor, x, char, blanks, stray>>
      /\ \/ pc[p] = "store row" /\ Go(p, "args")
         \/ pc[p] = "store row above" /\ Go(p, "blank")
  BY DEF StoreRow
<1>2. /\ "args" \in Steps /\ "blank" \in Steps
      /\ x[p] \in Sizes /\ y[p] \in Sizes /\ 0 \in Sizes
  BY Bounds DEF Steps, TypeCore
<1>3. \/ pc[p] = "store row" /\ Moves(p, "args", x[p], 0)
      \/ pc[p] = "store row above" /\ Moves(p, "blank", x[p], 0)
  BY <1>1, <1>2, Moved
<1>4. TypeCore'
  <2>1. y[p] - 1 \in Int
    BY <1>2, SizesAreNat
  <2>2. tty_ypos' \in Sizes
    BY <1>1, <2>1, Modulo
  <2> QED
    BY <1>1, <1>3, <2>2 DEF TypeCore, Moves
<1>5. ASSUME Good(p) PROVE Good(p)'
  <2>1. y[p] - 1 \in Rows
    BY <1>1, <1>5, Bounds DEF Good, Exposed, Operands, Edge
  <2>2. tty_ypos' = y[p] - 1
    BY <1>1, <2>1, Modulo, Bounds
  <2>3. tty_xpos \in Columns /\ ~stray
    BY <1>1, <1>5 DEF Good, Exposed, Edge, OnScreen
  <2> QED
    BY <1>1, <1>3, <2>1, <2>2, <2>3 DEF Good, Exposed, Operands, Moves, OnScreen
<1> QED
  BY <1>3, <1>4, <1>5 DEF Kept

LEMMA SetXStep ==
  ASSUME TypeCore, pc \in [Printers -> Steps], NEW p \in Printers, SetX(p)
  PROVE  Kept(p)
<1>1. /\ pc[p] = "set x" /\ Go(p, "set y") /\ tty_xpos' = x[p]
      /\ UNCHANGED <<tty_ypos, tty_buffer, cursor, locals, stray>>
  BY DEF SetX
<1>2. "set y" \in Steps /\ x[p] \in Sizes /\ y[p] \in Sizes /\ x' = x /\ y' = y
  BY <1>1 DEF Steps, TypeCore, locals
<1>3. Moves(p, "set y", x[p], y[p])
  BY <1>1, <1>2, Moved
<1>4. TypeCore'
  BY <1>1, <1>2, <1>3 DEF TypeCore, Moves, locals
<1>5. ASSUME Good(p) PROVE Good(p)'
  BY <1>1, <1>3, <1>5 DEF Good, Exposed, Operands, Moves, OnScreen
<1> QED
  BY <1>3, <1>4, <1>5 DEF Kept

LEMMA SetYStep ==
  ASSUME TypeCore, pc \in [Printers -> Steps], NEW p \in Printers, SetY(p)
  PROVE  Kept(p)
<1> DEFINE left == IF blanks[p] > 0 THEN blanks[p] - 1 ELSE 0
           next == IF left > 0 THEN "cell" ELSE "idle"
<1>1. /\ pc[p] = "set y" /\ Go(p, next) /\ tty_ypos' = y[p]
      /\ cursor' = y[p] * SCREEN_WIDTH + x[p]
      /\ x' = Local(x, p, 0) /\ y' = Local(y, p, 0)
      /\ blanks' = [blanks EXCEPT ![p] = left] /\ char' = [char EXCEPT ![p] = " "]
      /\ UNCHANGED <<tty_xpos, tty_buffer, stray>>
  BY DEF SetY
<1>2. next \in {"cell", "idle"} /\ next \in Steps
  BY DEF Steps
<1>3. x[p] \in Sizes /\ y[p] \in Sizes /\ 0 \in Sizes /\ 0 \in Columns /\ 0 \in Rows
  BY Bounds DEF TypeCore
<1>4. left \in 0..TabStop
  <2>1. blanks[p] \in 0..TabStop
    BY DEF TypeCore
  <2> QED
    BY <2>1, TtyConstants
<1> HIDE DEF next, left
<1>5. Moves(p, next, 0, 0)
  BY <1>1, <1>2, <1>3, Moved
<1>6. TypeCore'
  <2>1. cursor' \in Nat
    <3>1. x[p] \in Nat /\ y[p] \in Nat /\ SCREEN_WIDTH \in Nat
      BY <1>3, SizesAreNat, TtyConstants
    <3>2. \A a, b, c \in Nat : a * b + c \in Nat
      OBVIOUS
    <3> QED
      BY <1>1, <3>1, <3>2
  <2>2. blanks' \in [Printers -> 0..TabStop]
    BY <1>1, <1>4 DEF TypeCore
  <2>3. char' \in [Printers -> Cells]
    BY <1>1 DEF TypeCore, Cells
  <2> QED
    BY <1>1, <1>3, <1>5, <2>1, <2>2, <2>3 DEF TypeCore, Moves
<1>7. ASSUME Good(p) PROVE Good(p)'
  <2>1. OnScreen /\ y[p] \in Rows /\ ~stray
    BY <1>1, <1>7 DEF Good, Exposed, Operands
  <2> QED
    BY <1>1, <1>2, <1>3, <1>5, <2>1 DEF Good, Exposed, Operands, Moves, OnScreen
<1> QED
  BY <1>5, <1>6, <1>7 DEF Kept

LEMMA DeleteStep ==
  ASSUME TypeCore, pc \in [Printers -> Steps], NEW p \in Printers,
         \/ DeleteLastColumn(p) \/ DeleteLoadColumn(p) \/ DeleteStoreColumn(p)
         \/ DeleteWrite(p)
  PROVE  Kept(p)
<1>0. /\ "load row above" \in Steps /\ "store column" \in Steps /\ "blank" \in Steps
      /\ "args" \in Steps /\ x[p] \in Sizes /\ y[p] \in Sizes /\ 0 \in Sizes
  BY Bounds DEF Steps, TypeCore
<1>1. CASE DeleteLastColumn(p)
  <2>1. /\ pc[p] = "last column" /\ Go(p, "load row above")
        /\ tty_xpos' = SCREEN_WIDTH - 1 /\ SCREEN_WIDTH - 1 \in Columns
        /\ SCREEN_WIDTH - 1 \in Sizes
        /\ UNCHANGED <<tty_ypos, tty_buffer, cursor, locals, stray>> /\ x' = x /\ y' = y
    BY <1>1, Bounds DEF DeleteLastColumn, locals
  <2>2. Moves(p, "load row above", x[p], y[p])
    BY <1>0, <2>1, Moved
  <2>3. TypeCore'
    BY <2>1, <2>2 DEF TypeCore, Moves, locals
  <2>4. ASSUME Good(p) PROVE Good(p)'
    BY <2>1, <2>2, <2>4 DEF Good, Exposed, Operands, Edge, Moves, OnScreen
  <2> QED
    BY <2>2, <2>3, <2>4 DEF Kept
<1>2. CASE DeleteLoadColumn(p)
  <2>1. /\ pc[p] = "load column" /\ Go(p, "store column") /\ x' = Local(x, p, tty_xpos)
        /\ UNCHANGED <<globals, y, char, blanks, stray>>
    BY <1>2 DEF DeleteLoadColumn
  <2>2. Moves(p, "store column", tty_xpos, y[p])
    BY <1>0, <2>1, Moved DEF TypeCore
  <2>3. TypeCore'
    BY <2>1, <2>2 DEF TypeCore, Moves, globals
  <2>4. ASSUME Good(p) PROVE Good(p)'
    BY <2>1, <2>2, <2>4 DEF Good, Exposed, Operands, Edge, Moves, OnScreen, globals
  <2> QED
    BY <2>2, <2>3, <2>4 DEF Kept
<1>3. CASE DeleteStoreColumn(p)
  <2>1. /\ pc[p] = "store column" /\ Go(p, "blank") /\ x' = Local(x, p, 0)
        /\ tty_xpos' = (x[p] - 1) % SizeMod
        /\ UNCHANGED <<tty_ypos, tty_buffer, cursor, y, char, blanks, stray>>
    BY <1>3 DEF DeleteStoreColumn
  <2>2. Moves(p, "blank", 0, y[p])
    BY <1>0, <2>1, Moved
  <2>3. TypeCore'
    <3>1. x[p] - 1 \in Int
      BY <1>0, SizesAreNat
    <3>2. tty_xpos' \in Sizes
      BY <2>1, <3>1, Modulo
    <3> QED
      BY <2>1, <2>2, <3>2 DEF TypeCore, Moves
  <2>4. ASSUME Good(p) PROVE Good(p)'
    <3>1. x[p] - 1 \in Columns /\ OnScreen /\ ~stray
      BY <2>1, <2>4, Bounds DEF Good, Exposed, Operands
    <3>2. tty_xpos' = x[p] - 1
      BY <2>1, <3>1, Modulo, Bounds
    <3> QED
      BY <2>1, <2>2, <3>1, <3>2 DEF Good, Exposed, Operands, Moves, OnScreen
  <2> QED
    BY <2>2, <2>3, <2>4 DEF Kept
<1>4. CASE DeleteWrite(p)
  <2>1. /\ pc[p] = "write blank" /\ Go(p, "args") /\ tty_putentryat(p)
        /\ x' = Local(x, p, 0) /\ y' = Local(y, p, 0)
        /\ UNCHANGED <<tty_xpos, tty_ypos, cursor, char, blanks>>
    BY <1>4 DEF DeleteWrite
  <2>2. Moves(p, "args", 0, 0)
    BY <1>0, <2>1, Moved
  <2>3. TypeCore'
    BY <2>1, <2>2, CellWritten DEF TypeCore, Moves
  <2>4. ASSUME Good(p) PROVE Good(p)'
    <3>1. OnScreen /\ x[p] \in Columns /\ y[p] \in Rows /\ ~stray
      BY <2>1, <2>4 DEF Good, Exposed, Operands
    <3>2. ~stray'
      BY <2>1, <3>1, CellWritten
    <3> QED
      BY <2>1, <2>2, <3>1, <3>2 DEF Good, Exposed, Operands, Moves, OnScreen
  <2> QED
    BY <2>2, <2>3, <2>4 DEF Kept
<1> QED
  BY <1>1, <1>2, <1>3, <1>4

\* The first step of a call, taken from idle, and tty_clear's second.
LEMMA EnterStep ==
  ASSUME TypeCore, pc \in [Printers -> Steps], NEW p \in Printers,
         \/ PutNewline(p) \/ PutTab(p) \/ (\E c \in Chars : PutChar(p, c))
         \/ Delete(p) \/ Clear(p) \/ ClearY(p)
  PROVE  Kept(p)
<1>0. /\ "idle" \in Steps /\ "load y" \in Steps /\ "cell" \in Steps /\ "clear y" \in Steps
      /\ "last column" \in Steps /\ "load column" \in Steps /\ "set x" \in Steps
      /\ x[p] \in Sizes /\ y[p] \in Sizes
  BY DEF Steps, TypeCore
<1>00. 0 \in Sizes /\ 0 \in Columns /\ 0 \in Rows
  BY Bounds
<1>1. CASE PutNewline(p)
  <2>1. /\ pc[p] = "idle" /\ Go(p, "load y") /\ tty_xpos' = 0 /\ x' = x /\ y' = y
        /\ UNCHANGED <<tty_ypos, tty_buffer, cursor, locals, stray>>
    BY <1>1 DEF PutNewline, Enter, locals
  <2>2. Moves(p, "load y", x[p], y[p])
    BY <1>0, <2>1, Moved
  <2>3. TypeCore'
    BY <1>00, <2>1, <2>2 DEF TypeCore, Moves, locals
  <2>4. ASSUME Good(p) PROVE Good(p)'
    BY <1>00, <2>1, <2>2, <2>4 DEF Good, Exposed, Operands, Moves, OnScreen
  <2> QED
    BY <2>2, <2>3, <2>4 DEF Kept
<1>2. CASE PutTab(p) \/ \E c \in Chars : PutChar(p, c)
  <2>1. /\ pc[p] = "idle" /\ Go(p, "cell") /\ x' = x /\ y' = y
        /\ UNCHANGED <<globals, stray>>
    BY <1>2 DEF PutTab, PutChar, Enter
  <2>2. Moves(p, "cell", x[p], y[p])
    BY <1>0, <2>1, Moved
  <2>3. blanks' \in [Printers -> 0..TabStop] /\ char' \in [Printers -> Cells]
    <3>1. CASE PutTab(p)
      <4>1. tty_xpos \in Nat
        BY SizesAreNat DEF TypeCore
      <4>2. TabStop - (tty_xpos % TabStop) \in 0..TabStop
        BY <4>1, TtyConstants
      <4> QED
        BY <3>1, <4>2 DEF PutTab, TypeCore
    <3>2. CASE \E c \in Chars : PutChar(p, c)
      <4>1. 1 \in 0..TabStop
        BY TtyConstants
      <4> QED
        BY <3>2, <4>1 DEF PutChar, TypeCore, Cells
    <3> QED
      BY <1>2, <3>1, <3>2
  <2>4. TypeCore'
    BY <2>1, <2>2, <2>3 DEF TypeCore, Moves, globals
  <2>5. ASSUME Good(p) PROVE Good(p)'
    BY <2>1, <2>2, <2>5 DEF Good, Exposed, Operands, Moves, OnScreen, globals
  <2> QED
    BY <2>2, <2>4, <2>5 DEF Kept
<1>3. CASE Delete(p)
  <2>1. /\ pc[p] = "idle" /\ x' = x /\ y' = y /\ UNCHANGED <<globals, locals, stray>>
        /\ \/ tty_xpos = 0 /\ tty_ypos = 0 /\ pc' = pc
           \/ tty_xpos = 0 /\ tty_ypos # 0 /\ Go(p, "last column")
           \/ tty_xpos # 0 /\ Go(p, "load column")
    BY <1>3 DEF Delete, Enter, locals
  <2>2. pc' = pc => Go(p, "idle")
    BY <2>1 DEF Go
  <2>3. \/ Moves(p, "idle", x[p], y[p])
        \/ tty_ypos # 0 /\ Moves(p, "last column", x[p], y[p])
        \/ tty_xpos # 0 /\ Moves(p, "load column", x[p], y[p])
    BY <1>0, <2>1, <2>2, Moved
  <2>4. TypeCore'
    BY <2>1, <2>3 DEF TypeCore, Moves, locals, globals
  <2>5. ASSUME Good(p) PROVE Good(p)'
    BY <2>1, <2>3, <2>5 DEF Good, Exposed, Operands, Edge, Moves, OnScreen, globals
  <2> QED
    BY <2>3, <2>4, <2>5 DEF Kept
<1>4. CASE Clear(p)
  <2>1. /\ pc[p] = "idle" /\ Go(p, "clear y") /\ tty_xpos' = 0 /\ x' = x /\ y' = y
        /\ tty_buffer' = Blank /\ UNCHANGED <<tty_ypos, cursor, locals, stray>>
    BY <1>4 DEF Clear, Enter, locals
  <2>2. Moves(p, "clear y", x[p], y[p])
    BY <1>0, <2>1, Moved
  <2>3. Blank \in [Rows -> [Columns -> Cells]]
    BY DEF Blank, Cells
  <2>4. TypeCore'
    BY <1>00, <2>1, <2>2, <2>3 DEF TypeCore, Moves, locals
  <2>5. ASSUME Good(p) PROVE Good(p)'
    BY <1>00, <2>1, <2>2, <2>5 DEF Good, Exposed, Operands, Moves, OnScreen
  <2> QED
    BY <2>2, <2>4, <2>5 DEF Kept
<1>5. CASE ClearY(p)
  <2>1. /\ pc[p] = "clear y" /\ Go(p, "set x") /\ tty_ypos' = 0 /\ x' = x /\ y' = y
        /\ UNCHANGED <<tty_xpos, tty_buffer, cursor, locals, stray>>
    BY <1>5 DEF ClearY, locals
  <2>2. Moves(p, "set x", x[p], y[p])
    BY <1>0, <2>1, Moved
  <2>3. TypeCore'
    BY <1>00, <2>1, <2>2 DEF TypeCore, Moves, locals
  <2>4. ASSUME Good(p) PROVE Good(p)'
    BY <1>00, <2>1, <2>2, <2>4 DEF Good, Exposed, Operands, Moves, OnScreen
  <2> QED
    BY <2>2, <2>3, <2>4 DEF Kept
<1> QED
  BY <1>1, <1>2, <1>3, <1>4, <1>5

LEMMA CallStep ==
  ASSUME TypeCore, pc \in [Printers -> Steps], NEW p \in Printers,
         tty_putc(p) \/ tty_deleteprev(p) \/ tty_clear(p)
  PROVE  Kept(p)
BY CellStep, LoadXStep, StoreXStep, TestXStep, WrapStep, LoadYStep, StoreYStep, TestYStep,
   ScrollStep, LoadRowStep, StoreRowStep, SetXStep, SetYStep, DeleteStep, EnterStep
DEF tty_putc, tty_deleteprev, tty_clear

-----------------------------------------------------------------------------
(* All tasks *)

\* A task that acts while another is Exposed catches it; otherwise the others
\* are as they were.
LEMMA StepSafe ==
  ASSUME IInv, NEW p \in Printers, Note(Printers \ {p}), Kept(p)
  PROVE  Safe'
<1> SUFFICES ASSUME ~caught'
             PROVE  /\ ~stray'
                    /\ \A q \in Printers : Operands(q)'
                    /\ \A q \in Printers : Exposed(q)' =>
                         Edge(q)' /\ \A r \in Printers : Exposed(r)' => r = q
                    /\ (\A q \in Printers : ~Exposed(q)') => OnScreen'
  BY DEF Safe
<1>1. ~caught /\ \A q \in Printers \ {p} : ~Exposed(q)
  BY DEF Note
<1>2. Good(p)
  BY <1>1 DEF IInv, Safe, Good
<1>3. Good(p)'
  BY <1>2 DEF Kept
<1>4. \A q \in Printers \ {p} : pc'[q] = pc[q] /\ x'[q] = x[q] /\ y'[q] = y[q]
  BY DEF Kept, Moves
<1>5. \A q \in Printers \ {p} : ~Exposed(q)' /\ Operands(q)'
  <2> TAKE q \in Printers \ {p}
  <2>1. ~Exposed(q) /\ Operands(q) /\ pc'[q] = pc[q] /\ x'[q] = x[q] /\ y'[q] = y[q]
    BY <1>1, <1>4 DEF IInv, Safe
  <2> QED
    BY <2>1 DEF Exposed, Operands
<1> QED
  BY <1>3, <1>5 DEF Good

LEMMA KeyPressSafe ==
  ASSUME IInv, Note(Printers), isr_key_press
  PROVE  TypeCore' /\ Safe'
<1>1. /\ tty_buffer' = Blank /\ tty_xpos' = 0 /\ tty_ypos' = 0 /\ cursor' = 0
      /\ pc' = pc /\ x' = x /\ y' = y /\ char' = char /\ blanks' = blanks /\ stray' = stray
  BY DEF isr_key_press, locals
<1>2. TypeCore'
  <2>1. Blank \in [Rows -> [Columns -> Cells]]
    BY DEF Blank, Cells
  <2>2. 0 \in Sizes
    BY Bounds
  <2> QED
    BY <1>1, <2>1, <2>2 DEF IInv, TypeOK, TypeCore
<1>3. ASSUME ~caught' PROVE ~stray' /\ \A p \in Printers : Operands(p)' /\ ~Exposed(p)'
  <2>1. ~caught /\ \A p \in Printers : ~Exposed(p)
    BY <1>3 DEF Note
  <2>2. ~stray /\ \A p \in Printers : Operands(p)
    BY <2>1 DEF IInv, Safe
  <2> QED
    BY <1>1, <2>1, <2>2 DEF Operands, Exposed
<1>4. OnScreen'
  BY <1>1, Bounds DEF OnScreen
<1> QED
  BY <1>2, <1>3, <1>4 DEF Safe

LEMMA NextIInv == IInv /\ [Next]_vars => IInv'
<1>1. ASSUME IInv, Next PROVE IInv'
  <2>1. TypeCore /\ TypeOK /\ pc \in [Printers -> Steps]
    BY <1>1 DEF IInv, TypeOK, TypeCore
  <2>3. met' \in BOOLEAN /\ caught' \in BOOLEAN
    BY <1>1 DEF Next, Note
  <2>4. TypeCore' /\ pc' \in [Printers -> Steps] /\ Safe'
    <3>1. ASSUME NEW p \in Printers, Note(Printers \ {p}),
                 tty_putc(p) \/ tty_deleteprev(p) \/ tty_clear(p)
          PROVE  TypeCore' /\ pc' \in [Printers -> Steps] /\ Safe'
      <4>1. Kept(p)
        BY <2>1, <3>1, CallStep
      <4> QED
        BY <1>1, <3>1, <4>1, StepSafe DEF Kept, Moves
    <3>2. CASE Note(Printers) /\ isr_key_press
      BY <1>1, <2>1, <3>2, KeyPressSafe DEF isr_key_press
    <3> QED
      BY <1>1, <3>1, <3>2 DEF Next
  <2> QED
    BY <2>3, <2>4 DEF IInv, TypeOK, TypeCore
<1>2. ASSUME IInv, UNCHANGED vars PROVE IInv'
  BY <1>2 DEF IInv, TypeOK, Safe, Operands, Exposed, Edge, OnScreen, vars, globals, locals, notes
<1> QED
  BY <1>1, <1>2

-----------------------------------------------------------------------------
(* The theorems *)

\* The inductive invariant holds in every reachable state.
THEOREM Invariant == Spec => []IInv
BY InitIInv, NextIInv, PTL DEF Spec

\* The cursor, the cells and the operands of every task keep their types.
THEOREM TypeCorrect == Spec => []TypeOK
<1>1. IInv => TypeOK
  BY DEF IInv
<1> QED
  BY <1>1, Invariant, PTL

\* However many tasks print, however often, and wherever they are preempted,
\* tty_putentryat and the cursor stay on the screen unless somebody acts in the middle of one of
\* the steps at its edge.
THEOREM Cursor == Spec => []CursorOnScreen
<1>1. IInv => CursorOnScreen
  BY DEF IInv, Safe, CursorOnScreen, OnScreen
<1> QED
  BY <1>1, Invariant, PTL

-----------------------------------------------------------------------------
(* What the screen shows while calls do not overlap *)

\* The screen's rows up to row cy are the paper's last ones but k, blank below.
Lined(rows, k, cy, B) ==
  /\ cy + k < Len(rows)
  /\ \A r \in Rows : B[r] = Padded(IF r > cy THEN <<>> ELSE rows[Len(rows) - k - cy + r])

\* Screen B with the cursor at (cx, cy) shows the paper; it will when the cursor
\* has gone to the next row; it will when what is under the cursor is erased; it
\* will when the cursor has gone on from (cx, cy).
Shows(rows, cx, cy, B) ==
  cx \in Columns /\ cy \in Rows /\ cx = Len(Last(rows)) /\ Lined(rows, 0, cy, B)
Turns(rows, cy, B) == cy \in Rows /\ Last(rows) = <<>> /\ Lined(rows, 1, cy, B)
Cell(B, cx, cy, c) == [B EXCEPT ![cy][cx] = c]
Erases(rows, cx, cy, B) == Shows(rows, cx, cy, Cell(B, cx, cy, " "))
Passes(rows, cx, cy, B) ==
  IF cx + 1 < SCREEN_WIDTH THEN Shows(rows, cx + 1, cy, B) ELSE Turns(rows, cy, B)

\* What is left to do for a call that is alone, at its step, with the cursor at
\* (cx, cy), screen B, operands vx and vy and character c.
ToDo(step, rows, cx, cy, B, vx, vy, c) ==
  /\ step \in {"idle", "cell", "args"} => Shows(rows, cx, cy, B)
  /\ step = "write cell" => vx = cx /\ vy = cy /\ cx \in Columns /\ cy \in Rows
                            /\ Passes(rows, cx, cy, Cell(B, cx, cy, c))
  /\ step = "store x" => vx = cx /\ cx \in Columns /\ cy \in Rows /\ Passes(rows, cx, cy, B)
  /\ step = "test x" => cx = vx + 1 /\ vx \in Columns /\ cy \in Rows /\ Passes(rows, vx, cy, B)
  /\ step = "wrap" => Turns(rows, cy, B)
  /\ step \in {"load y", "store y"} => cx = 0 /\ Turns(rows, cy, B)
  /\ step \in {"store y", "store row", "store row above"} => vy = cy
  /\ step = "test y" => cx = 0 /\ cy = vy + 1 /\ Turns(rows, vy, B)
  /\ step = "scroll" => cx = 0 /\ cy = SCREEN_HEIGHT /\ Turns(rows, cy - 1, B)
  /\ step \in {"load row", "store row"} => cx = 0 /\ cy = SCREEN_HEIGHT /\ Shows(rows, cx, cy - 1, B)
  /\ step \in {"set x", "set y"} => Shows(rows, vx, vy, B)
  /\ step = "set y" => cx = vx
  /\ step = "clear y" => cx = 0 /\ vx = 0 /\ vy = 0 /\ Shows(rows, 0, 0, B)
  /\ step = "last column" => cx = 0 /\ Erases(rows, SCREEN_WIDTH - 1, cy - 1, B)
  /\ step \in {"load row above", "store row above"} =>
       cx = SCREEN_WIDTH - 1 /\ Erases(rows, cx, cy - 1, B)
  /\ step \in {"last column", "load row above", "store row above"} => cy \in Rows \ {0}
  /\ step \in {"load column", "store column"} =>
       cx \in Columns \ {0} /\ cy \in Rows /\ Erases(rows, cx - 1, cy, B)
  /\ step = "store column" => vx = cx
  /\ step \in {"blank", "write blank"} => cx \in Columns /\ cy \in Rows /\ Erases(rows, cx, cy, B)
  /\ step = "write blank" => vx = cx /\ vy = cy
  /\ step \in {"idle", "last column", "load row above", "store row above", "load column",
               "store column", "blank", "write blank"} => c = " "
  /\ step = "idle" => vx = 0 /\ vy = 0

Sheet(rows) ==
  /\ rows \in Seq(Seq(Cells)) /\ Len(rows) > 0
  /\ \A i \in 1..Len(rows) : Len(rows[i]) <= SCREEN_WIDTH

\* Nobody is inside a call.
Settled ==
  /\ Sheet(paper) /\ Shows(paper, tty_xpos, tty_ypos, tty_buffer)
  /\ cursor = tty_ypos * SCREEN_WIDTH + tty_xpos

\* Seen from a task that acts while no other one is inside a call.
Alone(p) ==
  /\ Sheet(paper)
  /\ ToDo(pc[p], paper, tty_xpos, tty_ypos, tty_buffer, x[p], y[p], char[p])
  /\ pc[p] = "idle" => Settled

\* An idle task has nothing left over from its last call.
Rest(p) == pc[p] = "idle" => x[p] = 0 /\ y[p] = 0 /\ char[p] = " "

Shown ==
  ~met =>
    /\ \A p, q \in Printers : pc[p] # "idle" /\ pc[q] # "idle" => p = q
    /\ \A p \in Printers : Rest(p)
    /\ \A p \in Printers : (\A q \in Printers \ {p} : pc[q] = "idle") => Alone(p)
    /\ (\A p \in Printers : pc[p] = "idle") => Settled

LEMMA FrontIs ==
  ASSUME NEW S, NEW s \in Seq(S), s # <<>>
  PROVE  /\ Front(s) \in Seq(S) /\ Len(Front(s)) = Len(s) - 1
         /\ \A i \in 1..Len(s) - 1 : Front(s)[i] = s[i]
<1>1. Len(s) \in Nat /\ Len(s) > 0
  OBVIOUS
<1>2. PICK k \in 0..Len(s) : k = Len(s) - 1
  <2>1. Len(s) - 1 \in 0..Len(s)
    BY <1>1
  <2> QED
    BY <2>1
<1>3. /\ SubSeq(s, 1, k) \in Seq(S) /\ Len(SubSeq(s, 1, k)) = k
      /\ \A i \in 1..k : SubSeq(s, 1, k)[i] = s[i]
  BY <1>1, <1>2
<1> QED
  BY <1>2, <1>3 DEF Front

\* The last row of the paper is replaced.
Ending(s, e) == Append(Front(s), e)

LEMMA PaddedAppend ==
  ASSUME NEW row \in Seq(Cells), Len(row) < SCREEN_WIDTH, NEW c \in Cells
  PROVE  \A k \in Columns : Padded(Append(row, c))[k] = IF k = Len(row) THEN c ELSE Padded(row)[k]
<1>1. SCREEN_WIDTH \in Nat /\ Len(row) \in Nat
  BY TtyConstants
<1> PICK t : t = Append(row, c)
  OBVIOUS
<1>2. Len(t) = Len(row) + 1 /\ t[Len(row) + 1] = c /\ \A i \in 1..Len(row) : t[i] = row[i]
  OBVIOUS
<1>3. \A k \in Columns : Padded(t)[k] = IF k = Len(row) THEN c ELSE Padded(row)[k]
  <2> TAKE k \in Columns
  <2>1. k < Len(row) \/ k = Len(row) \/ (k > Len(row) /\ ~(k < Len(t)) /\ ~(k < Len(row)))
    BY <1>1, <1>2 DEF Columns
  <2>2. k < Len(row) => k < Len(t) /\ k + 1 \in 1..Len(row) /\ k # Len(row)
    BY <1>1, <1>2 DEF Columns
  <2>3. k = Len(row) => k < Len(t) /\ k + 1 = Len(row) + 1
    BY <1>1, <1>2
  <2>4. k > Len(row) => k # Len(row)
    BY <1>1
  <2>5. /\ Padded(t)[k] = IF k < Len(t) THEN t[k + 1] ELSE " "
        /\ Padded(row)[k] = IF k < Len(row) THEN row[k + 1] ELSE " "
    BY DEF Padded
  <2> QED
    BY <1>2, <2>1, <2>2, <2>3, <2>4, <2>5
<1> QED
  BY <1>3

LEMMA PaddedFront ==
  ASSUME NEW row \in Seq(Cells), 0 < Len(row), Len(row) <= SCREEN_WIDTH
  PROVE  \A k \in Columns : Padded(Front(row))[k] = IF k = Len(row) - 1 THEN " " ELSE Padded(row)[k]
<1>1. SCREEN_WIDTH \in Nat /\ Len(row) \in Nat
  BY TtyConstants
<1> PICK t : t = Front(row)
  OBVIOUS
<1>2. Len(t) = Len(row) - 1 /\ \A i \in 1..Len(row) - 1 : t[i] = row[i]
  BY FrontIs
<1>3. \A k \in Columns : Padded(t)[k] = IF k = Len(row) - 1 THEN " " ELSE Padded(row)[k]
  <2> TAKE k \in Columns
  <2>1. k < Len(row) - 1 => k < Len(t) /\ k < Len(row) /\ k + 1 \in 1..Len(row) - 1 /\ k # Len(row) - 1
    BY <1>1, <1>2 DEF Columns
  <2>2. ~(k < Len(row) - 1) => ~(k < Len(t)) /\ (k # Len(row) - 1 => ~(k < Len(row)))
    BY <1>1, <1>2 DEF Columns
  <2>3. /\ Padded(t)[k] = IF k < Len(t) THEN t[k + 1] ELSE " "
        /\ Padded(row)[k] = IF k < Len(row) THEN row[k + 1] ELSE " "
    BY DEF Padded
  <2> QED
    BY <1>2, <2>1, <2>2, <2>3
<1> QED
  BY <1>3

LEMMA PaddedTrimmed ==
  ASSUME NEW row \in Seq(Cells), NEW v, v = [k \in 1..SCREEN_WIDTH - 1 |-> Padded(row)[k - 1]]
  PROVE  /\ v \in Seq(Cells) /\ Len(v) = SCREEN_WIDTH - 1
         /\ \A k \in Columns : Padded(v)[k] = IF k = SCREEN_WIDTH - 1 THEN " " ELSE Padded(row)[k]
<1>1. SCREEN_WIDTH - 1 \in Nat
  BY TtyConstants
<1>2. \A k \in Columns : Padded(row)[k] \in Cells
  <2> TAKE k \in Columns
  <2>1. k \in Nat /\ Len(row) \in Nat
    BY <1>1 DEF Columns
  <2>2. k < Len(row) => k + 1 \in 1..Len(row)
    BY <2>1
  <2>3. k < Len(row) => row[k + 1] \in Cells
    BY <2>2
  <2> QED
    BY <2>3 DEF Padded, Cells
<1>3. \A k \in 1..SCREEN_WIDTH - 1 : k - 1 \in Columns
  BY <1>1 DEF Columns
<1>4. v \in [1..SCREEN_WIDTH - 1 -> Cells]
  BY <1>2, <1>3
<1>5. v \in Seq(Cells) /\ Len(v) = SCREEN_WIDTH - 1
  <2>1. PICK m \in Nat : m = SCREEN_WIDTH - 1
    BY <1>1
  <2>2. \A g \in [1..m -> Cells] : g \in Seq(Cells) /\ Len(g) = m
    BY <2>1
  <2> QED
    BY <1>4, <2>1, <2>2, Zenon
<1>6. \A k \in Columns : Padded(v)[k] = IF k = SCREEN_WIDTH - 1 THEN " " ELSE Padded(row)[k]
  <2> TAKE k \in Columns
  <2>1. k < SCREEN_WIDTH - 1 => k + 1 \in 1..SCREEN_WIDTH - 1 /\ k + 1 - 1 = k
    BY <1>1 DEF Columns
  <2>2. k < SCREEN_WIDTH - 1 => v[k + 1] = Padded(row)[k]
    <3>1. \A j \in 1..SCREEN_WIDTH - 1 : v[j] = Padded(row)[j - 1]
      OBVIOUS
    <3>2. PICK j : j = k + 1
      OBVIOUS
    <3>3. k < SCREEN_WIDTH - 1 => j \in 1..SCREEN_WIDTH - 1 /\ j - 1 = k
      BY <1>1, <3>2 DEF Columns
    <3>4. k < SCREEN_WIDTH - 1 => v[j] = Padded(row)[k]
      BY <3>1, <3>3
    <3> QED
      BY <3>2, <3>4
  <2>3. k < SCREEN_WIDTH - 1 \/ k = SCREEN_WIDTH - 1
    BY <1>1 DEF Columns
  <2>4. ~(SCREEN_WIDTH - 1 < SCREEN_WIDTH - 1)
    BY <1>1
  <2>5. Padded(v)[k] = IF k < Len(v) THEN v[k + 1] ELSE " "
    BY DEF Padded
  <2> QED
    BY <1>5, <2>2, <2>3, <2>4, <2>5
<1> QED
  BY <1>5, <1>6

LEMMA PaddedNothing == \A nil : nil = <<>> => Padded(nil) = [k \in Columns |-> " "]
<1> TAKE nil
<1> HAVE nil = <<>>
<1>1. Len(nil) = 0
  OBVIOUS
<1>2. \A k \in Columns : ~(k < Len(nil))
  BY <1>1, TtyConstants DEF Columns
<1> QED
  BY <1>2 DEF Padded

-----------------------------------------------------------------------------
(* The paper and the screen *)

Screens == [Rows -> [Columns -> Cells]]

LEMMA Numbers ==
  /\ SCREEN_WIDTH \in Nat /\ SCREEN_HEIGHT \in Nat /\ SCREEN_WIDTH > 1 /\ SCREEN_HEIGHT > 1
  /\ \A v \in Columns : v \in Nat /\ v < SCREEN_WIDTH
  /\ \A v \in Rows : v \in Nat /\ v < SCREEN_HEIGHT
BY TtyConstants DEF Columns, Rows

\* The screen that tty_clear leaves.
LEMMA BlankShows ==
  ASSUME NEW rows, rows = << <<>> >>
  PROVE  Sheet(rows) /\ Shows(rows, 0, 0, Blank)
<1>1. PICK nil : nil = <<>>
  OBVIOUS
<1>2. nil \in Seq(Cells) /\ Len(nil) = 0 /\ rows = <<nil>>
  BY <1>1
<1>3. rows \in Seq(Seq(Cells)) /\ Len(rows) = 1 /\ rows[1] = nil
  <2> PICK S : S = Seq(Cells)
    OBVIOUS
  <2>1. rows \in Seq(S)
    BY <1>2
  <2> QED
    BY <1>2, <2>1
<1>4. Sheet(rows)
  <2>1. \A i \in 1..Len(rows) : i = 1
    BY <1>3
  <2> QED
    BY <1>2, <1>3, <2>1, Numbers DEF Sheet
<1>5. \A r \in Rows : Blank[r] = Padded(IF r > 0 THEN <<>> ELSE rows[Len(rows) - 0 - 0 + r])
  <2> TAKE r \in Rows
  <2>1. r > 0 \/ (~(r > 0) /\ Len(rows) - 0 - 0 + r = 1)
    BY <1>3, Numbers
  <2>2. (IF r > 0 THEN <<>> ELSE rows[Len(rows) - 0 - 0 + r]) = nil
    BY <1>1, <1>3, <2>1
  <2>3. Padded(nil) = [k \in Columns |-> " "]
    BY <1>1, PaddedNothing
  <2> QED
    BY <2>2, <2>3 DEF Blank
<1>6. 0 \in Columns /\ 0 \in Rows /\ 0 + 0 < Len(rows) /\ Last(rows) = nil
  BY <1>3, Bounds DEF Last
<1> QED
  BY <1>2, <1>4, <1>5, <1>6 DEF Shows, Lined

\* A new row begins below what is shown.
LEMMA NewRowTurns ==
  ASSUME NEW rows, Sheet(rows), NEW cy \in Rows, NEW B, Lined(rows, 0, cy, B)
  PROVE  Sheet(NewRow(rows)) /\ Turns(NewRow(rows), cy, B)
<1>1. PICK S : S = Seq(Cells)
  OBVIOUS
<1>2. PICK nil : nil = <<>>
  OBVIOUS
<1>3. nil \in S /\ Len(nil) = 0
  BY <1>1, <1>2
<1>4. PICK t : t = NewRow(rows)
  OBVIOUS
<1>5. rows \in Seq(S) /\ t = Append(rows, nil)
  BY <1>1, <1>2, <1>4 DEF Sheet, NewRow
<1>6. PICK n \in Nat : n = Len(rows)
  BY <1>5
<1>7. t \in Seq(S) /\ Len(t) = n + 1 /\ t[n + 1] = nil /\ \A i \in 1..n : t[i] = rows[i]
  BY <1>3, <1>5, <1>6
<1>8. Sheet(t)
  <2>1. \A i \in 1..n + 1 : i \in 1..n \/ i = n + 1
    BY <1>6
  <2>2. n + 1 > 0 /\ 0 <= SCREEN_WIDTH
    BY <1>6, Numbers
  <2> QED
    BY <1>1, <1>3, <1>6, <1>7, <2>1, <2>2 DEF Sheet
<1>9. cy \in Nat /\ cy < n
  <2>1. cy + 0 < n
    BY <1>6 DEF Lined
  <2> QED
    BY <2>1, Numbers
<1>10. \A r \in Rows : B[r] = Padded(IF r > cy THEN <<>> ELSE t[Len(t) - 1 - cy + r])
  <2> TAKE r \in Rows
  <2>1. B[r] = Padded(IF r > cy THEN <<>> ELSE rows[n - 0 - cy + r])
    BY <1>6 DEF Lined
  <2>2. ~(r > cy) => n - 0 - cy + r \in 1..n /\ Len(t) - 1 - cy + r = n - 0 - cy + r
    BY <1>6, <1>7, <1>9, Numbers
  <2> QED
    BY <1>7, <2>1, <2>2
<1>11. cy + 1 < Len(t) /\ Last(t) = <<>>
  BY <1>2, <1>7, <1>9, <1>6 DEF Last
<1> QED
  BY <1>4, <1>8, <1>10, <1>11 DEF Turns, Lined

\* The cursor goes to the next row.
LEMMA TurnsShows ==
  ASSUME NEW rows, NEW cy, NEW B, Turns(rows, cy, B), Sheet(rows), cy + 1 # SCREEN_HEIGHT
  PROVE  Shows(rows, 0, cy + 1, B)
<1>1. PICK S : S = Seq(Cells)
  OBVIOUS
<1>2. rows \in Seq(S)
  BY <1>1 DEF Sheet
<1>3. PICK n \in Nat : n = Len(rows)
  BY <1>2
<1>4. /\ cy \in Rows /\ rows[n] = <<>> /\ cy + 1 < n
      /\ \A r \in Rows : B[r] = Padded(IF r > cy THEN <<>> ELSE rows[n - 1 - cy + r])
  BY <1>3 DEF Turns, Lined, Last
<1>5. cy \in Nat
  BY <1>4, Numbers
<1>6. \A r \in Rows : B[r] = Padded(IF r > cy + 1 THEN <<>> ELSE rows[n - 0 - (cy + 1) + r])
  <2> TAKE r \in Rows
  <2>1. \/ r > cy + 1 /\ r > cy
        \/ ~(r > cy + 1) /\ r > cy /\ n - 0 - (cy + 1) + r = n
        \/ ~(r > cy + 1) /\ ~(r > cy) /\ n - 0 - (cy + 1) + r = n - 1 - cy + r
    BY <1>3, <1>5, Numbers
  <2> QED
    BY <1>4, <2>1
<1>7. cy + 1 \in Rows /\ 0 \in Columns /\ (cy + 1) + 0 < n
  BY <1>3, <1>4, <1>5, Bounds
<1>8. Len(Last(rows)) = 0
  BY <1>3, <1>4 DEF Last
<1> QED
  BY <1>3, <1>6, <1>7, <1>8 DEF Shows, Lined

\* The cursor is on the last row: the screen goes up instead.
LEMMA TurnsScrolls ==
  ASSUME NEW rows, Sheet(rows), Turns(rows, SCREEN_HEIGHT - 1, tty_buffer)
  PROVE  Shows(rows, 0, SCREEN_HEIGHT - 1, Scrolled)
<1>1. PICK S : S = Seq(Cells)
  OBVIOUS
<1>2. rows \in Seq(S)
  BY <1>1 DEF Sheet
<1>3. PICK n \in Nat : n = Len(rows)
  BY <1>2
<1>4. PICK cy : cy = SCREEN_HEIGHT - 1
  OBVIOUS
<1>5. /\ cy \in Rows /\ rows[n] = <<>> /\ cy + 1 < n
      /\ \A r \in Rows : tty_buffer[r] = Padded(IF r > cy THEN <<>> ELSE rows[n - 1 - cy + r])
  BY <1>3, <1>4 DEF Turns, Lined, Last
<1>6. cy \in Nat /\ cy + 1 = SCREEN_HEIGHT
  BY <1>4, <1>5, Numbers
<1>7. \A r \in Rows : Scrolled[r] = Padded(IF r > cy THEN <<>> ELSE rows[n - 0 - cy + r])
  <2> TAKE r \in Rows
  <2>1. CASE r = cy
    <3>1. Scrolled[r] = [k \in Columns |-> " "]
      BY <1>4, <2>1 DEF Scrolled
    <3>2. n - 0 - cy + r = n /\ ~(r > cy)
      BY <1>3, <1>6, <2>1
    <3>3. Padded(rows[n]) = [k \in Columns |-> " "]
      BY <1>5, PaddedNothing
    <3> QED
      BY <3>1, <3>2, <3>3
  <2>2. CASE r # cy
    <3>1. ~(r > cy) /\ ~(r + 1 > cy) /\ r + 1 \in Rows /\ n - 1 - cy + (r + 1) = n - 0 - cy + r
      BY <1>3, <1>6, <2>2, Numbers, Bounds
    <3>2. Scrolled[r] = tty_buffer[r + 1]
      BY <1>4, <2>2 DEF Scrolled
    <3> QED
      BY <1>5, <3>1, <3>2
  <2> QED
    BY <2>1, <2>2
<1>8. 0 \in Columns /\ cy + 0 < n
  BY <1>3, <1>5, <1>6, Bounds
<1>9. Len(Last(rows)) = 0
  BY <1>3, <1>5 DEF Last
<1> QED
  BY <1>3, <1>4, <1>5, <1>7, <1>8, <1>9 DEF Shows, Lined

\* The last row of the paper becomes row, and the cell where they differ is set.
LEMMA LastRowShows ==
  ASSUME NEW rows, Sheet(rows), NEW cy \in Rows, NEW B \in Screens, Lined(rows, 0, cy, B),
         NEW row \in Seq(Cells), Len(row) <= SCREEN_WIDTH, NEW cx \in Columns, NEW c \in Cells,
         \A k \in Columns : Padded(row)[k] = IF k = cx THEN c ELSE Padded(Last(rows))[k],
         NEW u, u = Ending(rows, row)
  PROVE  Sheet(u) /\ Last(u) = row /\ Lined(u, 0, cy, Cell(B, cx, cy, c))
<1>1. PICK S : S = Seq(Cells)
  OBVIOUS
<1>2. rows \in Seq(S) /\ row \in S /\ Len(rows) > 0 /\ rows # <<>>
  BY <1>1 DEF Sheet
<1>3. PICK n \in Nat : n = Len(rows)
  BY <1>2
<1>4. /\ u \in Seq(S) /\ Len(u) = n /\ u[n] = row /\ Last(u) = row
      /\ \A i \in 1..n - 1 : u[i] = rows[i]
  <2>1. PICK f : f = Front(rows)
    OBVIOUS
  <2>2. f \in Seq(S) /\ Len(f) = n - 1 /\ \A i \in 1..n - 1 : f[i] = rows[i]
    BY <1>2, <1>3, <2>1, FrontIs
  <2>3. u = Append(f, row)
    BY <2>1 DEF Ending
  <2>4. u \in Seq(S) /\ Len(u) = n /\ u[n] = row /\ \A i \in 1..n - 1 : u[i] = f[i]
    BY <1>2, <1>3, <2>2, <2>3
  <2> QED
    BY <2>2, <2>4 DEF Last
<1>5. Sheet(u)
  <2>1. \A i \in 1..n : i \in 1..n - 1 \/ i = n
    BY <1>3
  <2>2. \A i \in 1..n : Len(rows[i]) <= SCREEN_WIDTH
    BY <1>3 DEF Sheet
  <2> QED
    BY <1>1, <1>2, <1>3, <1>4, <2>1, <2>2 DEF Sheet
<1>6. cy \in Nat /\ cy < n
  <2>1. cy + 0 < n
    BY <1>3 DEF Lined
  <2> QED
    BY <2>1, Numbers
<1>7. PICK C : C = Cell(B, cx, cy, c)
  OBVIOUS
<1>8. \A r \in Rows : C[r] = IF r = cy THEN [B[cy] EXCEPT ![cx] = c] ELSE B[r]
  <2>1. B \in [Rows -> [Columns -> Cells]]
    BY DEF Screens
  <2> QED
    BY <1>7, <2>1 DEF Cell
<1>9. \A r \in Rows : C[r] = Padded(IF r > cy THEN <<>> ELSE u[n - 0 - cy + r])
  <2> TAKE r \in Rows
  <2>1. \A s \in Rows : B[s] = Padded(IF s > cy THEN <<>> ELSE rows[n - 0 - cy + s])
    BY <1>3 DEF Lined
  <2>2. CASE r = cy
    <3>1. n - 0 - cy + r = n /\ ~(r > cy)
      BY <1>3, <1>6, <2>2
    <3>2. B[cy] = Padded(Last(rows))
      BY <1>3, <2>1, <2>2, <3>1 DEF Last
    <3>3. C[r] = [Padded(Last(rows)) EXCEPT ![cx] = c]
      BY <1>8, <2>2, <3>2
    <3>4. Padded(row) = [Padded(Last(rows)) EXCEPT ![cx] = c]
      BY DEF Padded
    <3> QED
      BY <1>4, <3>1, <3>3, <3>4
  <2>3. CASE r # cy
    <3>1. C[r] = Padded(IF r > cy THEN <<>> ELSE rows[n - 0 - cy + r])
      BY <1>8, <2>1, <2>3
    <3>2. ~(r > cy) => n - 0 - cy + r \in 1..n - 1
      BY <1>3, <1>6, <2>3, Numbers
    <3> QED
      BY <1>4, <3>1, <3>2
  <2> QED
    BY <2>2, <2>3
<1> QED
  BY <1>3, <1>4, <1>5, <1>6, <1>7, <1>9 DEF Lined

\* A character is put at the cursor.
LEMMA TypedPasses ==
  ASSUME NEW rows, Sheet(rows), NEW B \in Screens, NEW cx, NEW cy, Shows(rows, cx, cy, B),
         NEW c \in Cells
  PROVE  Sheet(Typed(rows, c)) /\ Passes(Typed(rows, c), cx, cy, Cell(B, cx, cy, c))
<1>1. PICK S : S = Seq(Cells)
  OBVIOUS
<1>2. PICK last : last = Last(rows)
  OBVIOUS
<1>3. rows \in Seq(S) /\ Len(rows) > 0 /\ Len(rows) \in 1..Len(rows)
  BY <1>1 DEF Sheet
<1>4. last \in S /\ last \in Seq(Cells)
  BY <1>1, <1>2, <1>3 DEF Last
<1>5. cx \in Columns /\ cy \in Rows /\ cx = Len(last) /\ Lined(rows, 0, cy, B)
  BY <1>2 DEF Shows
<1>6. PICK row : row = Append(last, c)
  OBVIOUS
<1>7. row \in Seq(Cells) /\ Len(row) = cx + 1
  BY <1>4, <1>5, <1>6
<1>8. cx \in Nat /\ cx < SCREEN_WIDTH /\ cx + 1 <= SCREEN_WIDTH
  BY <1>5, Numbers
<1>9. \A k \in Columns : Padded(row)[k] = IF k = cx THEN c ELSE Padded(last)[k]
  BY <1>4, <1>5, <1>6, <1>8, PaddedAppend
<1>10. PICK u : u = Ending(rows, row)
  OBVIOUS
<1>11. PICK C : C = Cell(B, cx, cy, c)
  OBVIOUS
<1>12. Sheet(u) /\ Last(u) = row /\ Lined(u, 0, cy, C)
  BY <1>2, <1>5, <1>7, <1>8, <1>9, <1>10, <1>11, LastRowShows
<1>13. Typed(rows, c) = IF cx + 1 = SCREEN_WIDTH THEN NewRow(u) ELSE u
  BY <1>2, <1>6, <1>7, <1>10 DEF Typed, Ending
<1>14. CASE cx + 1 = SCREEN_WIDTH
  <2>1. ~(cx + 1 < SCREEN_WIDTH)
    BY <1>14, Numbers
  <2>2. Sheet(NewRow(u)) /\ Turns(NewRow(u), cy, C)
    BY <1>5, <1>12, NewRowTurns
  <2> QED
    BY <1>11, <1>13, <1>14, <2>1, <2>2 DEF Passes
<1>15. CASE cx + 1 # SCREEN_WIDTH
  <2>1. cx + 1 < SCREEN_WIDTH /\ cx + 1 \in Columns
    BY <1>5, <1>8, <1>15, Numbers, Bounds
  <2>2. Shows(u, cx + 1, cy, C)
    BY <1>5, <1>7, <1>12, <2>1 DEF Shows
  <2> QED
    BY <1>11, <1>12, <1>13, <1>15, <2>1, <2>2 DEF Passes
<1> QED
  BY <1>14, <1>15

\* A backspace behind a character erases it.
LEMMA RubbedErases ==
  ASSUME NEW rows, Sheet(rows), NEW B \in Screens, NEW cx, NEW cy, Shows(rows, cx, cy, B), cx # 0
  PROVE  Sheet(Rubbed(rows)) /\ Erases(Rubbed(rows), cx - 1, cy, B)
<1>1. PICK S : S = Seq(Cells)
  OBVIOUS
<1>2. PICK last : last = Last(rows)
  OBVIOUS
<1>3. rows \in Seq(S) /\ Len(rows) > 0 /\ Len(rows) \in 1..Len(rows)
  BY <1>1 DEF Sheet
<1>4. last \in S /\ last \in Seq(Cells)
  BY <1>1, <1>2, <1>3 DEF Last
<1>5. cx \in Columns /\ cy \in Rows /\ cx = Len(last) /\ Lined(rows, 0, cy, B)
  BY <1>2 DEF Shows
<1>6. cx \in Nat /\ 0 < cx /\ cx <= SCREEN_WIDTH /\ cx - 1 <= SCREEN_WIDTH
  BY <1>5, Numbers
<1>16. cx - 1 \in Columns
  BY <1>5, Bounds
<1>7. last # <<>>
  BY <1>4, <1>5, <1>6
<1>8. PICK row : row = Front(last)
  OBVIOUS
<1>9. row \in Seq(Cells) /\ Len(row) = cx - 1
  BY <1>4, <1>5, <1>7, <1>8, FrontIs
<1>12. PICK blank \in Cells : blank = " "
  BY DEF Cells
<1>10. \A k \in Columns : Padded(row)[k] = IF k = cx - 1 THEN blank ELSE Padded(last)[k]
  BY <1>4, <1>5, <1>6, <1>8, <1>12, PaddedFront
<1>11. PICK u : u = Ending(rows, row)
  OBVIOUS
<1>13. Sheet(u) /\ Last(u) = row /\ Lined(u, 0, cy, Cell(B, cx - 1, cy, blank))
  <2>1. PICK k \in Columns : k = cx - 1
    BY <1>16
  <2>2. /\ Len(row) <= SCREEN_WIDTH
        /\ \A j \in Columns : Padded(row)[j] = IF j = k THEN blank ELSE Padded(Last(rows))[j]
    BY <1>2, <1>6, <1>9, <1>10, <2>1
  <2>3. Sheet(u) /\ Last(u) = row /\ Lined(u, 0, cy, Cell(B, k, cy, blank))
    BY <1>5, <1>9, <1>11, <2>2, LastRowShows
  <2> QED
    BY <2>1, <2>3
<1>14. Rubbed(rows) = u
  BY <1>2, <1>7, <1>8, <1>11 DEF Rubbed, Ending
<1> QED
  BY <1>5, <1>16, <1>9, <1>12, <1>13, <1>14 DEF Erases, Shows

\* A backspace at the start of a row erases the last column of the row above.
LEMMA RubbedErasesAbove ==
  ASSUME NEW rows, Sheet(rows), NEW B \in Screens, NEW cy, Shows(rows, 0, cy, B), cy # 0
  PROVE  Sheet(Rubbed(rows)) /\ Erases(Rubbed(rows), SCREEN_WIDTH - 1, cy - 1, B)
<1>1. PICK S : S = Seq(Cells)
  OBVIOUS
<1>2. rows \in Seq(S) /\ Len(rows) > 0
  BY <1>1 DEF Sheet
<1>3. PICK n \in Nat : n = Len(rows)
  BY <1>2
<1>4. cy \in Rows /\ Len(rows[n]) = 0 /\ Lined(rows, 0, cy, B) /\ cy + 0 < n
  BY <1>3 DEF Shows, Last, Lined
<1>5. cy \in Nat /\ 0 < cy /\ cy < n /\ cy - 1 \in Rows
  BY <1>4, Numbers, Bounds
<1>6. rows[n] = <<>>
  <2>1. rows[n] \in S
    BY <1>2, <1>3, <1>5
  <2> QED
    BY <1>1, <1>4, <2>1
<1>7. PICK f : f = Front(rows)
  OBVIOUS
<1>8. f \in Seq(S) /\ Len(f) = n - 1 /\ \A i \in 1..n - 1 : f[i] = rows[i]
  <2>1. rows # <<>>
    BY <1>2
  <2> QED
    BY <1>2, <1>3, <1>7, <2>1, FrontIs
<1>9. Sheet(f) /\ Last(f) = rows[n - 1] /\ n - 1 \in 1..n
  <2>1. n - 1 > 0 /\ n - 1 \in 1..n - 1 /\ 1..n - 1 \subseteq 1..n
    BY <1>3, <1>5
  <2> QED
    BY <1>1, <1>3, <1>8, <2>1 DEF Sheet, Last
<1>10. Lined(f, 0, cy - 1, B)
  <2>1. (cy - 1) + 0 < Len(f)
    BY <1>3, <1>5, <1>8
  <2>2. \A r \in Rows : B[r] = Padded(IF r > cy - 1 THEN <<>> ELSE f[Len(f) - 0 - (cy - 1) + r])
    <3> TAKE r \in Rows
    <3>1. B[r] = Padded(IF r > cy THEN <<>> ELSE rows[n - 0 - cy + r])
      BY <1>3, <1>4 DEF Lined
    <3>2. \/ r > cy - 1 /\ r > cy
          \/ r > cy - 1 /\ ~(r > cy) /\ n - 0 - cy + r = n
          \/ ~(r > cy - 1) /\ ~(r > cy) /\ Len(f) - 0 - (cy - 1) + r = n - 0 - cy + r
             /\ n - 0 - cy + r \in 1..n - 1
      BY <1>3, <1>5, <1>8, Numbers
    <3> QED
      BY <1>6, <1>8, <3>1, <3>2
  <2> QED
    BY <2>1, <2>2 DEF Lined
<1>11. PICK v : v = [k \in 1..SCREEN_WIDTH - 1 |-> Padded(Last(f))[k - 1]]
  OBVIOUS
<1>14. PICK blank \in Cells : blank = " "
  BY DEF Cells
<1>17. SCREEN_WIDTH - 1 \in Columns /\ SCREEN_WIDTH - 1 <= SCREEN_WIDTH
  BY Bounds, Numbers
<1>12. /\ v \in Seq(Cells) /\ Len(v) = SCREEN_WIDTH - 1
       /\ \A k \in Columns : Padded(v)[k] = IF k = SCREEN_WIDTH - 1 THEN blank ELSE Padded(Last(f))[k]
  <2>1. Last(f) \in S
    BY <1>2, <1>3, <1>9
  <2> QED
    BY <1>1, <1>11, <1>14, <2>1, PaddedTrimmed
<1>13. PICK u : u = Ending(f, v)
  OBVIOUS
<1>15. Sheet(u) /\ Last(u) = v /\ Lined(u, 0, cy - 1, Cell(B, SCREEN_WIDTH - 1, cy - 1, blank))
  BY <1>5, <1>9, <1>10, <1>12, <1>13, <1>17, LastRowShows
<1>16. Rubbed(rows) = u
  BY <1>3, <1>6, <1>7, <1>11, <1>13 DEF Rubbed, Ending, Last
<1> QED
  BY <1>5, <1>12, <1>14, <1>15, <1>16, <1>17 DEF Erases, Shows

-----------------------------------------------------------------------------
(* A call that is alone *)

\* Where a step that is not the last leaves the call.
LEMMA Goes ==
  ASSUME NEW p \in Printers, NEW next, NEW a, NEW b, Moves(p, next, a, b), next # "idle",
         Sheet(paper)', ToDo(next, paper', tty_xpos', tty_ypos', tty_buffer', a, b, char'[p])
  PROVE  Alone(p)' /\ Rest(p)'
BY DEF Moves, Alone, Rest

\* What a step of p has to show, as long as no calls overlap.
Carries(p) == Alone(p) /\ Rest(p) /\ ~met' => Alone(p)' /\ Rest(p)'

LEMMA CellArgsShown ==
  ASSUME TypeCore, pc \in [Printers -> Steps], NEW p \in Printers, CellArgs(p)
  PROVE  Carries(p)
<1> SUFFICES ASSUME Alone(p), Rest(p), ~met' PROVE Alone(p)' /\ Rest(p)'
  BY DEF Carries
<1>1. /\ pc[p] = "cell" /\ Go(p, "write cell") /\ paper' = Typed(paper, char[p])
      /\ x' = Local(x, p, tty_xpos) /\ y' = Local(y, p, tty_ypos)
      /\ UNCHANGED <<tty_xpos, tty_ypos, tty_buffer, char>>
  BY DEF CellArgs, Record, globals
<1>2. "write cell" \in Steps /\ tty_xpos \in Sizes /\ tty_ypos \in Sizes
  BY DEF Steps, TypeCore
<1>3. Moves(p, "write cell", tty_xpos, tty_ypos)
  BY <1>1, <1>2, Moved
<1>4. Sheet(paper) /\ Shows(paper, tty_xpos, tty_ypos, tty_buffer)
  BY <1>1 DEF Alone, ToDo
<1>5. char[p] \in Cells /\ tty_buffer \in Screens /\ tty_xpos \in Columns /\ tty_ypos \in Rows
  BY <1>4 DEF TypeCore, Screens, Shows
<1>6. Sheet(paper') /\ Passes(paper', tty_xpos, tty_ypos, Cell(tty_buffer, tty_xpos, tty_ypos, char[p]))
  BY <1>1, <1>4, <1>5, TypedPasses
<1>7. ToDo("write cell", paper', tty_xpos', tty_ypos', tty_buffer', tty_xpos, tty_ypos, char'[p])
  BY <1>1, <1>5, <1>6 DEF ToDo
<1> QED
  BY <1>3, <1>6, <1>7, Goes

LEMMA LoadXShown ==
  ASSUME TypeCore, pc \in [Printers -> Steps], NEW p \in Printers, LoadX(p)
  PROVE  Carries(p)
<1> SUFFICES ASSUME Alone(p), Rest(p), ~met' PROVE Alone(p)' /\ Rest(p)'
  BY DEF Carries
<1>1. /\ pc[p] = "write cell" /\ Go(p, "store x") /\ tty_putentryat(p)
      /\ x' = Local(x, p, tty_xpos) /\ y' = Local(y, p, 0)
      /\ UNCHANGED <<tty_xpos, tty_ypos, char, paper>>
  BY DEF LoadX
<1>2. "store x" \in Steps /\ tty_xpos \in Sizes /\ 0 \in Sizes
  BY Bounds DEF Steps, TypeCore
<1>3. Moves(p, "store x", tty_xpos, 0)
  BY <1>1, <1>2, Moved
<1>4. /\ Sheet(paper) /\ x[p] = tty_xpos /\ y[p] = tty_ypos /\ tty_xpos \in Columns /\ tty_ypos \in Rows
      /\ Passes(paper, tty_xpos, tty_ypos, Cell(tty_buffer, tty_xpos, tty_ypos, char[p]))
  BY <1>1 DEF Alone, ToDo
<1>5. tty_buffer' = Cell(tty_buffer, tty_xpos, tty_ypos, char[p])
  BY <1>1, <1>4 DEF tty_putentryat, Cell
<1>6. ToDo("store x", paper', tty_xpos', tty_ypos', tty_buffer', tty_xpos, 0, char'[p])
  BY <1>1, <1>4, <1>5 DEF ToDo
<1> QED
  BY <1>1, <1>3, <1>4, <1>6, Goes

LEMMA StoreXShown ==
  ASSUME TypeCore, pc \in [Printers -> Steps], NEW p \in Printers, StoreX(p)
  PROVE  Carries(p)
<1> SUFFICES ASSUME Alone(p), Rest(p), ~met' PROVE Alone(p)' /\ Rest(p)'
  BY DEF Carries
<1>1. /\ pc[p] = "store x" /\ Go(p, "test x") /\ tty_xpos' = (x[p] + 1) % SizeMod
      /\ x' = x /\ y' = y /\ UNCHANGED <<tty_ypos, tty_buffer, char, paper>>
  BY DEF StoreX, locals
<1>2. "test x" \in Steps /\ x[p] \in Sizes /\ y[p] \in Sizes
  BY DEF Steps, TypeCore
<1>3. Moves(p, "test x", x[p], y[p])
  BY <1>1, <1>2, Moved
<1>4. /\ Sheet(paper) /\ x[p] = tty_xpos /\ tty_xpos \in Columns /\ tty_ypos \in Rows
      /\ Passes(paper, tty_xpos, tty_ypos, tty_buffer)
  BY <1>1 DEF Alone, ToDo
<1>5. tty_xpos' = x[p] + 1
  BY <1>1, <1>4, Bounds, Modulo
<1>6. ToDo("test x", paper', tty_xpos', tty_ypos', tty_buffer', x[p], y[p], char'[p])
  BY <1>1, <1>4, <1>5 DEF ToDo
<1> QED
  BY <1>1, <1>3, <1>4, <1>6, Goes

LEMMA TestXShown ==
  ASSUME TypeCore, pc \in [Printers -> Steps], NEW p \in Printers, TestX(p)
  PROVE  Carries(p)
<1> SUFFICES ASSUME Alone(p), Rest(p), ~met' PROVE Alone(p)' /\ Rest(p)'
  BY DEF Carries
<1>1. /\ pc[p] = "test x" /\ y' = y
      /\ UNCHANGED <<tty_xpos, tty_ypos, tty_buffer, char, paper>>
      /\ \/ tty_xpos = SCREEN_WIDTH /\ Go(p, "wrap") /\ x' = x
         \/ tty_xpos # SCREEN_WIDTH /\ Go(p, "args") /\ x' = Local(x, p, 0)
  BY DEF TestX, globals
<1>2. "wrap" \in Steps /\ "args" \in Steps /\ x[p] \in Sizes /\ y[p] \in Sizes /\ 0 \in Sizes
  BY Bounds DEF Steps, TypeCore
<1>3. /\ Sheet(paper) /\ tty_xpos = x[p] + 1 /\ x[p] \in Columns
      /\ Passes(paper, x[p], tty_ypos, tty_buffer)
  BY <1>1 DEF Alone, ToDo
<1>4. x[p] + 1 < SCREEN_WIDTH <=> x[p] + 1 # SCREEN_WIDTH
  BY <1>3, Numbers
<1>5. CASE tty_xpos = SCREEN_WIDTH
  <2>1. Moves(p, "wrap", x[p], y[p])
    BY <1>1, <1>2, <1>5, Moved
  <2>2. Turns(paper, tty_ypos, tty_buffer)
    BY <1>3, <1>4, <1>5 DEF Passes
  <2>3. ToDo("wrap", paper', tty_xpos', tty_ypos', tty_buffer', x[p], y[p], char'[p])
    BY <1>1, <2>2 DEF ToDo
  <2> QED
    BY <1>1, <1>3, <2>1, <2>3, Goes
<1>6. CASE tty_xpos # SCREEN_WIDTH
  <2>1. Moves(p, "args", 0, y[p])
    BY <1>1, <1>2, <1>6, Moved
  <2>2. Shows(paper, tty_xpos, tty_ypos, tty_buffer)
    BY <1>3, <1>4, <1>6 DEF Passes
  <2>3. ToDo("args", paper', tty_xpos', tty_ypos', tty_buffer', 0, y[p], char'[p])
    BY <1>1, <2>2 DEF ToDo
  <2> QED
    BY <1>1, <1>3, <2>1, <2>3, Goes
<1> QED
  BY <1>5, <1>6

LEMMA WrapShown ==
  ASSUME TypeCore, pc \in [Printers -> Steps], NEW p \in Printers, Wrap(p) \/ LoadY(p)
  PROVE  Carries(p)
<1> SUFFICES ASSUME Alone(p), Rest(p), ~met' PROVE Alone(p)' /\ Rest(p)'
  BY DEF Carries
<1>1. /\ "load y" \in Steps /\ "store y" \in Steps /\ x[p] \in Sizes /\ y[p] \in Sizes
      /\ tty_ypos \in Sizes /\ 0 \in Sizes
  BY Bounds DEF Steps, TypeCore
<1>2. CASE Wrap(p)
  <2>1. /\ pc[p] = "wrap" /\ Go(p, "load y") /\ tty_xpos' = 0 /\ x' = Local(x, p, 0) /\ y' = y
        /\ UNCHANGED <<tty_ypos, tty_buffer, char, paper>>
    BY <1>2 DEF Wrap
  <2>2. Moves(p, "load y", 0, y[p])
    BY <1>1, <2>1, Moved
  <2>3. Sheet(paper) /\ Turns(paper, tty_ypos, tty_buffer)
    BY <2>1 DEF Alone, ToDo
  <2>4. ToDo("load y", paper', tty_xpos', tty_ypos', tty_buffer', 0, y[p], char'[p])
    BY <2>1, <2>3 DEF ToDo
  <2> QED
    BY <2>1, <2>2, <2>3, <2>4, Goes
<1>3. CASE LoadY(p)
  <2>1. /\ pc[p] = "load y" /\ Go(p, "store y") /\ x' = x /\ y' = Local(y, p, tty_ypos)
        /\ UNCHANGED <<tty_xpos, tty_ypos, tty_buffer, char, paper>>
    BY <1>3 DEF LoadY, globals
  <2>2. Moves(p, "store y", x[p], tty_ypos)
    BY <1>1, <2>1, Moved
  <2>3. Sheet(paper) /\ tty_xpos = 0 /\ Turns(paper, tty_ypos, tty_buffer)
    BY <2>1 DEF Alone, ToDo
  <2>4. ToDo("store y", paper', tty_xpos', tty_ypos', tty_buffer', x[p], tty_ypos, char'[p])
    BY <2>1, <2>3 DEF ToDo
  <2> QED
    BY <2>1, <2>2, <2>3, <2>4, Goes
<1> QED
  BY <1>2, <1>3

LEMMA StoreYShown ==
  ASSUME TypeCore, pc \in [Printers -> Steps], NEW p \in Printers, StoreY(p)
  PROVE  Carries(p)
<1> SUFFICES ASSUME Alone(p), Rest(p), ~met' PROVE Alone(p)' /\ Rest(p)'
  BY DEF Carries
<1>1. /\ pc[p] = "store y" /\ Go(p, "test y") /\ tty_ypos' = (y[p] + 1) % SizeMod
      /\ x' = x /\ y' = y /\ UNCHANGED <<tty_xpos, tty_buffer, char, paper>>
  BY DEF StoreY, locals
<1>2. "test y" \in Steps /\ x[p] \in Sizes /\ y[p] \in Sizes
  BY DEF Steps, TypeCore
<1>3. Moves(p, "test y", x[p], y[p])
  BY <1>1, <1>2, Moved
<1>4. Sheet(paper) /\ tty_xpos = 0 /\ y[p] = tty_ypos /\ Turns(paper, tty_ypos, tty_buffer)
  BY <1>1 DEF Alone, ToDo
<1>5. tty_ypos' = y[p] + 1
  <2>1. y[p] \in Rows
    BY <1>4 DEF Turns
  <2> QED
    BY <1>1, <2>1, Bounds, Modulo
<1>6. ToDo("test y", paper', tty_xpos', tty_ypos', tty_buffer', x[p], y[p], char'[p])
  BY <1>1, <1>4, <1>5 DEF ToDo
<1> QED
  BY <1>1, <1>3, <1>4, <1>6, Goes

LEMMA TestYShown ==
  ASSUME TypeCore, pc \in [Printers -> Steps], NEW p \in Printers, TestY(p)
  PROVE  Carries(p)
<1> SUFFICES ASSUME Alone(p), Rest(p), ~met' PROVE Alone(p)' /\ Rest(p)'
  BY DEF Carries
<1>1. /\ pc[p] = "test y" /\ x' = x /\ y' = Local(y, p, 0)
      /\ UNCHANGED <<tty_xpos, tty_ypos, tty_buffer, char, paper>>
      /\ \/ tty_ypos = SCREEN_HEIGHT /\ Go(p, "scroll")
         \/ tty_ypos # SCREEN_HEIGHT /\ Go(p, "args")
  BY DEF TestY, globals
<1>2. "scroll" \in Steps /\ "args" \in Steps /\ x[p] \in Sizes /\ 0 \in Sizes
  BY Bounds DEF Steps, TypeCore
<1>3. /\ Sheet(paper) /\ tty_xpos = 0 /\ tty_ypos = y[p] + 1 /\ Turns(paper, y[p], tty_buffer)
  BY <1>1 DEF Alone, ToDo
<1>4. CASE tty_ypos = SCREEN_HEIGHT
  <2>1. Moves(p, "scroll", x[p], 0)
    BY <1>1, <1>2, <1>4, Moved
  <2>2. y[p] \in Rows
    BY <1>3 DEF Turns
  <2>3. tty_ypos - 1 = y[p]
    BY <1>3, <2>2, Numbers
  <2>4. ToDo("scroll", paper', tty_xpos', tty_ypos', tty_buffer', x[p], 0, char'[p])
    BY <1>1, <1>3, <1>4, <2>3 DEF ToDo
  <2> QED
    BY <1>1, <1>3, <2>1, <2>4, Goes
<1>5. CASE tty_ypos # SCREEN_HEIGHT
  <2>1. Moves(p, "args", x[p], 0)
    BY <1>1, <1>2, <1>5, Moved
  <2>2. Shows(paper, 0, y[p] + 1, tty_buffer)
    BY <1>3, <1>5, TurnsShows
  <2>3. ToDo("args", paper', tty_xpos', tty_ypos', tty_buffer', x[p], 0, char'[p])
    BY <1>1, <1>3, <2>2 DEF ToDo
  <2> QED
    BY <1>1, <1>3, <2>1, <2>3, Goes
<1> QED
  BY <1>4, <1>5

LEMMA ScrollShown ==
  ASSUME TypeCore, pc \in [Printers -> Steps], NEW p \in Printers, tty_scroll(p)
  PROVE  Carries(p)
<1> SUFFICES ASSUME Alone(p), Rest(p), ~met' PROVE Alone(p)' /\ Rest(p)'
  BY DEF Carries
<1>1. /\ pc[p] = "scroll" /\ Go(p, "load row") /\ tty_buffer' = Scrolled
      /\ x' = x /\ y' = y /\ UNCHANGED <<tty_xpos, tty_ypos, char, paper>>
  BY DEF tty_scroll, locals
<1>2. "load row" \in Steps /\ x[p] \in Sizes /\ y[p] \in Sizes
  BY DEF Steps, TypeCore
<1>3. Moves(p, "load row", x[p], y[p])
  BY <1>1, <1>2, Moved
<1>4. /\ Sheet(paper) /\ tty_xpos = 0 /\ tty_ypos = SCREEN_HEIGHT
      /\ Turns(paper, tty_ypos - 1, tty_buffer)
  BY <1>1 DEF Alone, ToDo
<1>5. Shows(paper, 0, SCREEN_HEIGHT - 1, Scrolled)
  BY <1>4, TurnsScrolls
<1>6. ToDo("load row", paper', tty_xpos', tty_ypos', tty_buffer', x[p], y[p], char'[p])
  BY <1>1, <1>4, <1>5 DEF ToDo
<1> QED
  BY <1>1, <1>3, <1>4, <1>6, Goes

LEMMA LoadRowShown ==
  ASSUME TypeCore, pc \in [Printers -> Steps], NEW p \in Printers, LoadRow(p)
  PROVE  Carries(p)
<1> SUFFICES ASSUME Alone(p), Rest(p), ~met' PROVE Alone(p)' /\ Rest(p)'
  BY DEF Carries
<1>1. /\ x' = x /\ y' = Local(y, p, tty_ypos)
      /\ UNCHANGED <<tty_xpos, tty_ypos, tty_buffer, char, paper>>
      /\ \/ pc[p] = "load row" /\ Go(p, "store row")
         \/ pc[p] = "load row above" /\ Go(p, "store row above")
  BY DEF LoadRow, globals
<1>2. "store row" \in Steps /\ "store row above" \in Steps /\ x[p] \in Sizes /\ tty_ypos \in Sizes
  BY DEF Steps, TypeCore
<1>3. Sheet(paper)
  BY DEF Alone
<1>4. CASE pc[p] = "load row"
  <2>1. Moves(p, "store row", x[p], tty_ypos)
    BY <1>1, <1>2, <1>4, Moved
  <2>2. tty_xpos = 0 /\ tty_ypos = SCREEN_HEIGHT /\ Shows(paper, tty_xpos, tty_ypos - 1, tty_buffer)
    BY <1>4 DEF Alone, ToDo
  <2>3. ToDo("store row", paper', tty_xpos', tty_ypos', tty_buffer', x[p], tty_ypos, char'[p])
    BY <1>1, <2>2 DEF ToDo
  <2> QED
    BY <1>1, <1>3, <2>1, <2>3, Goes
<1>5. CASE pc[p] = "load row above"
  <2>1. Moves(p, "store row above", x[p], tty_ypos)
    BY <1>1, <1>2, <1>5, Moved
  <2>2. /\ tty_xpos = SCREEN_WIDTH - 1 /\ tty_ypos \in Rows \ {0} /\ char[p] = " "
        /\ Erases(paper, tty_xpos, tty_ypos - 1, tty_buffer)
    BY <1>5 DEF Alone, ToDo
  <2>3. ToDo("store row above", paper', tty_xpos', tty_ypos', tty_buffer', x[p], tty_ypos, char'[p])
    BY <1>1, <2>2 DEF ToDo
  <2> QED
    BY <1>1, <1>3, <2>1, <2>3, Goes
<1> QED
  BY <1>1, <1>4, <1>5

LEMMA StoreRowShown ==
  ASSUME TypeCore, pc \in [Printers -> Steps], NEW p \in Printers, StoreRow(p)
  PROVE  Carries(p)
<1> SUFFICES ASSUME Alone(p), Rest(p), ~met' PROVE Alone(p)' /\ Rest(p)'
  BY DEF Carries
<1>1. /\ tty_ypos' = (y[p] - 1) % SizeMod /\ x' = x /\ y' = Local(y, p, 0)
      /\ UNCHANGED <<tty_xpos, tty_buffer, char, paper>>
      /\ \/ pc[p] = "store row" /\ Go(p, "args")
         \/ pc[p] = "store row above" /\ Go(p, "blank")
  BY DEF StoreRow
<1>2. "args" \in Steps /\ "blank" \in Steps /\ x[p] \in Sizes /\ 0 \in Sizes
  BY Bounds DEF Steps, TypeCore
<1>3. Sheet(paper)
  BY DEF Alone
<1>4. CASE pc[p] = "store row"
  <2>1. Moves(p, "args", x[p], 0)
    BY <1>1, <1>2, <1>4, Moved
  <2>2. /\ tty_ypos = SCREEN_HEIGHT /\ y[p] = tty_ypos
        /\ Shows(paper, tty_xpos, tty_ypos - 1, tty_buffer)
    BY <1>4 DEF Alone, ToDo
  <2>3. tty_ypos' = tty_ypos - 1
    BY <1>1, <2>2, Bounds, Modulo
  <2>4. ToDo("args", paper', tty_xpos', tty_ypos', tty_buffer', x[p], 0, char'[p])
    BY <1>1, <2>2, <2>3 DEF ToDo
  <2> QED
    BY <1>1, <1>3, <2>1, <2>4, Goes
<1>5. CASE pc[p] = "store row above"
  <2>1. Moves(p, "blank", x[p], 0)
    BY <1>1, <1>2, <1>5, Moved
  <2>2. /\ tty_xpos = SCREEN_WIDTH - 1 /\ tty_ypos \in Rows \ {0} /\ char[p] = " " /\ y[p] = tty_ypos
        /\ Erases(paper, tty_xpos, tty_ypos - 1, tty_buffer)
    BY <1>5 DEF Alone, ToDo
  <2>3. tty_xpos \in Columns /\ tty_ypos - 1 \in Rows
    BY <2>2, Bounds
  <2>4. tty_ypos' = tty_ypos - 1
    BY <1>1, <2>2, <2>3, Bounds, Modulo
  <2>5. ToDo("blank", paper', tty_xpos', tty_ypos', tty_buffer', x[p], 0, char'[p])
    BY <1>1, <2>2, <2>3, <2>4 DEF ToDo
  <2> QED
    BY <1>1, <1>3, <2>1, <2>5, Goes
<1> QED
  BY <1>1, <1>4, <1>5

LEMMA CursorArgsShown ==
  ASSUME TypeCore, pc \in [Printers -> Steps], NEW p \in Printers, CursorArgs(p) \/ SetX(p)
  PROVE  Carries(p)
<1> SUFFICES ASSUME Alone(p), Rest(p), ~met' PROVE Alone(p)' /\ Rest(p)'
  BY DEF Carries
<1>1. /\ "set x" \in Steps /\ "set y" \in Steps /\ x[p] \in Sizes /\ y[p] \in Sizes
      /\ tty_xpos \in Sizes /\ tty_ypos \in Sizes
  BY DEF Steps, TypeCore
<1>2. CASE CursorArgs(p)
  <2>1. /\ pc[p] = "args" /\ Go(p, "set x") /\ x' = Local(x, p, tty_xpos) /\ y' = Local(y, p, tty_ypos)
        /\ UNCHANGED <<tty_xpos, tty_ypos, tty_buffer, char, paper>>
    BY <1>2 DEF CursorArgs, globals
  <2>2. Moves(p, "set x", tty_xpos, tty_ypos)
    BY <1>1, <2>1, Moved
  <2>3. Sheet(paper) /\ Shows(paper, tty_xpos, tty_ypos, tty_buffer)
    BY <2>1 DEF Alone, ToDo
  <2>4. ToDo("set x", paper', tty_xpos', tty_ypos', tty_buffer', tty_xpos, tty_ypos, char'[p])
    BY <2>1, <2>3 DEF ToDo
  <2> QED
    BY <2>1, <2>2, <2>3, <2>4, Goes
<1>3. CASE SetX(p)
  <2>1. /\ pc[p] = "set x" /\ Go(p, "set y") /\ tty_xpos' = x[p] /\ x' = x /\ y' = y
        /\ UNCHANGED <<tty_ypos, tty_buffer, char, paper>>
    BY <1>3 DEF SetX, locals
  <2>2. Moves(p, "set y", x[p], y[p])
    BY <1>1, <2>1, Moved
  <2>3. Sheet(paper) /\ Shows(paper, x[p], y[p], tty_buffer)
    BY <2>1 DEF Alone, ToDo
  <2>4. ToDo("set y", paper', tty_xpos', tty_ypos', tty_buffer', x[p], y[p], char'[p])
    BY <2>1, <2>3 DEF ToDo
  <2> QED
    BY <2>1, <2>2, <2>3, <2>4, Goes
<1> QED
  BY <1>2, <1>3

\* The end of a call, or of one of a tab's blanks.
LEMMA SetYShown ==
  ASSUME TypeCore, pc \in [Printers -> Steps], NEW p \in Printers, SetY(p)
  PROVE  Carries(p)
<1> SUFFICES ASSUME Alone(p), Rest(p), ~met' PROVE Alone(p)' /\ Rest(p)'
  BY DEF Carries
<1>1. PICK left : Go(p, IF left > 0 THEN "cell" ELSE "idle")
  BY DEF SetY
<1>2. PICK next \in {"cell", "idle"} : Go(p, next)
  BY <1>1
<1>3. /\ pc[p] = "set y" /\ tty_ypos' = y[p] /\ cursor' = y[p] * SCREEN_WIDTH + x[p]
      /\ x' = Local(x, p, 0) /\ y' = Local(y, p, 0) /\ char' = [char EXCEPT ![p] = " "]
      /\ UNCHANGED <<tty_xpos, tty_buffer, paper>>
  BY DEF SetY
<1>4. next \in Steps /\ 0 \in Sizes
  BY <1>2, Bounds DEF Steps
<1>5. Moves(p, next, 0, 0)
  BY <1>2, <1>3, <1>4, Moved
<1>6. char'[p] = " "
  BY <1>3 DEF TypeCore
<1>7. Sheet(paper) /\ tty_xpos = x[p] /\ Shows(paper, x[p], y[p], tty_buffer)
  BY <1>3 DEF Alone, ToDo
<1>8. ToDo(next, paper', tty_xpos', tty_ypos', tty_buffer', 0, 0, char'[p])
  BY <1>2, <1>3, <1>6, <1>7 DEF ToDo
<1>9. Settled'
  BY <1>3, <1>7 DEF Settled
<1> QED
  BY <1>3, <1>5, <1>6, <1>7, <1>8, <1>9 DEF Moves, Alone, Rest

LEMMA DeleteColumnShown ==
  ASSUME TypeCore, pc \in [Printers -> Steps], NEW p \in Printers,
         DeleteLastColumn(p) \/ DeleteLoadColumn(p) \/ DeleteStoreColumn(p)
  PROVE  Carries(p)
<1> SUFFICES ASSUME Alone(p), Rest(p), ~met' PROVE Alone(p)' /\ Rest(p)'
  BY DEF Carries
<1>1. /\ "load row above" \in Steps /\ "store column" \in Steps /\ "blank" \in Steps
      /\ x[p] \in Sizes /\ y[p] \in Sizes /\ tty_xpos \in Sizes /\ 0 \in Sizes
  BY Bounds DEF Steps, TypeCore
<1>2. Sheet(paper)
  BY DEF Alone
<1>3. CASE DeleteLastColumn(p)
  <2>1. /\ pc[p] = "last column" /\ Go(p, "load row above") /\ tty_xpos' = SCREEN_WIDTH - 1
        /\ x' = x /\ y' = y /\ UNCHANGED <<tty_ypos, tty_buffer, char, paper>>
    BY <1>3 DEF DeleteLastColumn, locals
  <2>2. Moves(p, "load row above", x[p], y[p])
    BY <1>1, <2>1, Moved
  <2>3. /\ tty_ypos \in Rows \ {0} /\ char[p] = " "
        /\ Erases(paper, SCREEN_WIDTH - 1, tty_ypos - 1, tty_buffer)
    BY <2>1 DEF Alone, ToDo
  <2>4. ToDo("load row above", paper', tty_xpos', tty_ypos', tty_buffer', x[p], y[p], char'[p])
    BY <2>1, <2>3 DEF ToDo
  <2> QED
    BY <1>2, <2>1, <2>2, <2>4, Goes
<1>4. CASE DeleteLoadColumn(p)
  <2>1. /\ pc[p] = "load column" /\ Go(p, "store column") /\ x' = Local(x, p, tty_xpos) /\ y' = y
        /\ UNCHANGED <<tty_xpos, tty_ypos, tty_buffer, char, paper>>
    BY <1>4 DEF DeleteLoadColumn, globals
  <2>2. Moves(p, "store column", tty_xpos, y[p])
    BY <1>1, <2>1, Moved
  <2>3. /\ tty_xpos \in Columns \ {0} /\ tty_ypos \in Rows /\ char[p] = " "
        /\ Erases(paper, tty_xpos - 1, tty_ypos, tty_buffer)
    BY <2>1 DEF Alone, ToDo
  <2>4. ToDo("store column", paper', tty_xpos', tty_ypos', tty_buffer', tty_xpos, y[p], char'[p])
    BY <2>1, <2>3 DEF ToDo
  <2> QED
    BY <1>2, <2>1, <2>2, <2>4, Goes
<1>5. CASE DeleteStoreColumn(p)
  <2>1. /\ pc[p] = "store column" /\ Go(p, "blank") /\ x' = Local(x, p, 0) /\ y' = y
        /\ tty_xpos' = (x[p] - 1) % SizeMod /\ UNCHANGED <<tty_ypos, tty_buffer, char, paper>>
    BY <1>5 DEF DeleteStoreColumn
  <2>2. Moves(p, "blank", 0, y[p])
    BY <1>1, <2>1, Moved
  <2>3. /\ tty_xpos \in Columns \ {0} /\ tty_ypos \in Rows /\ char[p] = " " /\ x[p] = tty_xpos
        /\ Erases(paper, tty_xpos - 1, tty_ypos, tty_buffer)
    BY <2>1 DEF Alone, ToDo
  <2>4. tty_xpos - 1 \in Columns
    BY <2>3, Bounds
  <2>5. tty_xpos' = tty_xpos - 1
    BY <2>1, <2>3, <2>4, Bounds, Modulo
  <2>6. ToDo("blank", paper', tty_xpos', tty_ypos', tty_buffer', 0, y[p], char'[p])
    BY <2>1, <2>3, <2>4, <2>5 DEF ToDo
  <2> QED
    BY <1>2, <2>1, <2>2, <2>6, Goes
<1> QED
  BY <1>3, <1>4, <1>5

LEMMA DeleteWriteShown ==
  ASSUME TypeCore, pc \in [Printers -> Steps], NEW p \in Printers, DeleteArgs(p) \/ DeleteWrite(p)
  PROVE  Carries(p)
<1> SUFFICES ASSUME Alone(p), Rest(p), ~met' PROVE Alone(p)' /\ Rest(p)'
  BY DEF Carries
<1>1. /\ "write blank" \in Steps /\ "args" \in Steps
      /\ tty_xpos \in Sizes /\ tty_ypos \in Sizes /\ 0 \in Sizes
  BY Bounds DEF Steps, TypeCore
<1>2. Sheet(paper)
  BY DEF Alone
<1>3. CASE DeleteArgs(p)
  <2>1. /\ pc[p] = "blank" /\ Go(p, "write blank")
        /\ x' = Local(x, p, tty_xpos) /\ y' = Local(y, p, tty_ypos)
        /\ UNCHANGED <<tty_xpos, tty_ypos, tty_buffer, char, paper>>
    BY <1>3 DEF DeleteArgs, globals
  <2>2. Moves(p, "write blank", tty_xpos, tty_ypos)
    BY <1>1, <2>1, Moved
  <2>3. /\ tty_xpos \in Columns /\ tty_ypos \in Rows /\ char[p] = " "
        /\ Erases(paper, tty_xpos, tty_ypos, tty_buffer)
    BY <2>1 DEF Alone, ToDo
  <2>4. ToDo("write blank", paper', tty_xpos', tty_ypos', tty_buffer', tty_xpos, tty_ypos, char'[p])
    BY <2>1, <2>3 DEF ToDo
  <2> QED
    BY <1>2, <2>1, <2>2, <2>4, Goes
<1>4. CASE DeleteWrite(p)
  <2>1. /\ pc[p] = "write blank" /\ Go(p, "args") /\ tty_putentryat(p)
        /\ x' = Local(x, p, 0) /\ y' = Local(y, p, 0) /\ UNCHANGED <<tty_xpos, tty_ypos, char, paper>>
    BY <1>4 DEF DeleteWrite
  <2>2. Moves(p, "args", 0, 0)
    BY <1>1, <2>1, Moved
  <2>3. /\ tty_xpos \in Columns /\ tty_ypos \in Rows /\ char[p] = " "
        /\ x[p] = tty_xpos /\ y[p] = tty_ypos
        /\ Erases(paper, tty_xpos, tty_ypos, tty_buffer)
    BY <2>1 DEF Alone, ToDo
  <2>4. tty_buffer' = Cell(tty_buffer, tty_xpos, tty_ypos, " ")
    BY <2>1, <2>3 DEF tty_putentryat, Cell
  <2>5. ToDo("args", paper', tty_xpos', tty_ypos', tty_buffer', 0, 0, char'[p])
    BY <2>1, <2>3, <2>4 DEF ToDo, Erases
  <2> QED
    BY <1>2, <2>1, <2>2, <2>5, Goes
<1> QED
  BY <1>3, <1>4

\* The first step of tty_putc.
LEMMA PutShown ==
  ASSUME TypeCore, pc \in [Printers -> Steps], NEW p \in Printers,
         PutNewline(p) \/ PutTab(p) \/ \E c \in Chars : PutChar(p, c)
  PROVE  Carries(p)
<1> SUFFICES ASSUME Alone(p), Rest(p), ~met' PROVE Alone(p)' /\ Rest(p)'
  BY DEF Carries
<1>1. "load y" \in Steps /\ "cell" \in Steps /\ x[p] \in Sizes /\ y[p] \in Sizes
  BY DEF Steps, TypeCore
<1>2. pc[p] = "idle"
  BY DEF PutNewline, PutTab, PutChar, Enter
<1>3. Sheet(paper) /\ Shows(paper, tty_xpos, tty_ypos, tty_buffer)
  BY <1>2 DEF Alone, ToDo
<1>4. CASE PutNewline(p)
  <2>1. /\ Go(p, "load y") /\ tty_xpos' = 0 /\ paper' = NewRow(paper) /\ x' = x /\ y' = y
        /\ UNCHANGED <<tty_ypos, tty_buffer, char>>
    BY <1>4 DEF PutNewline, Record, locals
  <2>2. Moves(p, "load y", x[p], y[p])
    BY <1>1, <2>1, Moved
  <2>3. tty_ypos \in Rows /\ Lined(paper, 0, tty_ypos, tty_buffer)
    BY <1>3 DEF Shows
  <2>4. Sheet(paper') /\ Turns(paper', tty_ypos, tty_buffer)
    BY <1>3, <2>1, <2>3, NewRowTurns
  <2>5. ToDo("load y", paper', tty_xpos', tty_ypos', tty_buffer', x[p], y[p], char'[p])
    BY <2>1, <2>4 DEF ToDo
  <2> QED
    BY <2>2, <2>4, <2>5, Goes
<1>5. CASE PutTab(p) \/ \E c \in Chars : PutChar(p, c)
  <2>1. /\ Go(p, "cell") /\ paper' = paper /\ x' = x /\ y' = y
        /\ UNCHANGED <<tty_xpos, tty_ypos, tty_buffer>>
    BY <1>5 DEF PutTab, PutChar, Record, globals
  <2>2. Moves(p, "cell", x[p], y[p])
    BY <1>1, <2>1, Moved
  <2>3. ToDo("cell", paper', tty_xpos', tty_ypos', tty_buffer', x[p], y[p], char'[p])
    BY <1>3, <2>1 DEF ToDo
  <2> QED
    BY <1>3, <2>1, <2>2, <2>3, Goes
<1> QED
  BY <1>4, <1>5

\* The first step of tty_deleteprev: the paper's corner is the screen's.
LEMMA DeleteShown ==
  ASSUME TypeCore, pc \in [Printers -> Steps], NEW p \in Printers, Delete(p)
  PROVE  Carries(p)
<1> SUFFICES ASSUME Alone(p), Rest(p), ~met' PROVE Alone(p)' /\ Rest(p)'
  BY DEF Carries
<1>1. "last column" \in Steps /\ "load column" \in Steps /\ x[p] \in Sizes /\ y[p] \in Sizes
  BY DEF Steps, TypeCore
<1>2. pc[p] = "idle" /\ x' = x /\ y' = y /\ UNCHANGED <<tty_xpos, tty_ypos, tty_buffer, cursor, char>>
  BY DEF Delete, Enter, locals, globals
<1>3. Sheet(paper) /\ Shows(paper, tty_xpos, tty_ypos, tty_buffer) /\ char[p] = " "
  BY <1>2 DEF Alone, ToDo
<1>4. tty_xpos \in Columns /\ tty_ypos \in Rows /\ tty_buffer \in Screens
  BY <1>3 DEF Shows, TypeCore, Screens
<1>5. CASE tty_xpos = 0 /\ tty_ypos = 0
  <2>1. pc' = pc /\ paper' = paper
    BY <1>5 DEF Delete, Record
  <2> QED
    BY <1>2, <2>1 DEF Alone, Rest, Settled
<1>6. CASE ~(tty_xpos = 0 /\ tty_ypos = 0)
  <2>1. paper # << <<>> >>
    <3>1. tty_xpos = Len(Last(paper)) /\ tty_ypos + 0 < Len(paper)
      BY <1>3 DEF Shows, Lined
    <3>2. PICK nil : nil = <<>>
      OBVIOUS
    <3>3. Last(<<nil>>) = nil /\ Len(<<nil>>) = 1 /\ Len(nil) = 0
      BY <3>2 DEF Last
    <3>4. paper = <<nil>> => tty_xpos = 0 /\ tty_ypos + 0 < 1
      BY <3>1, <3>3
    <3>5. tty_ypos + 0 < 1 => tty_ypos = 0
      BY <1>4, Numbers
    <3> QED
      BY <1>6, <3>2, <3>4, <3>5
  <2>2. paper' = Rubbed(paper)
    BY <1>6, <2>1 DEF Delete, Record
  <2>3. CASE tty_xpos = 0
    <3>1. Go(p, "last column")
      BY <1>6, <2>3 DEF Delete
    <3>2. Moves(p, "last column", x[p], y[p])
      BY <1>1, <1>2, <3>1, Moved
    <3>3. tty_ypos # 0 /\ Shows(paper, 0, tty_ypos, tty_buffer)
      BY <1>3, <1>6, <2>3
    <3>4. Sheet(paper') /\ Erases(paper', SCREEN_WIDTH - 1, tty_ypos - 1, tty_buffer)
      BY <1>3, <1>4, <2>2, <3>3, RubbedErasesAbove
    <3>5. ToDo("last column", paper', tty_xpos', tty_ypos', tty_buffer', x[p], y[p], char'[p])
      BY <1>2, <1>3, <1>4, <2>3, <3>3, <3>4 DEF ToDo
    <3> QED
      BY <3>2, <3>4, <3>5, Goes
  <2>4. CASE tty_xpos # 0
    <3>1. Go(p, "load column")
      BY <2>4 DEF Delete
    <3>2. Moves(p, "load column", x[p], y[p])
      BY <1>1, <1>2, <3>1, Moved
    <3>3. Sheet(paper') /\ Erases(paper', tty_xpos - 1, tty_ypos, tty_buffer)
      BY <1>3, <1>4, <2>2, <2>4, RubbedErases
    <3>4. ToDo("load column", paper', tty_xpos', tty_ypos', tty_buffer', x[p], y[p], char'[p])
      BY <1>2, <1>3, <1>4, <2>4, <3>3 DEF ToDo
    <3> QED
      BY <3>2, <3>3, <3>4, Goes
  <2> QED
    BY <2>3, <2>4
<1> QED
  BY <1>5, <1>6

LEMMA ClearShown ==
  ASSUME TypeCore, pc \in [Printers -> Steps], NEW p \in Printers, tty_clear(p)
  PROVE  Carries(p)
<1> SUFFICES ASSUME Alone(p), Rest(p), ~met' PROVE Alone(p)' /\ Rest(p)'
  BY DEF Carries
<1>1. "clear y" \in Steps /\ "set x" \in Steps /\ x[p] \in Sizes /\ y[p] \in Sizes
  BY DEF Steps, TypeCore
<1>2. CASE Clear(p)
  <2>1. /\ pc[p] = "idle" /\ Go(p, "clear y") /\ tty_xpos' = 0 /\ tty_buffer' = Blank
        /\ paper' = << <<>> >> /\ x' = x /\ y' = y /\ UNCHANGED char
    BY <1>2 DEF Clear, Enter, Record, locals
  <2>2. Moves(p, "clear y", x[p], y[p])
    BY <1>1, <2>1, Moved
  <2>3. x[p] = 0 /\ y[p] = 0
    BY <2>1 DEF Rest
  <2>4. Sheet(paper') /\ Shows(paper', 0, 0, Blank)
    BY <2>1, BlankShows
  <2>5. ToDo("clear y", paper', tty_xpos', tty_ypos', tty_buffer', x[p], y[p], char'[p])
    BY <2>1, <2>3, <2>4 DEF ToDo
  <2> QED
    BY <2>2, <2>4, <2>5, Goes
<1>3. CASE ClearY(p)
  <2>1. /\ pc[p] = "clear y" /\ Go(p, "set x") /\ tty_ypos' = 0
        /\ x' = x /\ y' = y /\ UNCHANGED <<tty_xpos, tty_buffer, char, paper>>
    BY <1>3 DEF ClearY, locals
  <2>2. Moves(p, "set x", x[p], y[p])
    BY <1>1, <2>1, Moved
  <2>3. Sheet(paper) /\ x[p] = 0 /\ y[p] = 0 /\ Shows(paper, 0, 0, tty_buffer)
    BY <2>1 DEF Alone, ToDo
  <2>4. ToDo("set x", paper', tty_xpos', tty_ypos', tty_buffer', x[p], y[p], char'[p])
    BY <2>1, <2>3 DEF ToDo
  <2> QED
    BY <2>1, <2>2, <2>3, <2>4, Goes
<1> QED
  BY <1>2, <1>3 DEF tty_clear

LEMMA CallShown ==
  ASSUME TypeCore, pc \in [Printers -> Steps], NEW p \in Printers,
         tty_putc(p) \/ tty_deleteprev(p) \/ tty_clear(p)
  PROVE  Carries(p)
BY CellArgsShown, LoadXShown, StoreXShown, TestXShown, WrapShown, StoreYShown, TestYShown, ScrollShown,
   LoadRowShown, StoreRowShown, CursorArgsShown, SetYShown, DeleteColumnShown, DeleteWriteShown,
   PutShown, DeleteShown, ClearShown
DEF tty_putc, tty_deleteprev

-----------------------------------------------------------------------------
(* All tasks, until calls overlap *)

\* The characters of the other tasks are theirs.
LEMMA OthersKept ==
  ASSUME NEW p \in Printers, tty_putc(p) \/ tty_deleteprev(p) \/ tty_clear(p),
         char \in [Printers -> Cells]
  PROVE  \A q \in Printers \ {p} : char'[q] = char[q]
<1>1. char' = char \/ \E c : char' = [char EXCEPT ![p] = c]
  BY DEF tty_putc, tty_deleteprev, tty_clear, PutNewline, PutTab, PutChar, CellArgs, LoadX,
         StoreX, TestX, Wrap, LoadY, StoreY, TestY, tty_scroll, LoadRow, StoreRow, CursorArgs,
         SetX, SetY, Delete, DeleteLastColumn, DeleteLoadColumn, DeleteStoreColumn, DeleteArgs,
         DeleteWrite, Clear, ClearY, locals
<1> QED
  BY <1>1

LEMMA StepShown ==
  ASSUME IInv, Shown, NEW p \in Printers, Note(Printers \ {p}),
         tty_putc(p) \/ tty_deleteprev(p) \/ tty_clear(p)
  PROVE  Shown'
<1> SUFFICES ASSUME ~met'
             PROVE  /\ \A q, r \in Printers : pc'[q] # "idle" /\ pc'[r] # "idle" => q = r
                    /\ \A q \in Printers : Rest(q)'
                    /\ \A q \in Printers : (\A r \in Printers \ {q} : pc'[r] = "idle") => Alone(q)'
                    /\ (\A q \in Printers : pc'[q] = "idle") => Settled'
  BY DEF Shown
<1>1. TypeCore /\ pc \in [Printers -> Steps]
  BY DEF IInv, TypeOK, TypeCore
<1>2. ~met /\ \A q \in Printers \ {p} : pc[q] = "idle"
  BY DEF Note
<1>3. Alone(p) /\ \A q \in Printers : Rest(q)
  BY <1>2 DEF Shown
<1>4. Alone(p)' /\ Rest(p)'
  BY <1>1, <1>3, CallShown DEF Carries
<1>5. \A q \in Printers \ {p} : pc'[q] = pc[q] /\ x'[q] = x[q] /\ y'[q] = y[q] /\ char'[q] = char[q]
  <2>1. \A q \in Printers \ {p} : pc'[q] = pc[q] /\ x'[q] = x[q] /\ y'[q] = y[q]
    BY <1>1, CallStep DEF Kept, Moves
  <2>2. \A q \in Printers \ {p} : char'[q] = char[q]
    BY <1>1, OthersKept DEF TypeCore
  <2> QED
    BY <2>1, <2>2
<1>6. \A q \in Printers \ {p} : pc'[q] = "idle" /\ x'[q] = 0 /\ y'[q] = 0 /\ char'[q] = " "
  BY <1>2, <1>3, <1>5 DEF Rest
<1>7. \A q \in Printers : Rest(q)'
  BY <1>4, <1>6 DEF Rest
<1>8. (\A q \in Printers : pc'[q] = "idle") => Settled'
  BY <1>4 DEF Alone
<1>9. ASSUME NEW q \in Printers, q # p, \A r \in Printers \ {q} : pc'[r] = "idle" PROVE Alone(q)'
  <2>1. Sheet(paper)' /\ Settled'
    BY <1>4, <1>9 DEF Alone
  <2>2. pc'[q] = "idle" /\ x'[q] = 0 /\ y'[q] = 0 /\ char'[q] = " "
    BY <1>6, <1>9
  <2>3. ToDo(pc'[q], paper', tty_xpos', tty_ypos', tty_buffer', x'[q], y'[q], char'[q])
    BY <2>1, <2>2 DEF ToDo, Settled
  <2> QED
    BY <2>1, <2>3 DEF Alone
<1> QED
  BY <1>4, <1>6, <1>7, <1>8, <1>9

LEMMA KeyPressShown ==
  ASSUME IInv, Shown, Note(Printers), isr_key_press
  PROVE  Shown'
<1> SUFFICES ASSUME ~met'
             PROVE  /\ \A p \in Printers : pc'[p] = "idle" /\ Rest(p)' /\ Alone(p)'
                    /\ Settled'
  BY DEF Shown
<1>1. /\ tty_buffer' = Blank /\ tty_xpos' = 0 /\ tty_ypos' = 0 /\ cursor' = 0 /\ paper' = << <<>> >>
      /\ UNCHANGED <<pc, x, y, char>>
  BY DEF isr_key_press, Record, locals
<1>2. ~met /\ \A p \in Printers : pc[p] = "idle" /\ Rest(p)
  BY DEF Note, Shown
<1>3. Sheet(paper') /\ Shows(paper', 0, 0, Blank)
  BY <1>1, BlankShows
<1>4. Settled'
  <2>1. 0 = 0 * SCREEN_WIDTH + 0
    BY Numbers
  <2> QED
    BY <1>1, <1>3, <2>1 DEF Settled
<1>5. ASSUME NEW p \in Printers PROVE pc'[p] = "idle" /\ Rest(p)' /\ Alone(p)'
  <2>1. pc'[p] = "idle" /\ x'[p] = 0 /\ y'[p] = 0 /\ char'[p] = " "
    BY <1>1, <1>2 DEF Rest
  <2>2. ToDo(pc'[p], paper', tty_xpos', tty_ypos', tty_buffer', x'[p], y'[p], char'[p])
    BY <1>1, <1>3, <2>1 DEF ToDo
  <2> QED
    BY <1>3, <1>4, <2>1, <2>2 DEF Rest, Alone
<1> QED
  BY <1>4, <1>5

LEMMA InitShown == Init => Shown
<1> SUFFICES ASSUME Init PROVE Shown
  OBVIOUS
<1>1. Sheet(paper) /\ Shows(paper, 0, 0, Blank)
  BY BlankShows DEF Init
<1>2. Settled
  <2>1. 0 = 0 * SCREEN_WIDTH + 0
    BY Numbers
  <2> QED
    BY <1>1, <2>1 DEF Init, Settled
<1>3. ASSUME NEW p \in Printers PROVE pc[p] = "idle" /\ Rest(p) /\ Alone(p)
  <2>1. pc[p] = "idle" /\ x[p] = 0 /\ y[p] = 0 /\ char[p] = " "
    BY DEF Init
  <2>2. ToDo(pc[p], paper, tty_xpos, tty_ypos, tty_buffer, x[p], y[p], char[p])
    BY <1>2, <2>1 DEF ToDo, Settled
  <2> QED
    BY <1>1, <1>2, <2>1, <2>2 DEF Rest, Alone
<1> QED
  BY <1>2, <1>3 DEF Shown

LEMMA NextShown == IInv /\ Shown /\ [Next]_vars => Shown'
<1>1. ASSUME IInv, Shown, Next PROVE Shown'
  BY <1>1, StepShown, KeyPressShown DEF Next
<1>2. ASSUME Shown, UNCHANGED vars PROVE Shown'
  BY <1>2 DEF Shown, Rest, Alone, Settled, vars, globals, locals, notes
<1> QED
  BY <1>1, <1>2

\* As long as no two calls overlap, the screen is the end of the endless paper,
\* whatever was printed, tabbed, scrolled, erased and cleared: the invariant says
\* of every step of a call what of the paper the screen still misses.
THEOREM ScreenIsPaper == Spec => []ScreenShowsPaper
<1>1. Shown => ScreenShowsPaper
  <2> SUFFICES ASSUME Shown, ~met, \A p \in Printers : pc[p] = "idle" PROVE ScreenShowsPaper
    BY DEF ScreenShowsPaper
  <2>1. Settled
    BY DEF Shown
  <2>2. tty_ypos \in Nat
    BY <2>1, Numbers DEF Settled, Shows
  <2>3. tty_ypos + 0 < Len(paper)
    BY <2>1 DEF Settled, Shows, Lined
  <2>4. PICK n \in Nat : n = Len(paper)
    BY <2>1 DEF Settled, Sheet
  <2>5. tty_ypos < n /\ \A r \in Rows : n - 0 - tty_ypos + r = n - tty_ypos + r
    BY <2>2, <2>3, <2>4, Numbers
  <2> QED
    BY <2>1, <2>4, <2>5 DEF Settled, Shows, Lined, ScreenShowsPaper
<1>2. Spec => [](IInv /\ Shown)
  BY InitIInv, NextIInv, InitShown, NextShown, PTL DEF Spec
<1> QED
  BY <1>1, <1>2, PTL
=============================================================================

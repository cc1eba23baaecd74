------------------------------- MODULE Kshell -------------------------------
(***************************************************************************)
(* The kernel console: kshell's loop around kb_get_key, the line editor    *)
(* and the commands, composed with the keyboard and with task_test, the    *)
(* other task that prints.                                                 *)
(*                                                                         *)
(* The console is task code with interrupts on.  It sleeps in hlt until an *)
(* interrupt, takes one key per wake-up and handles it.  The line is a     *)
(* local array that nobody else sees, so what happens to it between two    *)
(* calls is one step; a call that prints begins in one step and ends in    *)
(* another, and the interrupts and task_test come between.  What the       *)
(* terminal shows is abstracted to the cells printed since the prompt, the *)
(* last clearing or the last line of task_test; how they get onto the      *)
(* screen, and what becomes of two outputs that fall together, is Tty's.   *)
(***************************************************************************)
EXTENDS Keyboard, SequencesExt

CONSTANTS
  CmdSize,   \* sizeof(cmd) (1024)
  Commands,  \* the table: a sequence of [name, does] (7 entries)
  TabStop,   \* 8
  Prompt     \* columns of "$> " (3)

ASSUME KshellConstants ==
  /\ CmdSize \in Nat \ {0} /\ TabStop \in Nat \ {0} /\ Prompt \in Nat
  /\ Commands \in Seq([name : Seq(Keys), does : {"return", "exit", "reboot"}])
  /\ \A i \in DOMAIN Commands : Len(Commands[i].name) < CmdSize

NUL   == "0"
Space == "space"

\* The C library's classes answer 0 for yes.
isspace(key) == IF key \in {Space, "KEY_TAB", "KEY_ENTER"} THEN 0 ELSE 1
Printable    == {"l", "L", "1", "!", "-", "_", Space}
isprint(key) == IF key \in Printable THEN 0 ELSE 1

VARIABLES
  at,            \* where the console is; see Places
  cmd, cmd_len,
  len_left,      \* len of command_run
  echo,          \* cells shown since ...
  origin,        \* ... the "prompt", the "corner" after a clearing, or a new "row"
  printing,      \* task_test is inside its kprintf
  parted,        \* history: an erased tab, or an erase beyond what is in echo
  caught,        \* history: two outputs, or an output and a clearing, overlapped
  swallowed,     \* history: which of the keys taken went to kb_get_key(NULL)
  ran            \* history: the commands run

lineVars   == <<cmd, cmd_len, len_left>>
screenVars == <<echo, origin, parted, caught>>
notes      == <<swallowed, ran>>
shellVars  == <<at, lineVars, screenVars, printing, notes>>
allVars    == <<vars, shellVars>>

\* Where the console edits: "loop" is before hlt and "asleep" in it, "awake" after
\* it; "get" and "drop" are the two calls of kb_get_key, "key" and "erase" what
\* follows them.
Editing == {"loop", "asleep", "awake", "get", "key", "drop", "erase"}

\* Where it prints: inside tty_putc for a key and tty_deleteprev, in a command,
\* and in command_start.
Output == {"echo", "rub", "run", "start"}

\* command_run's loop; then the ends: cmd_exit's loop, a reset, a write below cmd.
Places == Editing \cup Output \cup {"strip", "exit", "reboot", "below"}

Empty == [i \in 0..CmdSize - 1 |-> NUL]

\* kshell begins with a banner and a prompt; task_test runs since the first tick.
ShellInit ==
  /\ Init
  /\ at = "start"
  /\ cmd = Empty /\ cmd_len = 0 /\ len_left = 0
  /\ echo = <<>> /\ origin = "row"
  /\ printing \in BOOLEAN
  /\ parted = FALSE /\ caught = printing
  /\ swallowed = {} /\ ran = <<>>

-----------------------------------------------------------------------------
(* Interrupts and the other task *)

Running == ~undefined /\ at \notin {"reboot", "below"}

\* Fault: only a key ends the sleep.
irq_timer_unnoticed == Running /\ UNCHANGED allVars

\* Every interrupt ends a hlt; the timer's keep coming.
irq_timer ==
  /\ Running /\ at = "asleep"
  /\ at' = "awake"
  /\ UNCHANGED <<vars, lineVars, screenVars, printing, notes>>

tty_clear ==
  /\ echo' = <<>> /\ origin' = "corner" /\ parted' = FALSE
  /\ caught' = (at \in Output \/ printing)

irq_keyboard(s) ==
  /\ Running
  /\ isr_key_press(s)
  /\ at' = IF at = "asleep" THEN "awake" ELSE at
  /\ IF s # E0 /\ Shortcut(decode_scancode(s)) THEN tty_clear ELSE UNCHANGED screenVars
  /\ UNCHANGED <<lineVars, printing, notes>>

\* task_test prints a line every few ticks, wherever the cursor is.
task_test_prints ==
  /\ Running /\ ~printing
  /\ printing' = TRUE
  /\ echo' = <<>> /\ origin' = "row" /\ parted' = FALSE
  /\ caught' = (caught \/ at \in Output)
  /\ UNCHANGED <<vars, at, lineVars, notes>>

task_test_printed ==
  /\ Running /\ printing
  /\ printing' = FALSE
  /\ UNCHANGED <<vars, at, lineVars, screenVars, notes>>

-----------------------------------------------------------------------------
(* The loop *)

halt ==
  /\ at = "loop"
  /\ at' = "asleep"
  /\ UNCHANGED <<vars, lineVars, screenVars, printing, notes>>

GetKey ==
  /\ at = "awake"
  /\ Call
  /\ at' = "get"
  /\ UNCHANGED <<lineVars, screenVars, printing, notes>>

\* A step of kb_get_key; the call returns true after the store, false after the
\* test of an empty buffer.
Getting ==
  /\ at \in {"get", "drop"}
  /\ kb_get_key
  /\ at' = CASE pc' # "idle"                -> at
             [] pc' = "idle" /\ at = "drop" -> "erase"
             [] pc' = "idle" /\ at = "get"  -> IF pc = "store" THEN "key" ELSE "loop"
  /\ swallowed' = IF at = "drop" /\ pc = "take" THEN swallowed \cup {Len(taken) + 1}
                  ELSE swallowed
  /\ UNCHANGED <<lineVars, screenVars, printing, ran>>

Got(key) == at = "key" /\ Last(taken).key = key

Erasing == Got("KEY_BACKSPACE") /\ cmd_len > 0

\* kb_get_key(NULL) is meant for the release code of the backspace key.
Backspace ==
  /\ Erasing
  /\ Call
  /\ at' = "drop"
  /\ UNCHANGED <<lineVars, screenVars, printing, notes>>

\* The console calls a function that prints.
Prints(place) == at' = place /\ caught' = (caught \/ printing)

\* Fault: the character is left in the array.
Erase_unzeroed ==
  /\ at = "erase"
  /\ cmd_len' = cmd_len - 1
  /\ parted' = (parted \/ cmd[cmd_len - 1] = "KEY_TAB")
  /\ Prints("rub")
  /\ UNCHANGED <<vars, cmd, len_left, echo, origin, printing, notes>>

\* A tab is one character of the line and several cells of the screen.
Erase ==
  /\ at = "erase"
  /\ cmd' = [cmd EXCEPT ![cmd_len - 1] = NUL]
  /\ cmd_len' = cmd_len - 1
  /\ parted' = (parted \/ cmd[cmd_len - 1] = "KEY_TAB")
  /\ Prints("rub")
  /\ UNCHANGED <<vars, len_left, echo, origin, printing, notes>>

\* Fault: the screen keeps the character.
tty_deleteprev_missing ==
  /\ at = "rub"
  /\ at' = "loop"
  /\ UNCHANGED <<vars, lineVars, screenVars, printing, notes>>

\* Nothing is left of the corner; left of a row is the end of the one above.
tty_deleteprev ==
  /\ at = "rub"
  /\ echo' = IF echo = <<>> THEN echo ELSE Front(echo)
  /\ parted' = (parted \/ (echo = <<>> /\ origin = "row"))
  /\ at' = "loop"
  /\ UNCHANGED <<vars, lineVars, origin, caught, printing, notes>>

Insert ==
  LET key == Last(taken).key IN
  /\ at = "key" /\ ~Erasing /\ key # "KEY_ENTER"
  /\ isprint(key) = 0 \/ isspace(key) = 0
  /\ \/ /\ cmd_len >= CmdSize
        /\ at' = "loop"
        /\ UNCHANGED <<cmd, cmd_len, caught>>
     \/ /\ cmd_len < CmdSize
        /\ cmd' = [cmd EXCEPT ![cmd_len] = key]
        /\ cmd_len' = cmd_len + 1
        /\ Prints("echo")
  /\ UNCHANGED <<vars, len_left, echo, origin, parted, printing, notes>>

\* Everything else: release codes, and a backspace on an empty line.
Ignore ==
  LET key == Last(taken).key IN
  /\ at = "key" /\ ~Erasing /\ key # "KEY_ENTER"
  /\ isprint(key) # 0 /\ isspace(key) # 0
  /\ at' = "loop"
  /\ UNCHANGED <<vars, lineVars, screenVars, printing, notes>>

Enter ==
  /\ Got("KEY_ENTER")
  /\ Prints("echo")
  /\ UNCHANGED <<vars, lineVars, echo, origin, parted, printing, notes>>

\* The cells of a character: a tab is printed as blanks up to the next tab stop.
Shown(cells, base, key) ==
  IF key = "KEY_TAB"
  THEN cells \o [i \in 1..TabStop - ((base + Len(cells)) % TabStop) |-> Space]
  ELSE Append(cells, key)

Column == IF origin = "prompt" THEN Prompt ELSE 0

\* tty_putc returns: the key is on the screen; after enter comes command_run.
tty_putc ==
  LET key == Last(taken).key IN
  /\ at = "echo"
  /\ \/ /\ key # "KEY_ENTER"
        /\ echo' = Shown(echo, Column, key)
        /\ at' = "loop"
        /\ UNCHANGED <<len_left, origin, parted>>
     \/ /\ key = "KEY_ENTER"
        /\ echo' = <<>> /\ origin' = "row" /\ parted' = FALSE
        /\ len_left' = cmd_len
        /\ at' = "strip"
  /\ UNCHANGED <<vars, cmd, cmd_len, caught, printing, notes>>

-----------------------------------------------------------------------------
(* Commands *)

\* Fault: the class is taken for a yes.
Strip_inverted ==
  /\ at = "strip"
  /\ \/ /\ len_left > 0 /\ isspace(cmd[len_left - 1]) # 0
        /\ cmd' = [cmd EXCEPT ![len_left - 1] = NUL]
        /\ len_left' = len_left - 1
        /\ UNCHANGED <<at, caught>>
     \/ /\ len_left > 0 => isspace(cmd[len_left - 1]) = 0
        /\ Prints("run")
        /\ UNCHANGED <<cmd, len_left>>
     \/ /\ len_left = 0
        /\ at' = "below"
        /\ UNCHANGED <<cmd, len_left, caught>>
  /\ UNCHANGED <<vars, cmd_len, echo, origin, parted, printing, notes>>

\* One test of the loop that overwrites the blanks at the end.  It does not stop
\* at the start of cmd: with nothing left it tests the byte below, and goes on
\* writing there if that happens to be a blank.
Strip ==
  /\ at = "strip"
  /\ \/ /\ len_left > 0 /\ isspace(cmd[len_left - 1]) = 0
        /\ cmd' = [cmd EXCEPT ![len_left - 1] = NUL]
        /\ len_left' = len_left - 1
        /\ UNCHANGED <<at, caught>>
     \/ /\ len_left > 0 => isspace(cmd[len_left - 1]) # 0
        /\ Prints("run")
        /\ UNCHANGED <<cmd, len_left>>
     \/ /\ len_left = 0
        /\ at' = "below"
        /\ UNCHANGED <<cmd, len_left, caught>>
  /\ UNCHANGED <<vars, cmd_len, echo, origin, parted, printing, notes>>

\* What strcmp reads of cmd; a full line has no 0, but a name ends before it.
String ==
  LET ends == {i \in 0..CmdSize : i < CmdSize => cmd[i] = NUL}
  IN  [i \in 1..Min(ends) |-> cmd[i - 1]]

\* The first entry of the table whose name strcmp finds equal.
Lookup(name) ==
  LET match == {i \in DOMAIN Commands : Commands[i].name = name} IN
  IF match = {} THEN "return" ELSE Commands[Min(match)].does

\* The rest of command_run and, if the command returns, of the branch.
command_run ==
  /\ at = "run"
  /\ ran' = Append(ran, String)
  /\ \/ /\ Lookup(String) = "return"
        /\ cmd' = Empty /\ cmd_len' = 0 /\ len_left' = 0
        /\ at' = "start"
     \/ /\ Lookup(String) # "return"
        /\ at' = Lookup(String)
        /\ UNCHANGED lineVars
  /\ UNCHANGED <<vars, screenVars, printing, swallowed>>

command_start ==
  /\ at = "start"
  /\ echo' = <<>> /\ origin' = "prompt" /\ parted' = FALSE
  /\ at' = "loop"
  /\ UNCHANGED <<vars, lineVars, caught, printing, notes>>

kshell ==
  /\ ~undefined
  /\ \/ halt \/ GetKey \/ Getting \/ Backspace \/ Erase \/ tty_deleteprev
     \/ Insert \/ Ignore \/ Enter \/ tty_putc \/ Strip \/ command_run \/ command_start

Halted == ~Running /\ UNCHANGED allVars

ShellNext ==
  \/ irq_timer \/ (\E s \in Scancodes : irq_keyboard(s))
  \/ task_test_prints \/ task_test_printed \/ kshell \/ Halted

ShellSpec == ShellInit /\ [][ShellNext]_allVars

\* The timer is periodic, and the scheduler keeps giving the console the
\* processor.
FairShellSpec == ShellSpec /\ WF_allVars(irq_timer) /\ WF_allVars(kshell)

-----------------------------------------------------------------------------
(* Properties *)

ShellTypeOK ==
  /\ at \in Places
  /\ cmd \in [0..CmdSize - 1 -> Keys] /\ cmd_len \in 0..CmdSize /\ len_left \in 0..CmdSize
  /\ echo \in Seq(Keys) /\ origin \in {"prompt", "corner", "row"}
  /\ printing \in BOOLEAN /\ parted \in BOOLEAN /\ caught \in BOOLEAN
  /\ swallowed \in SUBSET (DOMAIN taken)
  /\ ran \in Seq(Seq(Keys))

Line     == [i \in 1..cmd_len |-> cmd[i - 1]]
Blank(s) == \A i \in DOMAIN s : isspace(s[i]) = 0
Stripped(s) ==
  CHOOSE p \in Prefixes(s) : /\ \A i \in Len(p) + 1..Len(s) : isspace(s[i]) = 0
                             /\ p = <<>> \/ isspace(Last(p)) # 0

\* An editor in one line: what it makes of a key.
Edited(ed, key) ==
  CASE key = "KEY_BACKSPACE" /\ ed.line # <<>> -> [ed EXCEPT !.line = Front(@)]
    [] key = "KEY_ENTER" -> [line |-> <<>>, ran |-> Append(ed.ran, Stripped(ed.line))]
    [] key \in Printable \cup {"KEY_TAB"} /\ Len(ed.line) < CmdSize
         -> [ed EXCEPT !.line = Append(@, key)]
    [] OTHER -> ed

\* What it makes of the keys taken so far, those swallowed apart.
edits[i \in 0..Len(taken)] ==
  IF i = 0 THEN [line |-> <<>>, ran |-> <<>>]
  ELSE IF i \in swallowed THEN edits[i - 1]
  ELSE Edited(edits[i - 1], taken[i].key)

\* Whatever is typed ahead, the line and the commands run are what editing the
\* keys gives, with one exception: the key that was waiting when a backspace was
\* handled is lost, be it a character, enter or another backspace.  Behind the
\* line the array is zero.
EditsAsTyped ==
  at \in {"loop", "asleep", "awake"} =>
    /\ Line = edits[Len(taken)].line /\ ran = edits[Len(taken)].ran
    /\ \A i \in cmd_len..CmdSize - 1 : cmd[i] = NUL

Rendered(s, base) ==
  LET shown[k \in 0..Len(s)] == IF k = 0 THEN <<>> ELSE Shown(shown[k - 1], base, s[k])
  IN  shown[Len(s)]

\* Between two outputs the screen shows the line behind the prompt, or the end
\* of the line once ctrl-l or a line of task_test has separated it from the
\* prompt; an erased character never takes the prompt with it.  What can leave
\* line and screen apart: a tab erased, or an erase at the start of a row, until
\* the next prompt, row or clearing; and, until the next undisturbed ctrl-l, two
\* tasks that print at once or a ctrl-l in the middle of an output.
EchoesLine ==
  at \in Editing /\ ~printing /\ ~parted /\ ~caught =>
    \E s \in Suffixes(Line) : /\ echo = Rendered(s, Column)
                              /\ origin = "prompt" => s = Line

\* The loop in command_run takes the blanks at the end of the line as it was
\* typed and nothing else, whatever interrupts come between its tests: when it
\* stops, len counts what is left and the array is zero behind it; it runs on
\* below the array only if there was nothing but blanks.
StripsLine ==
  LET typed == edits[Len(taken) - 1].line IN
  /\ at = "run" => /\ [i \in 1..len_left |-> cmd[i - 1]] = Stripped(typed)
                   /\ \A i \in len_left..CmdSize - 1 : cmd[i] = NUL
  /\ at = "below" => Blank(typed)

\* A key typed while the console is going to sleep is not forgotten: the console
\* catches up, and again and again there is no key left that was queued and not
\* taken, unless an interrupted keyboard.len-- has hidden one, or the console has
\* come to an end.
KeysConsumed ==
  []<>(Len(taken) = Len(queued) \/ lost > 0 \/ at = "exit" \/ ~Running)
=============================================================================

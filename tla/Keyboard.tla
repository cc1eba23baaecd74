------------------------------ MODULE Keyboard ------------------------------
(***************************************************************************)
(* The PS/2 keyboard: the interrupt handler that decodes scan codes and    *)
(* queues keys, and kb_get_key, which takes them out.                      *)
(*                                                                         *)
(* The handler runs with interrupts off and is one action.  kb_get_key is  *)
(* task code with interrupts on: the handler may run between any two of    *)
(* its accesses to the shared struct.  The kernel is compiled without      *)
(* optimisation, so `keyboard.len--' is a load and a store.  head and the  *)
(* slot it names are the reader's alone, so copying the key and advancing  *)
(* head are one step.                                                      *)
(***************************************************************************)
EXTENDS Integers, Sequences

CONSTANTS
  Capacity,   \* elements of keyboard.buff (4096)
  KeyBytes,   \* sizeof(struct key) (8)
  Scancodes   \* scan codes the keyboard sends

\* sizeof(keyboard.buff): a number of bytes that the code uses as the number of
\* elements.
SizeofBuff == Capacity * KeyBytes

\* One entry of ps2_layout for each way the handler and the console treat a code:
\* a letter, codes whose two entries differ, the space, the keys that edit a
\* line, the modifiers, one that is dropped, and a release code without an entry,
\* which reads as 0.
unshift == [l |-> "l", one |-> "1", dash |-> "-", space |-> "space", tab |-> "KEY_TAB",
            enter |-> "KEY_ENTER", backspace |-> "KEY_BACKSPACE",
            shift |-> "KEY_SHIFT", shift_up |-> "KEY_SHIFT_RELEASE",
            ctrl |-> "KEY_CTRL", ctrl_up |-> "KEY_CTRL_RELEASE",
            alt |-> "KEY_ALT", alt_up |-> "KEY_ALT_RELEASE",
            caps |-> "KEY_CAPSLOCK", delete |-> "KEY_DELETE", l_up |-> "0"]
shift   == [unshift EXCEPT !.l = "L", !.one = "!", !.dash = "_"]

Codes    == DOMAIN unshift
Keys     == {unshift[s] : s \in Codes} \cup {shift[s] : s \in Codes}
E0       == "e0"

ASSUME KeyboardConstants ==
  /\ Capacity \in Nat \ {0} /\ KeyBytes \in Nat \ {0, 1}
  /\ Scancodes \subseteq Codes \cup {E0}

isalpha(key) == key \in {"l", "L"}

Modifiers == {"shift", "alt", "ctrl", "caps"}
KeyState  == [Modifiers -> 0..1]
Key       == [key : Keys, state : KeyState]
Released  == [m \in Modifiers |-> 0]
Zero      == [key |-> "0", state |-> Released]

VARIABLES
  len, head, tail, buff,  \* struct keyboard
  kb_state,
  pc,         \* of kb_get_key: "idle" (not called), "test", "take", "load", "store"
  reg,        \* the copy of len that kb_get_key will decrement and store
  undefined,  \* a key was written past the end of buff
  queued,     \* history: keys add_key accepted
  taken,      \* history: keys kb_get_key took out
  lost        \* history: increments of len that the reader's store undid

vars == <<len, head, tail, buff, kb_state, pc, reg, undefined, queued, taken, lost>>

Init ==
  /\ len = 0 /\ head = 0 /\ tail = 0
  /\ buff = [i \in 0..Capacity - 1 |-> Zero]
  /\ kb_state = Released
  /\ pc = "idle" /\ reg = 0
  /\ undefined = FALSE
  /\ queued = <<>> /\ taken = <<>> /\ lost = 0

-----------------------------------------------------------------------------
(* The interrupt handler *)

decode_scancode(s) ==
  LET up == IF isalpha(shift[s]) THEN kb_state.shift # kb_state.caps
            ELSE kb_state.shift = 1
  IN  IF up THEN shift[s] ELSE unshift[s]

\* Fault: tail stays where it is.
add_key_in_place(key) ==
  LET new == [key |-> key, state |-> kb_state] IN
  /\ len' = len + 1
  /\ buff' = [buff EXCEPT ![tail] = new]
  /\ queued' = Append(queued, new)
  /\ UNCHANGED <<head, tail, undefined>>

\* Past the end of buff lie len, head and tail themselves: the first write
\* there leaves nothing to say about the buffer, and the model stops.
add_key(key) ==
  LET new == [key |-> key, state |-> kb_state] IN
  IF len >= SizeofBuff THEN UNCHANGED <<len, head, tail, buff, queued, undefined>>
  ELSE \/ /\ tail < Capacity
          /\ len' = len + 1
          /\ buff' = [buff EXCEPT ![tail] = new]
          /\ tail' = (tail + 1) % SizeofBuff
          /\ queued' = Append(queued, new)
          /\ UNCHANGED <<head, undefined>>
       \/ /\ tail >= Capacity
          /\ undefined' = TRUE
          /\ queued' = Append(queued, new)
          /\ UNCHANGED <<len, head, tail, buff>>

\* The state after a key that switches a modifier.
Switched(key) ==
  CASE key = "KEY_SHIFT"         -> [kb_state EXCEPT !.shift = 1]
    [] key = "KEY_SHIFT_RELEASE" -> [kb_state EXCEPT !.shift = 0]
    [] key = "KEY_CAPSLOCK"      -> [kb_state EXCEPT !.caps = 1 - @]
    [] key = "KEY_CTRL"          -> [kb_state EXCEPT !.ctrl = 1]
    [] key = "KEY_CTRL_RELEASE"  -> [kb_state EXCEPT !.ctrl = 0]
    [] key = "KEY_ALT"           -> [kb_state EXCEPT !.alt = 1]
    [] key = "KEY_ALT_RELEASE"   -> [kb_state EXCEPT !.alt = 0]
    [] OTHER                     -> kb_state

Unqueued == {"KEY_SHIFT", "KEY_SHIFT_RELEASE", "KEY_CAPSLOCK", "KEY_CTRL",
             "KEY_CTRL_RELEASE", "KEY_ALT", "KEY_ALT_RELEASE", "KEY_DELETE"}

Shortcut(key) == key = "l" /\ kb_state.ctrl = 1   \* clears the screen

isr_key_press(s) ==
  /\ ~undefined
  /\ \/ /\ s = E0
        /\ UNCHANGED <<len, head, tail, buff, kb_state, undefined, queued>>
     \/ /\ s # E0
        /\ LET key == decode_scancode(s) IN
           \/ /\ Shortcut(key) \/ key \in Unqueued
              /\ kb_state' = Switched(key)
              /\ UNCHANGED <<len, head, tail, buff, undefined, queued>>
           \/ /\ ~Shortcut(key) /\ key \notin Unqueued
              /\ add_key(key)
              /\ UNCHANGED kb_state
  /\ UNCHANGED <<pc, reg, taken, lost>>

-----------------------------------------------------------------------------
(* kb_get_key, called by the console again and again *)

Call ==
  /\ pc = "idle" /\ ~undefined
  /\ pc' = "test"
  /\ UNCHANGED <<len, head, tail, buff, kb_state, reg, undefined, queued, taken, lost>>

Test ==
  /\ pc = "test" /\ ~undefined
  /\ pc' = IF len = 0 THEN "idle" ELSE "take"
  /\ UNCHANGED <<len, head, tail, buff, kb_state, reg, undefined, queued, taken, lost>>

\* Fault: the key is read at the slot after head.
TakeAfterAdvance ==
  /\ pc = "take" /\ ~undefined
  /\ head' = (head + 1) % SizeofBuff
  /\ taken' = Append(taken, buff[(head + 1) % Capacity])
  /\ pc' = "load"
  /\ UNCHANGED <<len, tail, buff, kb_state, reg, undefined, queued, lost>>

Take ==
  /\ pc = "take" /\ ~undefined
  /\ taken' = Append(taken, buff[head])
  /\ head' = (head + 1) % SizeofBuff
  /\ pc' = "load"
  /\ UNCHANGED <<len, tail, buff, kb_state, reg, undefined, queued, lost>>

Load ==
  /\ pc = "load" /\ ~undefined
  /\ reg' = len
  /\ pc' = "store"
  /\ UNCHANGED <<len, head, tail, buff, kb_state, undefined, queued, taken, lost>>

\* Fault: the decremented length is not stored.
StoreMissing ==
  /\ pc = "store" /\ ~undefined
  /\ pc' = "idle" /\ reg' = 0
  /\ UNCHANGED <<len, head, tail, buff, kb_state, undefined, queued, taken, lost>>

Store ==
  /\ pc = "store" /\ ~undefined
  /\ len' = reg - 1
  /\ lost' = lost + (len - reg)
  /\ pc' = "idle" /\ reg' = 0
  /\ UNCHANGED <<head, tail, buff, kb_state, undefined, queued, taken>>

kb_get_key == Test \/ Take \/ Load \/ Store

Stopped == undefined /\ UNCHANGED vars

Next == (\E s \in Scancodes : isr_key_press(s)) \/ Call \/ kb_get_key \/ Stopped

Spec == Init /\ [][Next]_vars

-----------------------------------------------------------------------------
(* Properties *)

TypeOK ==
  /\ len \in 0..SizeofBuff /\ tail \in 0..Capacity /\ head \in 0..Capacity
  /\ buff \in [0..Capacity - 1 -> Key]
  /\ kb_state \in KeyState
  /\ pc \in {"idle", "test", "take", "load", "store"}
  /\ reg \in 0..SizeofBuff
  /\ undefined \in BOOLEAN
  /\ queued \in Seq(Key) /\ taken \in Seq(Key) /\ lost \in Nat

\* However the handler interrupts kb_get_key, the console gets the keys in the
\* order they were pressed, none twice and none that was never queued.
FirstInFirstOut ==
  /\ Len(taken) <= Len(queued)
  /\ \A i \in 1..Len(taken) : taken[i] = queued[i]

\* keyboard.len is the number of keys waiting, less the increments that a
\* `keyboard.len--' interrupted between its load and its store has undone: each
\* strands one key until a later one is typed.  Nothing else makes it drift.
LenAccounting ==
  ~undefined =>
    len = Len(queued) - Len(taken) - lost + (IF pc \in {"load", "store"} THEN 1 ELSE 0)

\* The end of buff is overrun by key Capacity + 1 after boot, no sooner, and no
\* matter how many of the keys have been taken out: head and tail never wrap.
OverrunAfterCapacity == undefined <=> Len(queued) > Capacity
=============================================================================

--------------------------- MODULE ConsoleProofs ---------------------------
(***************************************************************************)
(* Proofs about Keyboard, for every capacity, size of a key and set of     *)
(* scan codes, and about Kshell, which composes the console with it, for   *)
(* every length of the line and every table of commands.                   *)
(***************************************************************************)
EXTENDS Kshell, WellFoundedInduction, TLAPS

-----------------------------------------------------------------------------
(* The keyboard: the inductive invariant *)

\* Until the overrun the indices count the keys: neither has ever wrapped.
IndicesCount ==
  ~undefined => /\ head = Len(taken) /\ tail = Len(queued)
                /\ Len(queued) <= Capacity

\* Every slot written still holds the key that was put there.
SlotsKept == \A i \in 1..Len(queued) : i <= Capacity => buff[i - 1] = queued[i]

\* Past the test, there is a key to take; the copy of len that will be stored
\* back is not more than len, because meanwhile len only grows.
ReaderEntitled ==
  /\ pc \in {"take", "load"} => len >= 1
  /\ pc = "store" => reg >= 1 /\ reg <= len

Overrun == undefined => Len(queued) = Capacity + 1

IInv == /\ TypeOK /\ IndicesCount /\ SlotsKept /\ ReaderEntitled /\ Overrun
        /\ FirstInFirstOut /\ LenAccounting

-----------------------------------------------------------------------------
(* The keyboard: lemmas *)

\* The indices wrap far beyond the end of the buffer.
LEMMA BuffIsShorter == SizeofBuff \in Nat /\ Capacity + 1 <= SizeofBuff
<1>1. Capacity * KeyBytes >= Capacity * 2
  BY KeyboardConstants, SMT
<1> QED
  BY <1>1, KeyboardConstants, SMT DEF SizeofBuff

LEMMA NoWrap ==
  ASSUME NEW i \in Nat, i < Capacity
  PROVE  (i + 1) % SizeofBuff = IF i + 1 = SizeofBuff THEN 0 ELSE i + 1
BY BuffIsShorter, KeyboardConstants, SMT

\* What the handler makes of a scan code is a key.
LEMMA DecodedType ==
  ASSUME NEW s \in Codes PROVE decode_scancode(s) \in Keys
BY DEF decode_scancode, Keys

LEMMA SwitchedType ==
  ASSUME kb_state \in KeyState, NEW key PROVE Switched(key) \in KeyState
BY DEF Switched, KeyState, Modifiers

\* Taking a key out leaves what is queued in the order it came.
LEMMA AppendPrefix ==
  ASSUME NEW S, NEW q \in Seq(S), NEW x \in S
  PROVE  /\ Append(q, x) \in Seq(S)
         /\ Len(Append(q, x)) = Len(q) + 1
         /\ \A i \in 1..Len(q) : Append(q, x)[i] = q[i]
         /\ Append(q, x)[Len(q) + 1] = x
OBVIOUS

-----------------------------------------------------------------------------
(* The keyboard: Init and every step *)

LEMMA InitIInv == Init => IInv
<1> SUFFICES ASSUME Init PROVE IInv
  OBVIOUS
<1>1. Zero \in Key
  <2>1. "0" \in Keys
    BY DEF Keys, Codes, unshift
  <2> QED
    BY <2>1 DEF Zero, Key, Released, KeyState
<1>2. TypeOK
  BY <1>1, BuffIsShorter, KeyboardConstants DEF Init, TypeOK, KeyState, Released
<1> QED
  BY <1>2, KeyboardConstants
  DEF Init, IInv, IndicesCount, SlotsKept, ReaderEntitled, Overrun,
      FirstInFirstOut, LenAccounting

\* The handler queues a key: the new one is behind all others, nothing that
\* waits is touched, and the reader's view of len is at most too small.
LEMMA AddKeyIInv ==
  ASSUME IInv, ~undefined, NEW key \in Keys, add_key(key),
         UNCHANGED <<kb_state, pc, reg, taken, lost>>
  PROVE  IInv'
<1> DEFINE
  new    == [key |-> key, state |-> kb_state]
  Inside == /\ len < SizeofBuff /\ tail < Capacity
            /\ len' = len + 1
            /\ buff' = [buff EXCEPT ![tail] = new]
            /\ tail' = (tail + 1) % SizeofBuff
            /\ queued' = Append(queued, new)
            /\ UNCHANGED <<head, undefined>>
  Past   == /\ len < SizeofBuff /\ tail >= Capacity
            /\ undefined' = TRUE
            /\ queued' = Append(queued, new)
            /\ UNCHANGED <<len, head, tail, buff>>
<1> USE KeyboardConstants, BuffIsShorter DEF IInv
<1>1. new \in Key
  BY DEF TypeOK, Key
<1>2. CASE len >= SizeofBuff
  BY <1>2 DEF add_key, TypeOK, IndicesCount, SlotsKept, ReaderEntitled, Overrun,
              FirstInFirstOut, LenAccounting
<1>3. CASE Inside
  <2>1. tail' = tail + 1 /\ tail' \in 0..Capacity
    <3>1. tail \in Nat
      BY DEF TypeOK
    <3> QED
      BY <1>3, <3>1, NoWrap
  <2>2. /\ queued' \in Seq(Key) /\ Len(queued') = Len(queued) + 1
        /\ \A i \in 1..Len(queued) : queued'[i] = queued[i]
        /\ queued'[Len(queued) + 1] = new
    BY <1>1, <1>3, AppendPrefix DEF TypeOK
  <2>3. tail = Len(queued) /\ Len(queued) \in Nat /\ Len(taken) \in Nat
    BY DEF TypeOK, IndicesCount
  <2>4. TypeOK'
    BY <1>1, <1>3, <2>1, <2>2 DEF TypeOK
  <2>5. SlotsKept'
    BY <1>3, <2>1, <2>2, <2>3 DEF SlotsKept, TypeOK, IndicesCount
  <2>6. FirstInFirstOut'
    BY <2>2, <2>3 DEF FirstInFirstOut
  <2>7. IndicesCount' /\ Overrun'
    BY <1>3, <2>1, <2>2, <2>3 DEF IndicesCount, Overrun
  <2>8. ReaderEntitled' /\ LenAccounting'
    <3>1. len' = len + 1 /\ UNCHANGED <<pc, reg, taken, lost, undefined>>
      BY <1>3
    <3>2. len \in Nat /\ reg \in Nat /\ lost \in Nat
      BY DEF TypeOK
    <3> QED
      BY <2>2, <2>3, <3>1, <3>2 DEF ReaderEntitled, LenAccounting
  <2> QED
    BY <2>4, <2>5, <2>6, <2>7, <2>8
<1>4. CASE Past
  <2>1. /\ queued' \in Seq(Key) /\ Len(queued') = Len(queued) + 1
        /\ \A i \in 1..Len(queued) : queued'[i] = queued[i]
    BY <1>1, <1>4, AppendPrefix DEF TypeOK
  <2>2. Len(queued) = Capacity /\ Len(taken) \in Nat
    BY <1>4 DEF TypeOK, IndicesCount
  <2>3. TypeOK'
    BY <1>4, <2>1 DEF TypeOK
  <2>4. SlotsKept' /\ FirstInFirstOut'
    BY <1>4, <2>1, <2>2 DEF SlotsKept, FirstInFirstOut
  <2> QED
    BY <1>4, <2>1, <2>2, <2>3, <2>4
    DEF IndicesCount, ReaderEntitled, Overrun, LenAccounting
<1>5. len >= SizeofBuff \/ Inside \/ Past
  <2>1. len \in Nat
    BY DEF TypeOK
  <2> QED
    BY <2>1 DEF add_key
<1> HIDE DEF IInv, Inside, Past
<1> QED
  BY <1>2, <1>3, <1>4, <1>5

LEMMA HandlerIInv ==
  ASSUME IInv, NEW s \in Scancodes, isr_key_press(s)
  PROVE  IInv'
<1>1. ~undefined /\ UNCHANGED <<pc, reg, taken, lost>>
  BY DEF isr_key_press
<1>2. CASE UNCHANGED <<len, head, tail, buff, undefined, queued>> /\ kb_state' \in KeyState
  BY <1>1, <1>2 DEF IInv, TypeOK, IndicesCount, SlotsKept, ReaderEntitled, Overrun,
                    FirstInFirstOut, LenAccounting
<1>3. CASE s = E0 /\ UNCHANGED <<len, head, tail, buff, kb_state, undefined, queued>>
  BY <1>2, <1>3 DEF IInv, TypeOK
<1>4. CASE s # E0
  <2> DEFINE key == decode_scancode(s)
  <2>1. key \in Keys
    BY <1>4, KeyboardConstants, DecodedType
  <2>2. CASE kb_state' = Switched(key) /\ UNCHANGED <<len, head, tail, buff, undefined, queued>>
    BY <1>2, <2>2, SwitchedType DEF IInv, TypeOK
  <2>3. CASE add_key(key) /\ UNCHANGED kb_state
    BY <1>1, <2>1, <2>3, AddKeyIInv
  <2> QED
    BY <1>4, <2>2, <2>3 DEF isr_key_press
<1> QED
  BY <1>3, <1>4 DEF isr_key_press

\* A step of kb_get_key, or the call of it.
LEMMA ReaderIInv ==
  ASSUME IInv, Call \/ kb_get_key
  PROVE  IInv'
<1> USE KeyboardConstants, BuffIsShorter DEF IInv
<1>1. CASE Call
  BY <1>1 DEF Call, TypeOK, IndicesCount, SlotsKept, ReaderEntitled, Overrun,
              FirstInFirstOut, LenAccounting
<1>2. CASE Test
  BY <1>2 DEF Test, TypeOK, IndicesCount, SlotsKept, ReaderEntitled, Overrun,
              FirstInFirstOut, LenAccounting
<1>3. CASE Take
  <2>1. /\ Len(queued) \in Nat /\ Len(taken) \in Nat /\ head = Len(taken)
        /\ Len(taken) < Len(queued) /\ Len(queued) <= Capacity /\ ~undefined
    BY <1>3 DEF Take, TypeOK, IndicesCount, ReaderEntitled, LenAccounting
  <2>2. buff[head] = queued[head + 1] /\ buff[head] \in Key
    BY <2>1 DEF SlotsKept, TypeOK
  <2>3. /\ taken' \in Seq(Key) /\ Len(taken') = Len(taken) + 1
        /\ \A i \in 1..Len(taken) : taken'[i] = taken[i]
        /\ taken'[Len(taken) + 1] = buff[head]
    BY <1>3, <2>2, AppendPrefix DEF Take, TypeOK
  <2>4. head' = head + 1
    BY <1>3, <2>1, NoWrap DEF Take
  <2>5. TypeOK'
    <3>1. UNCHANGED <<len, tail, buff, kb_state, reg, undefined, queued, lost>> /\ pc' = "load"
      BY <1>3 DEF Take
    <3>2. head' \in 0..Capacity
      BY <2>1, <2>4
    <3> QED
      BY <2>3, <3>1, <3>2 DEF TypeOK
  <2>6. FirstInFirstOut'
    BY <1>3, <2>1, <2>2, <2>3 DEF Take, FirstInFirstOut
  <2>7. IndicesCount' /\ SlotsKept' /\ Overrun'
    BY <1>3, <2>1, <2>3, <2>4 DEF Take, IndicesCount, SlotsKept, Overrun
  <2>8. ReaderEntitled' /\ LenAccounting'
    <3>1. /\ UNCHANGED <<len, queued, lost, undefined>> /\ pc = "take" /\ pc' = "load"
          /\ Len(taken') = Len(taken) + 1
      BY <1>3, <2>3 DEF Take
    <3>2. Len(taken) \in Nat /\ Len(queued) \in Nat /\ lost \in Nat
      BY <2>1 DEF TypeOK
    <3>3. ReaderEntitled'
      BY <2>1, <3>1, <3>2 DEF ReaderEntitled
    <3>4. LenAccounting'
      BY <3>1, <3>2 DEF LenAccounting
    <3> QED
      BY <3>3, <3>4
  <2> QED
    BY <2>5, <2>6, <2>7, <2>8
<1>4. CASE Load
  BY <1>4 DEF Load, TypeOK, IndicesCount, SlotsKept, ReaderEntitled, Overrun,
              FirstInFirstOut, LenAccounting
<1>5. CASE Store
  <2>1. Len(queued) \in Nat /\ Len(taken) \in Nat
    BY DEF TypeOK
  <2>2. TypeOK'
    BY <1>5 DEF Store, TypeOK, ReaderEntitled
  <2>3. LenAccounting' /\ ReaderEntitled'
    BY <1>5, <2>1 DEF Store, TypeOK, LenAccounting, ReaderEntitled
  <2> QED
    BY <1>5, <2>2, <2>3
    DEF Store, IndicesCount, SlotsKept, Overrun, FirstInFirstOut
<1> QED
  BY <1>1, <1>2, <1>3, <1>4, <1>5 DEF kb_get_key

LEMMA NextIInv == IInv /\ [Next]_vars => IInv'
<1> SUFFICES ASSUME IInv, [Next]_vars PROVE IInv'
  OBVIOUS
<1>1. CASE UNCHANGED vars
  BY <1>1 DEF vars, IInv, TypeOK, IndicesCount, SlotsKept, ReaderEntitled, Overrun,
              FirstInFirstOut, LenAccounting
<1> QED
  BY <1>1, HandlerIInv, ReaderIInv DEF Next, Stopped

-----------------------------------------------------------------------------
(* The keyboard: the theorems *)

\* The strengthened invariant holds in every reachable state.
THEOREM Invariant == Spec => []IInv
BY InitIInv, NextIInv, PTL DEF Spec

\* Type correctness: neither index ever leaves the buffer's slots by more than
\* the one that the overrun uses, and len is never negative.
THEOREM TypeCorrect == Spec => []TypeOK
<1>1. IInv => TypeOK
  BY DEF IInv
<1> QED
  BY <1>1, Invariant, PTL

\* Whenever isr_key_press interrupts kb_get_key, keys leave the buffer in the
\* order they entered it, each once.
THEOREM InOrder == Spec => []FirstInFirstOut
<1>1. IInv => FirstInFirstOut
  BY DEF IInv
<1> QED
  BY <1>1, Invariant, PTL

\* keyboard.len is wrong by the updates that the interrupted decrement has
\* undone and by nothing else.
THEOREM LenDrift == Spec => []LenAccounting
<1>1. IInv => LenAccounting
  BY DEF IInv
<1> QED
  BY <1>1, Invariant, PTL

\* For every capacity: the key that is written past the end of buff is the one
\* after the first Capacity keys, whatever was taken out in between.
THEOREM Overruns == Spec => []OverrunAfterCapacity
<1>1. IInv => OverrunAfterCapacity
  BY KeyboardConstants DEF IInv, OverrunAfterCapacity, Overrun, IndicesCount, TypeOK
<1> QED
  BY <1>1, Invariant, PTL
-----------------------------------------------------------------------------
(* The console: the inductive invariant *)

\* kb_get_key is running exactly while the console waits for it to return.
Waiting == at \in {"get", "drop"} <=> pc # "idle"

\* A key that is handled has been taken out, and not for a backspace; the one
\* that a command is run for is enter.
KeyTaken ==
  /\ \/ at = "get" /\ pc \in {"load", "store"}
     \/ at \in {"key", "echo", "strip", "run", "below"}
     => taken # <<>> /\ Len(taken) \notin swallowed
  /\ at \in {"strip", "run", "below"} => Last(taken).key = "KEY_ENTER"

\* While the second call of kb_get_key goes on the line stays as it was, and
\* there is a character to erase; a prompt is printed for an empty line.
Erasable == (at \in {"drop", "erase"} => cmd_len > 0) /\ (at = "start" => cmd_len = 0)

\* Where the loop has stopped.
LoopDone ==
  /\ at = "run" => len_left = 0 \/ isspace(cmd[len_left - 1]) # 0
  /\ at = "below" => len_left = 0

Held == Waiting /\ KeyTaken /\ Erasable /\ LoopDone

\* The part of the array in use: the line, or what command_run's loop has left.
Kept == IF at \in {"strip", "run", "exit", "reboot", "below"} THEN len_left ELSE cmd_len
Left == [i \in 1..Kept |-> cmd[i - 1]]

\* It holds characters, and behind it the array is zero, as strcmp needs it.
Typed == Printable \cup {"KEY_TAB"}
ZeroBehind == /\ \A i \in 0..Kept - 1 : cmd[i] \in Typed
              /\ \A i \in Kept..CmdSize - 1 : cmd[i] = NUL

ShellIInv == IInv /\ ShellTypeOK /\ Held /\ ZeroBehind

\* What the line editor has made of the keys so far.
Ed == [line |-> Left, ran |-> ran]

\* The inductive step of EditsAsTyped: a step that handles a key changes the line
\* and the commands run as an editor does with that key, the key of a finished
\* erasure being the backspace, whatever was taken out meanwhile.  Every other
\* step leaves them alone, interrupts at any point included; the loop that strips
\* the line changes nothing of what stripping it gives, and a command that does
\* not return leaves the line.
StepEdits ==
  \/ at = "erase" /\ at' = "rub" /\ Ed' = Edited(Ed, "KEY_BACKSPACE")
  \/ /\ at = "key" /\ at' \in {"loop", "echo"} /\ Last(taken).key # "KEY_ENTER"
     /\ Ed' = Edited(Ed, Last(taken).key)
  \/ at = "strip" /\ at' = "strip" /\ ran' = ran /\ Stripped(Left') = Stripped(Left)
  \/ at = "run" /\ at' = "start" /\ Ed' = Edited(Ed, "KEY_ENTER")
  \/ /\ at = "run" /\ at' \in {"exit", "reboot"}
     /\ ran' = Edited(Ed, "KEY_ENTER").ran /\ Left' = Left
  \/ /\ \/ at \notin {"key", "erase", "run"} \/ at' \in {at, "drop"}
        \/ at = "key" /\ at' = "echo" /\ Last(taken).key = "KEY_ENTER"
     /\ Ed' = Ed

-----------------------------------------------------------------------------
(* The console: lemmas *)

\* A set of numbers that is not empty has a least element.
LEMMA Least ==
  ASSUME NEW S \in SUBSET Nat, S # {}
  PROVE  \E n \in S : \A m \in S : n <= m
<1> DEFINE R == OpToRel(<, Nat)
<1>1. IsWellFoundedOn(R, Nat)
  BY NatLessThanWellFounded
<1>2. PICK n \in S : \A m \in S : ~(<<m, n>> \in R)
  <2> HIDE DEF R
  <2> QED
    BY <1>1, WFMin, Zenon
<1>3. \A m \in S : ~(m < n)
  BY <1>2 DEF OpToRel
<1> QED
  BY <1>3

\* What is kept is the start of the array.
LeftIs ==
  /\ Kept \in 0..CmdSize /\ Kept \in Nat
  /\ Left \in Seq(Keys) /\ Len(Left) = Kept
  /\ \A i \in 1..Kept : Left[i] = cmd[i - 1]
  /\ Left = <<>> <=> Kept = 0

LEMMA LeftShape == ShellTypeOK => LeftIs
<1> SUFFICES ASSUME ShellTypeOK PROVE LeftIs
  OBVIOUS
<1>0. CmdSize \in Nat /\ cmd \in [0..CmdSize - 1 -> Keys] /\ Kept \in 0..CmdSize
  BY KshellConstants DEF ShellTypeOK, Kept
<1>1. Kept \in Nat /\ \A i \in 1..Kept : cmd[i - 1] \in Keys
  <2>2. \A i \in 1..Kept : i - 1 \in 0..CmdSize - 1
    BY <1>0
  <2> QED
    BY <1>0, <2>2
<1>2. PICK k \in Nat : k = Kept
  BY <1>1
<1>3. PICK s : s = [i \in 1..k |-> cmd[i - 1]]
  OBVIOUS
<1>4. /\ s \in Seq(Keys) /\ Len(s) = k /\ (\A i \in 1..k : s[i] = cmd[i - 1])
      /\ s = <<>> <=> k = 0
  BY <1>1, <1>2, <1>3
<1>5. Left = s
  BY <1>2, <1>3 DEF Left
<1> QED
  BY <1>0, <1>1, <1>2, <1>4, <1>5 DEF LeftIs

LEMMA LeftShapeNext == ShellTypeOK' => LeftIs'
BY LeftShape, PTL

LEMMA FrontIs ==
  ASSUME NEW S, NEW s \in Seq(S), s # <<>>
  PROVE  /\ Front(s) \in Seq(S) /\ Len(Front(s)) = Len(s) - 1
         /\ \A i \in 1..Len(s) - 1 : Front(s)[i] = s[i]
<1>1. Len(s) \in Nat /\ Len(s) > 0
  OBVIOUS
<1>2. PICK k \in 0..Len(s) : k = Len(s) - 1
  <2>1. Len(s) - 1 \in 0..Len(s)
    BY <1>1
  <2> QED
    BY <2>1
<1>3. /\ SubSeq(s, 1, k) \in Seq(S) /\ Len(SubSeq(s, 1, k)) = k
      /\ \A i \in 1..k : SubSeq(s, 1, k)[i] = s[i]
  BY <1>1, <1>2
<1> QED
  BY <1>2, <1>3 DEF Front

\* Stripping a line: p is what is left of it.
Strips(p, s) == /\ p \in Prefixes(s)
                /\ \A i \in Len(p) + 1..Len(s) : isspace(s[i]) = 0
                /\ p = <<>> \/ isspace(Last(p)) # 0

\* Stripping finds a prefix: the blanks at the end of any line start somewhere.
LEMMA StrippedIs ==
  ASSUME NEW S, NEW s \in Seq(S)
  PROVE  /\ Strips(Stripped(s), s)
         /\ Stripped(s) \in Seq(S)
         /\ Stripped(s) = <<>> => Blank(s)
<1> DEFINE P(p) == /\ \A i \in Len(p) + 1..Len(s) : isspace(s[i]) = 0
                   /\ p = <<>> \/ isspace(Last(p)) # 0
           K    == {k \in 0..Len(s) : \A i \in k + 1..Len(s) : isspace(s[i]) = 0}
<1>0. Len(s) \in Nat
  OBVIOUS
<1>1. K \in SUBSET Nat /\ K # {}
  <2>1. Len(s) \in K
    BY <1>0
  <2> QED
    BY <2>1, <1>0
<1>2. PICK k \in K : \A m \in K : k <= m
  <2> HIDE DEF K
  <2> QED
    BY <1>1, Least
<1>3. k \in 0..Len(s) /\ \A i \in k + 1..Len(s) : isspace(s[i]) = 0
  OBVIOUS
<1>4. /\ SubSeq(s, 1, k) \in Seq(S) /\ Len(SubSeq(s, 1, k)) = k
      /\ k > 0 => SubSeq(s, 1, k)[k] = s[k]
  BY <1>0, <1>3
<1>5. k > 0 => isspace(s[k]) # 0
  <2> SUFFICES ASSUME k > 0, isspace(s[k]) = 0 PROVE FALSE
    OBVIOUS
  <2>1. k - 1 \in 0..Len(s) /\ \A i \in (k - 1) + 1..Len(s) : i = k \/ i \in k + 1..Len(s)
    BY <1>0, <1>3
  <2>2. k - 1 \in K
    BY <2>1, <1>3
  <2>3. k <= k - 1
    <3> HIDE DEF K
    <3> QED
      BY <2>2, <1>2
  <2> QED
    BY <2>3, <1>3, <1>0
<1>6. P(SubSeq(s, 1, k)) /\ SubSeq(s, 1, k) \in Prefixes(s)
  <2>1. SubSeq(s, 1, k) \in Prefixes(s)
    BY <1>3 DEF Prefixes
  <2>2. SubSeq(s, 1, k) = <<>> \/ isspace(Last(SubSeq(s, 1, k))) # 0
    <3>1. CASE k = 0
      BY <3>1, <1>4
    <3>2. CASE k > 0
      BY <3>2, <1>4, <1>5 DEF Last
    <3> QED
      BY <3>1, <3>2, <1>3, <1>0
  <2> QED
    BY <2>1, <2>2, <1>3, <1>4
<1>7. Stripped(s) \in Prefixes(s) /\ P(Stripped(s))
  <2>1. Stripped(s) = CHOOSE p \in Prefixes(s) : P(p)
    BY Zenon DEF Stripped
  <2> HIDE DEF P
  <2> QED
    BY <2>1, <1>6
<1>8. Stripped(s) \in Seq(S)
  <2>1. PICK l \in 0..Len(s) : Stripped(s) = SubSeq(s, 1, l)
    BY <1>7 DEF Prefixes
  <2> QED
    BY <2>1, <1>0
<1>9. ASSUME Stripped(s) = <<>> PROVE Blank(s)
  <2>1. \A i \in 1..Len(s) : isspace(s[i]) = 0
    BY <1>7, <1>9, <1>0
  <2> QED
    BY <2>1, <1>0 DEF Blank
<1>10. Strips(Stripped(s), s)
  BY <1>7 DEF Strips
<1> QED
  BY <1>8, <1>9, <1>10

\* A prefix is a sequence that begins alike.
LEMMA PrefixIs ==
  ASSUME NEW S, NEW s \in Seq(S), NEW p \in Prefixes(s)
  PROVE  /\ p \in Seq(S) /\ Len(p) \in 0..Len(s)
         /\ \A i \in 1..Len(p) : p[i] = s[i]
         /\ p = SubSeq(s, 1, Len(p))
<1>0. PICK n \in Nat : n = Len(s)
  OBVIOUS
<1>1. PICK l \in 0..n : p = SubSeq(s, 1, l)
  BY <1>0 DEF Prefixes
<1>2. p \in Seq(S) /\ Len(p) = l /\ \A i \in 1..l : p[i] = s[i]
  BY <1>0, <1>1
<1> QED
  BY <1>0, <1>1, <1>2

\* And it finds only one.
LEMMA StrippedOnly ==
  ASSUME NEW S, NEW s \in Seq(S), NEW p, Strips(p, s)
  PROVE  p = Stripped(s)
<1>1. PICK q : q = Stripped(s) /\ Strips(q, s)
  BY StrippedIs
<1>2. PICK n \in Nat : n = Len(s)
  OBVIOUS
<1>3. /\ p \in Seq(S) /\ Len(p) \in 0..n /\ (\A i \in 1..Len(p) : p[i] = s[i])
      /\ p = SubSeq(s, 1, Len(p))
  BY <1>2, PrefixIs DEF Strips
<1>4. /\ q \in Seq(S) /\ Len(q) \in 0..n /\ (\A i \in 1..Len(q) : q[i] = s[i])
      /\ q = SubSeq(s, 1, Len(q))
  BY <1>1, <1>2, PrefixIs DEF Strips
<1>5. PICK a \in 0..n, b \in 0..n : a = Len(p) /\ b = Len(q)
  BY <1>3, <1>4
<1>6. ~(a < b)
  <2> SUFFICES ASSUME a < b PROVE FALSE
    OBVIOUS
  <2>1. b \in a + 1..n /\ b \in 1..b /\ b # 0
    BY <1>2, <1>5
  <2>2. isspace(s[b]) = 0
    BY <1>2, <1>5, <2>1 DEF Strips
  <2>3. q # <<>> /\ Last(q) = s[b]
    BY <1>4, <1>5, <2>1 DEF Last
  <2> QED
    BY <1>1, <2>2, <2>3 DEF Strips
<1>7. ~(b < a)
  <2> SUFFICES ASSUME b < a PROVE FALSE
    OBVIOUS
  <2>1. a \in b + 1..n /\ a \in 1..a /\ a # 0
    BY <1>2, <1>5
  <2>2. isspace(s[a]) = 0
    BY <1>1, <1>2, <1>5, <2>1 DEF Strips
  <2>3. p # <<>> /\ Last(p) = s[a]
    BY <1>3, <1>5, <2>1 DEF Last
  <2> QED
    BY <2>2, <2>3 DEF Strips
<1>8. a = b
  BY <1>6, <1>7
<1> QED
  BY <1>1, <1>3, <1>4, <1>5, <1>8

\* A line that does not end in a blank is left as it is.
LEMMA StrippedDone ==
  ASSUME NEW S, NEW s \in Seq(S), s = <<>> \/ isspace(s[Len(s)]) # 0
  PROVE  Stripped(s) = s
<1>1. PICK n \in Nat : n = Len(s)
  OBVIOUS
<1>2. s \in Prefixes(s)
  <2>1. n \in 0..n /\ SubSeq(s, 1, n) = s
    BY <1>1
  <2> QED
    BY <1>1, <2>1 DEF Prefixes
<1>3. \A i \in Len(s) + 1..Len(s) : isspace(s[i]) = 0
  BY <1>1
<1>4. Strips(s, s)
  BY <1>2, <1>3 DEF Strips, Last
<1> QED
  BY <1>4, StrippedOnly

\* One blank less at the end makes no difference.
LEMMA StrippedFront ==
  ASSUME NEW S, NEW s \in Seq(S), s # <<>>, isspace(s[Len(s)]) = 0
  PROVE  Stripped(Front(s)) = Stripped(s)
<1>1. PICK n \in Nat : n = Len(s) /\ n > 0
  OBVIOUS
<1>2. PICK f \in Seq(S) : /\ f = Front(s) /\ Len(f) = n - 1
                          /\ \A i \in 1..n - 1 : f[i] = s[i]
  BY <1>1, FrontIs
<1>3. PICK p : p = Stripped(f) /\ Strips(p, f)
  BY StrippedIs
<1>4. /\ p \in Seq(S) /\ Len(p) \in 0..n - 1 /\ (\A i \in 1..Len(p) : p[i] = f[i])
  BY <1>2, <1>3, PrefixIs DEF Strips
<1>5. PICK a \in 0..n - 1 : a = Len(p)
  BY <1>4
<1>6. p \in Prefixes(s)
  <2>1. a \in 0..n /\ \A i \in 1..a : i \in 1..n - 1
    BY <1>1, <1>5
  <2>2. PICK t : t = SubSeq(s, 1, a)
    OBVIOUS
  <2>3. t \in Seq(S) /\ Len(t) = a /\ \A i \in 1..a : t[i] = s[i]
    BY <1>1, <2>1, <2>2
  <2>4. p = t
    BY <1>2, <1>4, <1>5, <2>1, <2>3
  <2> QED
    BY <1>1, <2>1, <2>2, <2>4 DEF Prefixes
<1>7. ASSUME NEW i \in a + 1..n PROVE isspace(s[i]) = 0
  <2>1. i = n \/ (i \in a + 1..n - 1 /\ i \in 1..n - 1)
    BY <1>1, <1>5
  <2>2. i = n => isspace(s[i]) = 0
    BY <1>1
  <2>3. i \in a + 1..n - 1 => isspace(f[i]) = 0
    BY <1>2, <1>3, <1>5 DEF Strips
  <2> QED
    BY <1>2, <2>1, <2>2, <2>3
<1>8. Strips(p, s)
  BY <1>1, <1>3, <1>5, <1>6, <1>7 DEF Strips
<1> QED
  BY <1>2, <1>3, <1>8, StrippedOnly

\* What the table says of a line is one of the three things a command does.
LEMMA LookupIs ==
  ASSUME NEW line PROVE Lookup(line) \in {"return", "exit", "reboot"}
<1> DEFINE match == {i \in DOMAIN Commands : Commands[i].name = line}
<1>1. CASE match = {}
  BY <1>1 DEF Lookup
<1>2. CASE match # {}
  <2>1. match \in SUBSET Nat
    BY KshellConstants
  <2>2. \E m \in match : \A n \in match : m <= n
    <3> HIDE DEF match
    <3> QED
      BY <1>2, <2>1, Least
  <2>3. Min(match) \in match
    <3> HIDE DEF match
    <3> QED
      BY <2>2, Zenon DEF Min
  <2>4. Commands[Min(match)].does \in {"return", "exit", "reboot"}
    <3> DEFINE Entries == [name : Seq(Keys), does : {"return", "exit", "reboot"}]
    <3>1. Min(match) \in DOMAIN Commands
      BY <2>3
    <3>2. Commands \in Seq(Entries)
      BY KshellConstants
    <3>3. Commands[Min(match)] \in Entries
      <4> HIDE DEF Entries, match
      <4> QED
        BY <3>1, <3>2
    <3>4. \A c \in Entries : c.does \in {"return", "exit", "reboot"}
      OBVIOUS
    <3> HIDE DEF Entries, match
    <3> QED
      BY <3>3, <3>4
  <2> QED
    BY <1>2, <2>4 DEF Lookup
<1> QED
  BY <1>1, <1>2


\* What tty_putc prints of a key are cells.
LEMMA ShownType ==
  ASSUME NEW cells \in Seq(Keys), NEW base \in Nat, NEW key \in Keys
  PROVE  Shown(cells, base, key) \in Seq(Keys)
<1> DEFINE n     == TabStop - ((base + Len(cells)) % TabStop)
           tab   == [i \in 1..n |-> Space]
<1>1. n \in Nat
  <2>1. TabStop \in Nat \ {0} /\ base + Len(cells) \in Nat
    BY KshellConstants
  <2>2. (base + Len(cells)) % TabStop \in 0..TabStop - 1
    BY <2>1
  <2> QED
    BY <2>1, <2>2
<1>2. tab \in Seq(Keys)
  <2> HIDE DEF n
  <2>1. Space \in Keys
    BY DEF Space, Keys, Codes, unshift
  <2> QED
    BY <1>1, <2>1
<1>3. cells \o tab \in Seq(Keys) /\ Append(cells, key) \in Seq(Keys)
  <2> HIDE DEF tab
  <2> QED
    BY <1>2
<1> QED
  BY <1>3 DEF Shown

LEMMA ColumnType == Column \in Nat
BY KshellConstants DEF Column

\* The key that is handled is one.
LEMMA LastKey ==
  ASSUME ShellIInv, at \in {"key", "echo"} PROVE Last(taken).key \in Keys
<1>1. taken \in Seq(Key) /\ taken # <<>>
  BY DEF ShellIInv, IInv, TypeOK, Held, KeyTaken
<1>2. Last(taken) \in Key
  BY <1>1 DEF Last
<1> QED
  BY <1>2 DEF Key

-----------------------------------------------------------------------------
(* The console: Init and every step *)

LEMMA InitShellIInv == ShellInit => ShellIInv
<1> SUFFICES ASSUME ShellInit PROVE ShellIInv
  OBVIOUS
<1>1. IInv /\ pc = "idle" /\ taken = <<>> /\ at = "start" /\ cmd_len = 0
  BY InitIInv DEF ShellInit, Init
<1>2. NUL \in Keys
  BY DEF NUL, Keys, Codes, unshift
<1>3. ShellTypeOK
  <2>1. cmd \in [0..CmdSize - 1 -> Keys] /\ cmd_len \in 0..CmdSize /\ len_left \in 0..CmdSize
    BY <1>2, KshellConstants DEF ShellInit, Empty
  <2>2. swallowed \in SUBSET (DOMAIN taken) /\ echo \in Seq(Keys) /\ ran \in Seq(Seq(Keys))
    BY DEF ShellInit
  <2>3. printing \in BOOLEAN /\ parted \in BOOLEAN /\ caught \in BOOLEAN
    BY DEF ShellInit
  <2>4. at \in Places /\ origin \in {"prompt", "corner", "row"}
    BY DEF ShellInit, Places, Output
  <2> QED
    BY <2>1, <2>2, <2>3, <2>4 DEF ShellTypeOK
<1>4. ZeroBehind
  <2>1. Kept = 0
    BY <1>1 DEF Kept
  <2> QED
    BY <2>1, KshellConstants DEF ZeroBehind, ShellInit, Empty
<1>5. Held
  BY <1>1 DEF Held, Waiting, KeyTaken, Erasable, LoopDone
<1> QED
  BY <1>1, <1>3, <1>4, <1>5 DEF ShellIInv

LEMMA KeyboardKept == ASSUME IInv, UNCHANGED vars PROVE IInv'
BY NextIInv

\* The screen, whatever step is made.
ScreenOK == /\ echo \in Seq(Keys) /\ origin \in {"prompt", "corner", "row"}
            /\ printing \in BOOLEAN /\ parted \in BOOLEAN /\ caught \in BOOLEAN

LEMMA ScreenStep == ASSUME ShellIInv, [ShellNext]_allVars PROVE ScreenOK'
<1>1. echo \in Seq(Keys) /\ <<>> \in Seq(Keys) /\ ScreenOK
  BY DEF ShellIInv, ShellTypeOK, ScreenOK
<1>2. echo' \in Seq(Keys)
  <2>1. CASE tty_deleteprev
    <3>1. echo # <<>> => Front(echo) \in Seq(Keys)
      BY <1>1, FrontIs
    <3> QED
      BY <1>1, <2>1, <3>1 DEF tty_deleteprev
  <2>2. CASE tty_putc
    <3>1. PICK key \in Keys : key = Last(taken).key
      BY <2>2, LastKey DEF tty_putc
    <3>2. Shown(echo, Column, key) \in Seq(Keys)
      BY <1>1, <3>1, ColumnType, ShownType
    <3> QED
      BY <1>1, <2>2, <3>1, <3>2 DEF tty_putc
  <2>3. CASE \/ UNCHANGED allVars \/ irq_timer \/ \E s \in Scancodes : irq_keyboard(s)
             \/ task_test_prints \/ task_test_printed
    <3>1. echo' = echo \/ echo' = <<>>
      BY <2>3 DEF allVars, shellVars, screenVars, irq_timer, irq_keyboard, tty_clear,
                  task_test_prints, task_test_printed
    <3> QED
      BY <1>1, <3>1
  <2>4. CASE halt \/ GetKey \/ Getting \/ Backspace \/ Erase \/ Insert \/ Ignore \/ Enter
    <3>1. echo' = echo
      BY <2>4 DEF screenVars, halt, GetKey, Getting, Backspace, Erase, Insert, Ignore, Enter
    <3> QED
      BY <1>1, <3>1
  <2>5. CASE Strip \/ command_run \/ command_start
    <3>1. echo' = echo \/ echo' = <<>>
      BY <2>5 DEF screenVars, Strip, command_run, command_start
    <3> QED
      BY <1>1, <3>1
  <2> QED
    BY <2>1, <2>2, <2>3, <2>4, <2>5 DEF ShellNext, kshell, Halted
<1>3. /\ origin' \in {origin, "prompt", "corner", "row"}
      /\ printing' = printing \/ printing' = TRUE \/ printing' = FALSE
  BY Zenon DEF ShellNext, kshell, Halted, allVars, shellVars, screenVars, irq_timer, irq_keyboard,
         tty_clear, task_test_prints, task_test_printed, halt, GetKey, Getting, Backspace, Erase,
         tty_deleteprev, Insert, Ignore, Enter, tty_putc, Strip, command_run, command_start
<1>4. /\ \/ parted' = parted \/ parted' = FALSE
         \/ parted' = (parted \/ cmd[cmd_len - 1] = "KEY_TAB")
         \/ parted' = (parted \/ (echo = <<>> /\ origin = "row"))
      /\ \/ caught' = caught \/ caught' = (at \in Output \/ printing)
         \/ caught' = (caught \/ at \in Output) \/ caught' = (caught \/ printing)
  BY Zenon DEF ShellNext, kshell, Halted, allVars, shellVars, screenVars, irq_timer, irq_keyboard,
         tty_clear, task_test_prints, task_test_printed, halt, GetKey, Getting, Backspace, Erase,
         tty_deleteprev, Insert, Ignore, Enter, tty_putc, Strip, command_run, command_start, Prints
<1>5. parted' \in BOOLEAN /\ caught' \in BOOLEAN
  BY <1>1, <1>4, Zenon DEF ScreenOK
<1>6. origin' \in {"prompt", "corner", "row"} /\ printing' \in BOOLEAN
  BY <1>1, <1>3, Zenon DEF ScreenOK
<1> QED
  BY <1>2, <1>5, <1>6 DEF ScreenOK

\* A step that leaves the line alone.
LineKept ==
  /\ UNCHANGED <<cmd, cmd_len, len_left, ran>> /\ Kept' = Kept
  /\ at' \in Places
  /\ swallowed' \in SUBSET (DOMAIN taken')

LEMMA LineKeptIInv ==
  ASSUME ShellIInv, LineKept, ScreenOK', IInv', Held'
  PROVE  ShellIInv' /\ Ed' = Ed
<1>1. Left' = Left
  BY DEF LineKept, Left
<1>2. ShellTypeOK'
  BY DEF LineKept, ScreenOK, ShellIInv, ShellTypeOK
<1>3. ZeroBehind'
  BY DEF LineKept, ShellIInv, ZeroBehind
<1> QED
  BY <1>1, <1>2, <1>3 DEF ShellIInv, Ed, LineKept

\* Timer, task_test, the instruction before hlt, a key that is not for the line,
\* and a step that changes nothing.
LEMMA QuietStep ==
  ASSUME ShellIInv, ScreenOK',
         irq_timer \/ task_test_prints \/ task_test_printed \/ halt \/ UNCHANGED allVars
  PROVE  ShellIInv' /\ Ed' = Ed /\ UNCHANGED <<taken, swallowed, pc>> /\ [StepEdits]_allVars
         /\ (at' = at \/ (at \in {"loop", "asleep", "awake"} /\ at' \in {"loop", "asleep", "awake"}))
<1>1. /\ UNCHANGED vars /\ UNCHANGED <<cmd, cmd_len, len_left, ran, swallowed>>
      /\ (at' = at \/ (at \in {"loop", "asleep", "awake"} /\ at' \in {"loop", "asleep", "awake"}))
  BY DEF irq_timer, task_test_prints, task_test_printed, halt, allVars, shellVars, lineVars, notes
<1>2. IInv' /\ UNCHANGED <<pc, taken>>
  BY <1>1, KeyboardKept DEF ShellIInv, vars
<1>3. LineKept
  BY <1>1, <1>2 DEF ShellIInv, ShellTypeOK, LineKept, Kept, Places, Editing
<1>4. Held'
  BY <1>1, <1>2 DEF ShellIInv, Held, Waiting, KeyTaken, Erasable, LoopDone
<1>5. ShellIInv' /\ Ed' = Ed
  BY <1>2, <1>3, <1>4, LineKeptIInv
<1> QED
  BY <1>1, <1>2, <1>5 DEF StepEdits

LEMMA KeyboardStep ==
  ASSUME ShellIInv, ScreenOK', NEW s \in Scancodes, irq_keyboard(s)
  PROVE  ShellIInv' /\ Ed' = Ed /\ UNCHANGED <<taken, swallowed, pc>> /\ StepEdits
         /\ (at' = at \/ (at \in {"loop", "asleep", "awake"} /\ at' \in {"loop", "asleep", "awake"}))
<1>1. IInv' /\ UNCHANGED <<pc, taken>> /\ UNCHANGED <<cmd, cmd_len, len_left, swallowed, ran>>
  BY HandlerIInv DEF ShellIInv, irq_keyboard, isr_key_press, lineVars, notes
<1>2. at' = IF at = "asleep" THEN "awake" ELSE at
  BY DEF irq_keyboard
<1>3. LineKept
  BY <1>1, <1>2 DEF ShellIInv, ShellTypeOK, LineKept, Kept, Places, Editing
<1>4. Held'
  BY <1>1, <1>2 DEF ShellIInv, Held, Waiting, KeyTaken, Erasable, LoopDone
<1>5. ShellIInv' /\ Ed' = Ed
  BY <1>1, <1>3, <1>4, LineKeptIInv
<1> QED
  BY <1>1, <1>2, <1>5 DEF StepEdits

\* Calls of kb_get_key: for a key, and for the one behind a backspace.
LEMMA CallStep ==
  ASSUME ShellIInv, ScreenOK', GetKey \/ Backspace PROVE ShellIInv' /\ Ed' = Ed /\ StepEdits
<1>1. IInv' /\ pc' = "test" /\ taken' = taken
  BY ReaderIInv DEF ShellIInv, GetKey, Backspace, Call
<1>2. /\ (at = "awake" /\ at' = "get") \/ (at = "key" /\ at' = "drop" /\ cmd_len > 0)
      /\ UNCHANGED <<cmd, cmd_len, len_left, ran, swallowed>>
  BY DEF GetKey, Backspace, Erasing, Got, lineVars, notes
<1>3. LineKept
  BY <1>1, <1>2 DEF ShellIInv, ShellTypeOK, LineKept, Kept, Places, Editing
<1>4. Held'
  BY <1>1, <1>2 DEF Held, Waiting, KeyTaken, Erasable, LoopDone
<1>5. ShellIInv' /\ Ed' = Ed
  BY <1>1, <1>3, <1>4, LineKeptIInv
<1> QED
  BY <1>2, <1>5 DEF StepEdits

LEMMA GettingStep ==
  ASSUME ShellIInv, ScreenOK', Getting PROVE ShellIInv' /\ Ed' = Ed /\ StepEdits
<1>1. IInv' /\ taken' \in Seq(Key) /\ taken \in Seq(Key)
  BY ReaderIInv DEF ShellIInv, Getting, IInv, TypeOK
<1>2. \/ pc = "test" /\ pc' \in {"idle", "take"} /\ taken' = taken
      \/ pc = "take" /\ pc' = "load" /\ taken' = Append(taken, buff[head])
      \/ pc = "load" /\ pc' = "store" /\ taken' = taken
      \/ pc = "store" /\ pc' = "idle" /\ taken' = taken
  BY DEF Getting, kb_get_key, Test, Take, Load, Store
<1>3. /\ at \in {"get", "drop"}
      /\ pc' # "idle" => at' = at
      /\ pc' = "idle" /\ at = "drop" => at' = "erase"
      /\ pc' = "idle" /\ at = "get" => at' = IF pc = "store" THEN "key" ELSE "loop"
  BY DEF Getting
<1>4. taken' = taken \/ (Len(taken') = Len(taken) + 1 /\ DOMAIN taken' = 1..Len(taken) + 1)
  BY <1>1, <1>2
<1>5. Len(taken) \in Nat /\ DOMAIN taken = 1..Len(taken)
  BY <1>1
<1>6. swallowed' \in SUBSET (DOMAIN taken')
  <2>1. swallowed \in SUBSET (DOMAIN taken)
    BY DEF ShellIInv, ShellTypeOK
  <2>2. DOMAIN taken \subseteq DOMAIN taken'
    BY <1>4, <1>5
  <2>3. CASE swallowed' = swallowed
    BY <2>1, <2>2, <2>3
  <2>4. CASE pc = "take" /\ swallowed' = swallowed \cup {Len(taken) + 1}
    <3>1. taken' # taken /\ Len(taken) + 1 \in DOMAIN taken'
      BY <2>4, <1>1, <1>2, <1>4, <1>5
    <3> QED
      BY <2>1, <2>2, <2>4, <3>1
  <2> QED
    BY <2>3, <2>4 DEF Getting
<1>7. LineKept
  BY <1>2, <1>3, <1>6
  DEF ShellIInv, ShellTypeOK, Getting, LineKept, Kept, Places, Editing, lineVars
<1>8. Waiting'
  BY <1>2, <1>3 DEF Waiting
<1>9. KeyTaken'
  <2>1. CASE pc = "take"
    <3>1. taken' # <<>> /\ Len(taken') = Len(taken) + 1 /\ at' = at /\ pc' = "load"
      BY <1>1, <1>2, <1>3, <2>1
    <3>2. at = "get" => Len(taken') \notin swallowed'
      <4>1. swallowed \in SUBSET (1..Len(taken)) /\ Len(taken) + 1 \notin 1..Len(taken)
        BY <1>5 DEF ShellIInv, ShellTypeOK
      <4> QED
        BY <3>1, <4>1 DEF Getting
    <3> QED
      BY <1>3, <3>1, <3>2 DEF KeyTaken
  <2>2. CASE pc # "take"
    <3>1. taken' = taken /\ swallowed' = swallowed
      BY <1>2, <2>2 DEF Getting
    <3> QED
      BY <1>2, <1>3, <2>2, <3>1 DEF ShellIInv, Held, KeyTaken
  <2> QED
    BY <2>1, <2>2
<1>10. Erasable' /\ LoopDone'
  BY <1>2, <1>3, <1>7 DEF ShellIInv, Held, Erasable, LoopDone, LineKept
<1>11. ShellIInv' /\ Ed' = Ed
  BY <1>1, <1>7, <1>8, <1>9, <1>10, LineKeptIInv DEF Held
<1> QED
  BY <1>3, <1>11 DEF StepEdits

LEMMA IgnoreStep == ASSUME ShellIInv, ScreenOK', Ignore PROVE ShellIInv' /\ StepEdits
<1>1. /\ IInv' /\ UNCHANGED <<pc, taken>> /\ at = "key" /\ at' = "loop"
      /\ UNCHANGED <<cmd, cmd_len, len_left, ran, swallowed>>
  BY KeyboardKept DEF ShellIInv, Ignore, vars, lineVars, notes
<1>2. LineKept
  BY <1>1 DEF ShellIInv, ShellTypeOK, LineKept, Kept, Places, Editing
<1>3. Held'
  BY <1>1 DEF ShellIInv, Held, Waiting, KeyTaken, Erasable, LoopDone
<1>4. ShellIInv' /\ Ed' = Ed
  BY <1>1, <1>2, <1>3, LineKeptIInv
<1>5. Edited(Ed, Last(taken).key) = Ed /\ Last(taken).key # "KEY_ENTER"
  <2> DEFINE key == Last(taken).key
  <2>1. ~(key = "KEY_BACKSPACE" /\ cmd_len > 0) /\ key # "KEY_ENTER"
    BY DEF Ignore, Erasing, Got
  <2>2. key \notin Printable \cup {"KEY_TAB"}
    BY DEF Ignore, isprint, isspace
  <2>3. Ed.line # <<>> => cmd_len > 0
    <3>1. LeftIs /\ Kept = cmd_len
      BY <1>1, LeftShape DEF ShellIInv, Kept
    <3> QED
      BY <3>1 DEF Ed, LeftIs
  <2> QED
    BY <2>1, <2>2, <2>3 DEF Edited
<1> QED
  BY <1>1, <1>4, <1>5 DEF StepEdits

\* An erased character leaves a zero behind the shorter line.
LEMMA EraseStep == ASSUME ShellIInv, ScreenOK', Erase PROVE ShellIInv' /\ StepEdits
<1>0. /\ cmd_len \in 1..CmdSize /\ cmd_len \in Nat /\ CmdSize \in Nat
      /\ cmd \in [0..CmdSize - 1 -> Keys]
  <2>1. CmdSize \in Nat
    BY KshellConstants
  <2>2. cmd_len \in 0..CmdSize /\ cmd \in [0..CmdSize - 1 -> Keys] /\ cmd_len > 0
    BY DEF ShellIInv, ShellTypeOK, Held, Erasable, Erase
  <2> QED
    BY <2>1, <2>2
<1>1. IInv' /\ UNCHANGED <<pc, taken>> /\ at = "erase" /\ at' = "rub"
  BY KeyboardKept DEF ShellIInv, Erase, Prints, vars
<1>2. /\ cmd' = [cmd EXCEPT ![cmd_len - 1] = NUL] /\ cmd_len' = cmd_len - 1
      /\ UNCHANGED <<len_left, ran, swallowed>>
  BY DEF Erase, notes
<1>3. Kept = cmd_len /\ Kept' = cmd_len - 1
  BY <1>1, <1>2 DEF Kept
<1>4. ASSUME NEW i \in 0..CmdSize - 1
      PROVE  cmd'[i] = IF i = cmd_len - 1 THEN NUL ELSE cmd[i]
  BY <1>0, <1>2
<1>5. ShellTypeOK'
  <2>1. NUL \in Keys
    BY DEF NUL, Keys, Codes, unshift
  <2>2. cmd' \in [0..CmdSize - 1 -> Keys] /\ cmd_len' \in 0..CmdSize
    BY <1>0, <1>2, <2>1
  <2>3. at' \in Places
    BY <1>1 DEF Places, Output
  <2> QED
    BY <1>1, <1>2, <2>2, <2>3 DEF ShellIInv, ShellTypeOK, ScreenOK
<1>6. ZeroBehind'
  <2>1. ASSUME NEW i \in cmd_len - 1..CmdSize - 1 PROVE cmd'[i] = NUL
    <3>1. i \in 0..CmdSize - 1 /\ (i = cmd_len - 1 \/ i \in cmd_len..CmdSize - 1)
      BY <1>0
    <3> QED
      BY <1>3, <1>4, <3>1 DEF ShellIInv, ZeroBehind
  <2>2. ASSUME NEW i \in 0..(cmd_len - 1) - 1 PROVE cmd'[i] \in Typed
    <3>1. i \in 0..CmdSize - 1 /\ i # cmd_len - 1 /\ i \in 0..cmd_len - 1
      BY <1>0
    <3> QED
      BY <1>3, <1>4, <3>1 DEF ShellIInv, ZeroBehind
  <2> QED
    BY <1>3, <2>1, <2>2 DEF ZeroBehind
<1>7. Held'
  BY <1>1 DEF ShellIInv, Held, Waiting, KeyTaken, Erasable, LoopDone
<1>8. Left' = Front(Left) /\ Left # <<>>
  <2>1. LeftIs /\ LeftIs'
    BY <1>5, LeftShape, LeftShapeNext DEF ShellIInv
  <2>0. Left \in Seq(Keys) /\ Len(Left) = cmd_len /\ Left # <<>>
    BY <1>0, <1>3, <2>1 DEF LeftIs
  <2>2. /\ Front(Left) \in Seq(Keys) /\ Len(Front(Left)) = cmd_len - 1
        /\ \A i \in 1..cmd_len - 1 : Front(Left)[i] = Left[i]
    BY <2>0, FrontIs
  <2>3. \A i \in 1..cmd_len - 1 : Left'[i] = Left[i]
    <3> SUFFICES ASSUME NEW i \in 1..cmd_len - 1 PROVE Left'[i] = Left[i]
      OBVIOUS
    <3>1. i \in 1..Kept' /\ i \in 1..Kept /\ i - 1 \in 0..CmdSize - 1 /\ i - 1 # cmd_len - 1
      BY <1>0, <1>3
    <3>2. cmd'[i - 1] = cmd[i - 1]
      BY <1>4, <3>1
    <3> QED
      BY <2>1, <3>1, <3>2 DEF LeftIs
  <2>4. Left' \in Seq(Keys) /\ Len(Left') = cmd_len - 1
    BY <1>3, <2>1 DEF LeftIs
  <2>5. Left' = Front(Left)
    BY <1>0, <2>2, <2>3, <2>4
  <2> QED
    BY <2>0, <2>5
<1>9. Ed' = Edited(Ed, "KEY_BACKSPACE")
  <2>1. Ed.line = Left /\ Ed' = [line |-> Front(Left), ran |-> ran]
    BY <1>2, <1>8 DEF Ed
  <2>2. Edited(Ed, "KEY_BACKSPACE") = [Ed EXCEPT !.line = Front(Ed.line)]
    <3>1. "KEY_BACKSPACE" \notin Printable \cup {"KEY_TAB"}
      BY DEF Printable, Space
    <3>2. Ed.line # <<>>
      BY <1>8, <2>1
    <3> QED
      BY <3>1, <3>2 DEF Edited
  <2>3. [Ed EXCEPT !.line = Front(Ed.line)] = [line |-> Front(Left), ran |-> ran]
    BY DEF Ed
  <2> QED
    BY <2>1, <2>2, <2>3
<1> QED
  BY <1>1, <1>5, <1>6, <1>7, <1>9 DEF ShellIInv, StepEdits

\* A character goes into the first free element, if there is one.
LEMMA InsertStep == ASSUME ShellIInv, ScreenOK', Insert PROVE ShellIInv' /\ StepEdits
<1> DEFINE key == Last(taken).key
<1>0. /\ cmd_len \in 0..CmdSize /\ cmd_len \in Nat /\ CmdSize \in Nat
      /\ cmd \in [0..CmdSize - 1 -> Keys]
  <2>1. CmdSize \in Nat
    BY KshellConstants
  <2>2. cmd_len \in 0..CmdSize /\ cmd \in [0..CmdSize - 1 -> Keys]
    BY DEF ShellIInv, ShellTypeOK
  <2> QED
    BY <2>1, <2>2
<1>1. IInv' /\ UNCHANGED <<pc, taken>> /\ at = "key"
  BY KeyboardKept DEF ShellIInv, Insert, vars
<1>2. key \in Keys
  BY <1>1, LastKey
<1>3. key \in Typed /\ key # "KEY_ENTER"
  <2>1. key # "KEY_ENTER" /\ (isprint(key) = 0 \/ isspace(key) = 0)
    BY DEF Insert
  <2>2. Space \in Printable
    BY DEF Printable
  <2> QED
    BY <2>1, <2>2 DEF isprint, isspace, Typed
<1>4. key # "KEY_BACKSPACE"
  BY <1>3 DEF Typed, Printable, Space
<1>5. LeftIs /\ Kept = cmd_len
  BY <1>1, LeftShape DEF ShellIInv, Kept
<1>6. UNCHANGED <<len_left, swallowed, ran>>
  BY DEF Insert, notes
<1>7. ASSUME at' \in {"loop", "echo"} PROVE Held'
  BY <1>1, <1>6, <1>7 DEF ShellIInv, Held, Waiting, KeyTaken, Erasable, LoopDone
<1>8. CASE cmd_len >= CmdSize
  <2>1. UNCHANGED <<cmd, cmd_len>> /\ at' = "loop"
    BY <1>0, <1>8 DEF Insert
  <2>2. LineKept
    BY <1>1, <1>6, <2>1 DEF ShellIInv, ShellTypeOK, LineKept, Kept, Places, Editing
  <2>3. ShellIInv' /\ Ed' = Ed
    BY <1>1, <1>7, <2>1, <2>2, LineKeptIInv
  <2>4. Ed.line = Left /\ ~(Len(Left) < CmdSize)
    BY <1>0, <1>5, <1>8 DEF Ed, LeftIs
  <2>5. Edited(Ed, key) = Ed
    BY <1>3, <1>4, <2>4 DEF Edited
  <2> QED
    BY <1>1, <1>3, <2>1, <2>3, <2>5 DEF StepEdits
<1>9. CASE cmd_len < CmdSize
  <2>1. /\ cmd' = [cmd EXCEPT ![cmd_len] = key] /\ cmd_len' = cmd_len + 1
        /\ at' = "echo"
    BY <1>0, <1>9 DEF Insert, Prints
  <2>2. Kept' = cmd_len + 1
    BY <2>1 DEF Kept
  <2> HIDE DEF key
  <2>3. cmd' \in [0..CmdSize - 1 -> Keys] /\ cmd_len' \in 0..CmdSize
    BY <1>0, <1>2, <1>9, <2>1
  <2>4. ShellTypeOK'
    <3>1. at' \in Places
      BY <2>1 DEF Places, Output
    <3> QED
      BY <1>1, <1>6, <2>3, <3>1 DEF ShellIInv, ShellTypeOK, ScreenOK
  <2>5. ZeroBehind'
    <3>1. ASSUME NEW i \in cmd_len + 1..CmdSize - 1 PROVE cmd'[i] = NUL
      <4>1. i \in 0..CmdSize - 1 /\ i # cmd_len /\ i \in cmd_len..CmdSize - 1
        BY <1>0
      <4>2. cmd'[i] = cmd[i]
        BY <1>0, <2>1, <4>1
      <4> QED
        BY <1>5, <4>1, <4>2 DEF ShellIInv, ZeroBehind
    <3>2. ASSUME NEW i \in 0..(cmd_len + 1) - 1 PROVE cmd'[i] \in Typed
      <4>1. i \in 0..CmdSize - 1 /\ (i = cmd_len \/ (i # cmd_len /\ i \in 0..cmd_len - 1))
        BY <1>0, <1>9
      <4>2. cmd'[i] = IF i = cmd_len THEN key ELSE cmd[i]
        BY <1>0, <2>1, <4>1
      <4> QED
        BY <1>3, <1>5, <4>1, <4>2 DEF ShellIInv, ZeroBehind
    <3> QED
      BY <2>2, <3>1, <3>2 DEF ZeroBehind
  <2>6. Left' = Append(Left, key)
    <3>1. LeftIs'
      BY <2>4, LeftShapeNext
    <3>2. Left' \in Seq(Keys) /\ Len(Left') = cmd_len + 1 /\ Left \in Seq(Keys) /\ Len(Left) = cmd_len
      BY <1>5, <2>2, <3>1 DEF LeftIs
    <3>3. \A i \in 1..cmd_len : Left'[i] = Left[i]
      <4> SUFFICES ASSUME NEW i \in 1..cmd_len PROVE Left'[i] = Left[i]
        OBVIOUS
      <4>1. i \in 1..Kept' /\ i - 1 \in 0..CmdSize - 1 /\ i - 1 # cmd_len
        BY <1>0, <2>2
      <4>2. cmd'[i - 1] = cmd[i - 1]
        BY <1>0, <2>1, <4>1
      <4> QED
        BY <1>5, <3>1, <4>1, <4>2 DEF LeftIs
    <3>4. Left'[cmd_len + 1] = key
      <4>1. cmd_len + 1 \in 1..Kept' /\ (cmd_len + 1) - 1 = cmd_len /\ cmd_len \in 0..CmdSize - 1
        BY <1>0, <1>9, <2>2
      <4>2. Left'[cmd_len + 1] = cmd'[cmd_len]
        BY <3>1, <4>1 DEF LeftIs
      <4> QED
        BY <1>0, <2>1, <4>1, <4>2
    <3>5. /\ Append(Left, key) \in Seq(Keys) /\ Len(Append(Left, key)) = cmd_len + 1
          /\ \A i \in 1..cmd_len : Append(Left, key)[i] = Left[i]
          /\ Append(Left, key)[cmd_len + 1] = key
      BY <1>2, <3>2, AppendPrefix
    <3>6. \A i \in 1..cmd_len + 1 : Left'[i] = Append(Left, key)[i]
      <4>1. \A i \in 1..cmd_len + 1 : i \in 1..cmd_len \/ i = cmd_len + 1
        BY <1>0
      <4> QED
        BY <3>3, <3>4, <3>5, <4>1
    <3> QED
      BY <1>0, <3>2, <3>5, <3>6
  <2>7. Ed' = Edited(Ed, key)
    <3>1. Ed.line = Left /\ Len(Left) < CmdSize /\ Ed' = [line |-> Append(Left, key), ran |-> ran]
      BY <1>5, <1>6, <1>9, <2>6 DEF Ed, LeftIs
    <3>2. Edited(Ed, key) = [Ed EXCEPT !.line = Append(Ed.line, key)]
      BY <1>3, <1>4, <3>1 DEF Edited, Typed
    <3>3. [Ed EXCEPT !.line = Append(Ed.line, key)] = [line |-> Append(Left, key), ran |-> ran]
      <4>1. PICK left, done, more : left = Left /\ done = ran /\ more = Append(Left, key)
        OBVIOUS
      <4>2. Ed = [line |-> left, ran |-> done] /\ Append(Ed.line, key) = more
        BY <3>1, <4>1 DEF Ed
      <4>3. [Ed EXCEPT !.line = more] = [line |-> more, ran |-> done]
        BY <4>2
      <4> QED
        BY <4>1, <4>2, <4>3
    <3> QED
      BY <3>1, <3>2, <3>3
  <2> QED
    BY <1>1, <1>3, <1>7, <2>1, <2>4, <2>5, <2>7 DEF ShellIInv, StepEdits, key
<1> QED
  BY <1>0, <1>8, <1>9

\* Printing: the calls of tty_putc and tty_deleteprev, their returns, the prompt.
LEMMA OutputStep ==
  ASSUME ShellIInv, ScreenOK', Enter \/ tty_deleteprev \/ tty_putc \/ command_start
  PROVE  ShellIInv' /\ Ed' = Ed /\ StepEdits
<1>1. /\ UNCHANGED vars /\ UNCHANGED <<cmd, cmd_len, ran, swallowed>>
      /\ \/ at = "key" /\ at' = "echo" /\ Last(taken).key = "KEY_ENTER" /\ len_left' = len_left
         \/ at \in {"rub", "start"} /\ at' = "loop" /\ len_left' = len_left
         \/ at = "echo" /\ at' = "loop" /\ Last(taken).key # "KEY_ENTER" /\ len_left' = len_left
         \/ at = "echo" /\ at' = "strip" /\ Last(taken).key = "KEY_ENTER" /\ len_left' = cmd_len
  BY DEF Enter, Got, Prints, tty_deleteprev, tty_putc, command_start, lineVars, notes
<1>2. IInv' /\ UNCHANGED <<pc, taken>>
  BY <1>1, KeyboardKept DEF ShellIInv, vars
<1>3. Kept' = Kept /\ Left' = Left
  BY <1>1 DEF Kept, Left
<1>4. ShellTypeOK'
  <2>1. at' \in Places /\ len_left' \in 0..CmdSize
    BY <1>1 DEF ShellIInv, ShellTypeOK, Places, Output, Editing
  <2> QED
    BY <1>1, <1>2, <2>1 DEF ShellIInv, ShellTypeOK, ScreenOK
<1>5. Held'
  BY <1>1, <1>2 DEF ShellIInv, Held, Waiting, KeyTaken, Erasable, LoopDone
<1>6. ZeroBehind'
  BY <1>1, <1>3 DEF ShellIInv, ZeroBehind
<1>7. Ed' = Ed
  BY <1>1, <1>3 DEF Ed
<1> QED
  BY <1>1, <1>2, <1>4, <1>5, <1>6, <1>7 DEF ShellIInv, StepEdits

\* A test of the loop: a blank goes, or the loop ends.
LEMMA StripStep == ASSUME ShellIInv, ScreenOK', Strip PROVE ShellIInv' /\ StepEdits
<1>0. /\ len_left \in 0..CmdSize /\ len_left \in Nat /\ CmdSize \in Nat
      /\ cmd \in [0..CmdSize - 1 -> Keys]
  <2>1. CmdSize \in Nat
    BY KshellConstants
  <2>2. len_left \in 0..CmdSize /\ cmd \in [0..CmdSize - 1 -> Keys]
    BY DEF ShellIInv, ShellTypeOK
  <2> QED
    BY <2>1, <2>2
<1>1. IInv' /\ UNCHANGED <<pc, taken>> /\ at = "strip" /\ UNCHANGED <<cmd_len, ran, swallowed>>
  BY KeyboardKept DEF ShellIInv, Strip, vars, notes
<1>2. Kept = len_left /\ LeftIs
  BY <1>1, LeftShape DEF ShellIInv, Kept
<1>3. CASE at' \in {"run", "below"}
  <2>1. /\ UNCHANGED <<cmd, len_left>>
        /\ at' = "run" => (len_left > 0 => isspace(cmd[len_left - 1]) # 0)
        /\ at' = "below" => len_left = 0
    BY <1>1, <1>3 DEF Strip, Prints
  <2>2. LineKept
    BY <1>1, <1>3, <2>1 DEF ShellIInv, ShellTypeOK, LineKept, Kept, Places, Output
  <2>3. Held'
    BY <1>0, <1>1, <1>3, <2>1 DEF ShellIInv, Held, Waiting, KeyTaken, Erasable, LoopDone
  <2>4. ShellIInv' /\ Ed' = Ed
    BY <1>1, <2>2, <2>3, LineKeptIInv
  <2> QED
    BY <1>1, <2>4 DEF StepEdits
<1>4. CASE at' \notin {"run", "below"}
  <2>1. /\ len_left > 0 /\ isspace(cmd[len_left - 1]) = 0 /\ at' = "strip"
        /\ cmd' = [cmd EXCEPT ![len_left - 1] = NUL] /\ len_left' = len_left - 1
    BY <1>1, <1>4 DEF Strip, Prints
  <2>2. Kept' = len_left - 1 /\ len_left \in 1..CmdSize
    BY <1>0, <2>1 DEF Kept
  <2>3. ASSUME NEW i \in 0..CmdSize - 1
        PROVE  cmd'[i] = IF i = len_left - 1 THEN NUL ELSE cmd[i]
    BY <1>0, <2>1
  <2>4. ShellTypeOK'
    <3>1. NUL \in Keys
      BY DEF NUL, Keys, Codes, unshift
    <3>2. cmd' \in [0..CmdSize - 1 -> Keys] /\ len_left' \in 0..CmdSize
      BY <1>0, <2>1, <3>1
    <3>3. at' \in Places
      BY <2>1 DEF Places
    <3> QED
      BY <1>1, <3>2, <3>3 DEF ShellIInv, ShellTypeOK, ScreenOK
  <2>5. ZeroBehind'
    <3>1. ASSUME NEW i \in len_left - 1..CmdSize - 1 PROVE cmd'[i] = NUL
      <4>1. i \in 0..CmdSize - 1 /\ (i = len_left - 1 \/ i \in len_left..CmdSize - 1)
        BY <1>0, <2>1
      <4> QED
        BY <1>2, <2>3, <4>1 DEF ShellIInv, ZeroBehind
    <3>2. ASSUME NEW i \in 0..(len_left - 1) - 1 PROVE cmd'[i] \in Typed
      <4>1. i \in 0..CmdSize - 1 /\ i # len_left - 1 /\ i \in 0..len_left - 1
        BY <1>0, <2>1
      <4> QED
        BY <1>2, <2>3, <4>1 DEF ShellIInv, ZeroBehind
    <3> QED
      BY <2>2, <3>1, <3>2 DEF ZeroBehind
  <2>6. Held'
    BY <1>1, <2>1 DEF ShellIInv, Held, Waiting, KeyTaken, Erasable, LoopDone
  <2>7. Left' = Front(Left) /\ Left # <<>> /\ isspace(Left[Len(Left)]) = 0 /\ Left \in Seq(Keys)
    <3>1. LeftIs'
      BY <2>4, LeftShapeNext
    <3>2. Left \in Seq(Keys) /\ Len(Left) = len_left /\ Left # <<>>
      BY <1>0, <1>2, <2>1 DEF LeftIs
    <3>3. /\ Front(Left) \in Seq(Keys) /\ Len(Front(Left)) = len_left - 1
          /\ \A i \in 1..len_left - 1 : Front(Left)[i] = Left[i]
      BY <3>2, FrontIs
    <3>4. \A i \in 1..len_left - 1 : Left'[i] = Left[i]
      <4> SUFFICES ASSUME NEW i \in 1..len_left - 1 PROVE Left'[i] = Left[i]
        OBVIOUS
      <4>1. i \in 1..Kept' /\ i \in 1..Kept /\ i - 1 \in 0..CmdSize - 1 /\ i - 1 # len_left - 1
        BY <1>0, <1>2, <2>2
      <4>2. cmd'[i - 1] = cmd[i - 1]
        BY <2>3, <4>1
      <4> QED
        BY <1>2, <3>1, <4>1, <4>2 DEF LeftIs
    <3>5. Left' \in Seq(Keys) /\ Len(Left') = len_left - 1
      BY <2>2, <3>1 DEF LeftIs
    <3>6. Left[Len(Left)] = cmd[len_left - 1]
      <4>1. len_left \in 1..Kept
        BY <1>0, <1>2, <2>1
      <4> QED
        BY <1>2, <3>2, <4>1 DEF LeftIs
    <3>7. Left' = Front(Left)
      BY <1>0, <3>3, <3>4, <3>5
    <3> QED
      BY <2>1, <3>2, <3>6, <3>7
  <2>8. Stripped(Left') = Stripped(Left)
    BY <2>7, StrippedFront
  <2> QED
    BY <1>1, <2>1, <2>4, <2>5, <2>6, <2>8 DEF ShellIInv, StepEdits
<1> QED
  BY <1>3, <1>4

\* With the blanks overwritten, strcmp reads what the loop has left.
LEMMA StringIs == ASSUME ShellIInv, at = "run" PROVE String = Left
<1>0. len_left \in 0..CmdSize /\ CmdSize \in Nat /\ Kept = len_left
  BY KshellConstants DEF ShellIInv, ShellTypeOK, Kept
<1>1. PICK ends : ends = {i \in 0..CmdSize : i < CmdSize => cmd[i] = NUL}
  OBVIOUS
<1>2. len_left \in ends
  <2>1. len_left < CmdSize => len_left \in len_left..CmdSize - 1
    BY <1>0
  <2> QED
    BY <1>0, <1>1, <2>1 DEF ShellIInv, ZeroBehind
<1>3. ASSUME NEW i \in ends PROVE len_left <= i
  <2> SUFFICES ASSUME i < len_left PROVE FALSE
    BY <1>0, <1>1
  <2>1. i \in 0..len_left - 1 /\ i < CmdSize
    BY <1>0, <1>1
  <2>2. cmd[i] = NUL /\ cmd[i] \in Typed
    BY <1>0, <1>1, <2>1 DEF ShellIInv, ZeroBehind
  <2>3. NUL \notin Typed
    BY DEF NUL, Typed, Printable, Space
  <2> QED
    BY <2>2, <2>3
<1>4. Min(ends) = len_left
  <2>1. \A j \in ends : j \in Int
    BY <1>0, <1>1
  <2>2. \E x \in ends : \A y \in ends : x <= y
    BY <1>2, <1>3
  <2>3. Min(ends) \in ends /\ \A y \in ends : Min(ends) <= y
    BY <2>2, Zenon DEF Min
  <2>4. Min(ends) <= len_left /\ len_left <= Min(ends)
    BY <1>2, <1>3, <2>3
  <2> QED
    BY <1>0, <2>1, <2>3, <2>4
<1>5. String = [i \in 1..Min(ends) |-> cmd[i - 1]]
  BY <1>1, Zenon DEF String
<1> QED
  BY <1>0, <1>4, <1>5 DEF Left

\* The command is run for the stripped line, and the array cleared if it returns.
LEMMA RunStep == ASSUME ShellIInv, ScreenOK', command_run PROVE ShellIInv' /\ StepEdits
<1>0. IInv' /\ UNCHANGED <<pc, taken, swallowed>> /\ at = "run"
  BY KeyboardKept DEF ShellIInv, command_run, vars
<1>1. LeftIs /\ Kept = len_left
  BY <1>0, LeftShape DEF ShellIInv, Kept
<1>2. Stripped(Left) = Left
  <2>1. Left \in Seq(Keys) /\ Len(Left) = len_left /\ len_left \in Nat
    BY <1>1 DEF LeftIs
  <2>2. CASE len_left = 0
    <3>1. Left = <<>>
      BY <1>1, <2>2 DEF LeftIs
    <3> QED
      BY <2>1, <3>1, StrippedDone
  <2>3. CASE len_left # 0
    <3>1. len_left \in 1..Kept
      BY <1>1, <2>1, <2>3
    <3>2. Left[Len(Left)] = cmd[len_left - 1]
      BY <1>1, <2>1, <3>1 DEF LeftIs
    <3>3. isspace(Left[Len(Left)]) # 0
      BY <1>0, <2>3, <3>2 DEF ShellIInv, Held, LoopDone
    <3> QED
      BY <2>1, <3>3, StrippedDone
  <2> QED
    BY <2>2, <2>3
<1>3. String = Left
  BY <1>0, StringIs
<1>4. PICK name \in Seq(Keys) : name = Left
  BY <1>1 DEF LeftIs
<1>5. /\ ran' = Append(ran, name)
      /\ \/ /\ cmd' = Empty /\ cmd_len' = 0 /\ len_left' = 0 /\ at' = "start"
         \/ /\ at' = Lookup(name) /\ Lookup(name) # "return" /\ UNCHANGED <<cmd, cmd_len, len_left>>
  BY <1>3, <1>4 DEF command_run, lineVars
<1>6. Edited(Ed, "KEY_ENTER") = [line |-> <<>>, ran |-> Append(ran, name)]
  <2>1. Ed.line = Left /\ Ed.ran = ran
    BY DEF Ed
  <2>2. "KEY_ENTER" \notin Printable \cup {"KEY_TAB"}
    BY DEF Printable, Space
  <2>3. Edited(Ed, "KEY_ENTER") = [line |-> <<>>, ran |-> Append(Ed.ran, Stripped(Ed.line))]
    BY <2>2 DEF Edited
  <2> QED
    BY <1>2, <1>4, <2>1, <2>3
<1>7. ran' \in Seq(Seq(Keys))
  <2>1. ran \in Seq(Seq(Keys))
    BY DEF ShellIInv, ShellTypeOK
  <2> QED
    BY <1>5, <2>1, AppendPrefix
<1>8. CASE at' = "start"
  <2>1. cmd' = Empty /\ cmd_len' = 0 /\ len_left' = 0
    BY <1>5, <1>8, LookupIs
  <2>2. CmdSize \in Nat \ {0} /\ NUL \in Keys
    BY KshellConstants DEF NUL, Keys, Codes, unshift
  <2>3. cmd' \in [0..CmdSize - 1 -> Keys] /\ cmd_len' \in 0..CmdSize /\ len_left' \in 0..CmdSize
    BY <2>1, <2>2 DEF Empty
  <2>4. ShellTypeOK'
    <3>1. at' \in Places
      BY <1>8 DEF Places, Output
    <3> QED
      BY <1>0, <1>7, <2>3, <3>1 DEF ShellIInv, ShellTypeOK, ScreenOK
  <2>5. Kept' = 0
    BY <1>8, <2>1 DEF Kept
  <2>6. ZeroBehind'
    BY <2>1, <2>2, <2>5 DEF ZeroBehind, Empty
  <2>7. Held'
    BY <1>0, <1>8, <2>1 DEF ShellIInv, Held, Waiting, KeyTaken, Erasable, LoopDone
  <2>8. Left' = <<>>
    BY <2>4, <2>5, LeftShapeNext DEF LeftIs
  <2>9. Ed' = [line |-> <<>>, ran |-> Append(ran, name)]
    BY <1>5, <2>8 DEF Ed
  <2> QED
    BY <1>0, <1>6, <1>8, <2>4, <2>6, <2>7, <2>9 DEF ShellIInv, StepEdits
<1>9. CASE at' # "start"
  <2>1. UNCHANGED <<cmd, cmd_len, len_left>> /\ at' \in {"exit", "reboot"}
    BY <1>5, <1>9, LookupIs
  <2>2. Kept' = Kept /\ Left' = Left
    BY <1>0, <2>1 DEF Kept, Left
  <2>3. ShellTypeOK'
    <3>1. at' \in Places
      BY <2>1 DEF Places
    <3> QED
      BY <1>0, <1>7, <2>1, <3>1 DEF ShellIInv, ShellTypeOK, ScreenOK
  <2>4. ZeroBehind'
    BY <2>1, <2>2 DEF ShellIInv, ZeroBehind
  <2>5. Held'
    BY <1>0, <2>1 DEF ShellIInv, Held, Waiting, KeyTaken, Erasable, LoopDone
  <2>6. ran' = Edited(Ed, "KEY_ENTER").ran
    BY <1>5, <1>6
  <2> QED
    BY <1>0, <2>1, <2>2, <2>3, <2>4, <2>5, <2>6 DEF ShellIInv, StepEdits
<1> QED
  BY <1>8, <1>9

LEMMA NextShellIInv == ShellIInv /\ [ShellNext]_allVars => ShellIInv' /\ [StepEdits]_allVars
<1> SUFFICES ASSUME ShellIInv, [ShellNext]_allVars PROVE ShellIInv' /\ [StepEdits]_allVars
  OBVIOUS
<1>1. ScreenOK'
  BY ScreenStep
<1>2. CASE kshell
  BY <1>1, <1>2, QuietStep, CallStep, GettingStep, EraseStep, InsertStep, IgnoreStep, OutputStep,
     StripStep, RunStep
  DEF kshell
<1> QED
  BY <1>1, <1>2, QuietStep, KeyboardStep DEF ShellNext, Halted

-----------------------------------------------------------------------------
(* The console: the theorems *)

\* The strengthened invariant of the composition: the keyboard's holds with the
\* console as the one that calls kb_get_key, and the line stays inside cmd.
THEOREM ShellInvariant == ShellSpec => []ShellIInv
BY InitShellIInv, NextShellIInv, PTL DEF ShellSpec

\* Every access of the line editor and of the loop that strips the line stays
\* within cmd, whatever is typed ahead and whenever the handler runs: both
\* lengths are between 0 and CmdSize.
THEOREM ShellTypeCorrect == ShellSpec => []ShellTypeOK
<1>1. ShellIInv => ShellTypeOK
  BY DEF ShellIInv
<1> QED
  BY <1>1, ShellInvariant, PTL

\* Keys reach the console in the order they were typed, each once.
THEOREM ShellInOrder == ShellSpec => []FirstInFirstOut
<1>1. ShellIInv => FirstInFirstOut
  BY DEF ShellIInv, IInv
<1> QED
  BY <1>1, ShellInvariant, PTL

\* Each key that is handled edits the line as the one-line editor of EditsAsTyped
\* does, and nothing else changes line or commands: the second call of kb_get_key
\* and the interrupts in it disturb no erasure, and the loop that overwrites the
\* blanks of a line ends with the stripped line.
THEOREM Edits == ShellSpec => [][StepEdits]_allVars
BY ShellInvariant, NextShellIInv, PTL DEF ShellSpec
-----------------------------------------------------------------------------
(* The console: what editing all keys gives *)

\* Two functions that go on from equal values alike are equal.
Alike(g, h, n) == g[0] = h[0] /\ \A i \in 1..n : g[i - 1] = h[i - 1] => g[i] = h[i]

LEMMA Agree ==
  ASSUME NEW n \in Nat, NEW g, NEW h, Alike(g, h, n)
  PROVE  g[n] = h[n]
<1> DEFINE S == {i \in 0..n : g[i] # h[i]}
<1> SUFFICES ASSUME S # {} PROVE FALSE
  <2>1. S = {} => \A i \in 0..n : g[i] = h[i]
    OBVIOUS
  <2>2. n \in 0..n
    OBVIOUS
  <2> HIDE DEF S
  <2> QED
    BY <2>1, <2>2
<1>1. PICK i \in S : \A j \in S : i <= j
  <2>1. S \in SUBSET Nat
    OBVIOUS
  <2> HIDE DEF S
  <2> QED
    BY <2>1, Least
<1>2. i \in 0..n /\ g[i] # h[i] /\ i # 0
  BY <1>1 DEF Alike
<1>3. i \in 1..n /\ i - 1 \in 0..n /\ ~(i <= i - 1)
  BY <1>2
<1>4. g[i - 1] = h[i - 1]
  BY <1>1, <1>3
<1> QED
  BY <1>2, <1>3, <1>4 DEF Alike

NoKeys == [line |-> <<>>, ran |-> <<>>]

Editors == [line : Seq(Keys), ran : Seq(Seq(Keys))]

LEMMA EditedType ==
  ASSUME NEW ed \in Editors, NEW key \in Keys PROVE Edited(ed, key) \in Editors
<1>1. PICK S : S = Keys
  OBVIOUS
<1>2. ed.line \in Seq(S) /\ ed.ran \in Seq(Seq(S)) /\ ed = [line |-> ed.line, ran |-> ed.ran]
  BY <1>1 DEF Editors
<1>3. ed.line # <<>> => Front(ed.line) \in Seq(S)
  BY <1>2, FrontIs
<1>4. Append(ed.line, key) \in Seq(S)
  BY <1>1, <1>2
<1>5. Append(ed.ran, Stripped(ed.line)) \in Seq(Seq(S)) /\ <<>> \in Seq(S)
  <2>1. Stripped(ed.line) \in Seq(S)
    BY <1>2, StrippedIs
  <2> QED
    BY <1>2, <2>1
<1>6. \/ ed.line # <<>> /\ Edited(ed, key) = [ed EXCEPT !.line = Front(ed.line)]
      \/ Edited(ed, key) = [line |-> <<>>, ran |-> Append(ed.ran, Stripped(ed.line))]
      \/ Edited(ed, key) = [ed EXCEPT !.line = Append(ed.line, key)]
      \/ Edited(ed, key) = ed
  BY DEF Edited
<1>7. \A s \in Seq(S) : [ed EXCEPT !.line = s] \in [line : Seq(S), ran : Seq(Seq(S))]
  BY <1>1 DEF Editors
<1>8. Edited(ed, key) \in [line : Seq(S), ran : Seq(Seq(S))]
  <2>1. CASE ed.line # <<>> /\ Edited(ed, key) = [ed EXCEPT !.line = Front(ed.line)]
    BY <1>3, <1>7, <2>1, Zenon
  <2>2. CASE Edited(ed, key) = [line |-> <<>>, ran |-> Append(ed.ran, Stripped(ed.line))]
    BY <1>5, <2>2
  <2>3. CASE Edited(ed, key) = [ed EXCEPT !.line = Append(ed.line, key)]
    BY <1>4, <1>7, <2>3, Zenon
  <2>4. CASE Edited(ed, key) = ed
    BY <1>1, <2>4 DEF Editors
  <2> QED
    BY <1>6, <2>1, <2>2, <2>3, <2>4
<1> QED
  BY <1>1, <1>8 DEF Editors

\* g[i] is what the first i keys make, without those at the indexes dropped.
Follows(g, keys, dropped) ==
  /\ g = [i \in 0..Len(keys) |-> g[i]]
  /\ \A i \in 0..Len(keys) : g[i] \in Editors
  /\ g[0] = NoKeys
  /\ \A i \in 1..Len(keys) :
       g[i] = IF i \in dropped THEN g[i - 1] ELSE Edited(g[i - 1], keys[i].key)

\* One more key.
SameBelow(more, dropped, n) == \A i \in 1..n : i \in more <=> i \in dropped

LEMMA FollowsOn ==
  ASSUME NEW S, NEW keys \in Seq(S), NEW k \in S, k.key \in Keys, NEW n \in Nat, n = Len(keys),
         NEW dropped, NEW g, Follows(g, keys, dropped), NEW more, SameBelow(more, dropped, n)
  PROVE  \E h : /\ Follows(h, Append(keys, k), more)
                /\ h[n + 1] = IF n + 1 \in more THEN g[n] ELSE Edited(g[n], k.key)
<1>1. n \in Nat /\ n = Len(keys)
  OBVIOUS
<1>2. PICK e : e = IF n + 1 \in more THEN g[n] ELSE Edited(g[n], k.key)
  OBVIOUS
<1>3. PICK h : h = [i \in 0..n + 1 |-> IF i = n + 1 THEN e ELSE g[i]]
  OBVIOUS
<1>4. PICK t : t = Append(keys, k)
  OBVIOUS
<1>5. Len(t) = n + 1 /\ t[n + 1] = k /\ \A i \in 1..n : t[i] = keys[i]
  BY <1>1, <1>4
<1>6. h[n + 1] = e /\ \A i \in 0..n : h[i] = g[i]
  BY <1>1, <1>3
<1>7. h = [i \in 0..n + 1 |-> h[i]]
  BY <1>3
<1>8. ASSUME NEW i \in 1..n + 1
      PROVE  h[i] = IF i \in more THEN h[i - 1] ELSE Edited(h[i - 1], t[i].key)
  <2>1. CASE i = n + 1
    <3>1. i - 1 = n /\ n \in 0..n
      BY <1>1, <2>1
    <3>2. h[i - 1] = g[n]
      BY <1>6, <3>1
    <3> QED
      BY <1>2, <1>5, <1>6, <2>1, <3>2
  <2>2. CASE i # n + 1
    <3>1. i \in 1..n /\ i \in 0..n /\ i - 1 \in 0..n
      BY <1>1, <2>2
    <3>2. g[i] = IF i \in dropped THEN g[i - 1] ELSE Edited(g[i - 1], keys[i].key)
      BY <1>1, <3>1 DEF Follows
    <3>3. h[i] = g[i] /\ h[i - 1] = g[i - 1] /\ t[i] = keys[i] /\ (i \in more <=> i \in dropped)
      BY <1>1, <1>5, <1>6, <3>1 DEF SameBelow
    <3> QED
      BY <3>2, <3>3
  <2> QED
    BY <2>1, <2>2
<1>9. h[0] = NoKeys
  BY <1>1, <1>6 DEF Follows
<1>10. \A i \in 0..n + 1 : h[i] \in Editors
  <2>1. \A i \in 0..n : g[i] \in Editors
    BY <1>1 DEF Follows
  <2>2. e \in Editors
    <3>1. g[n] \in Editors
      BY <1>1, <2>1
    <3> QED
      BY <1>2, <3>1, EditedType
  <2>3. \A i \in 0..n + 1 : i = n + 1 \/ i \in 0..n
    BY <1>1
  <2> QED
    BY <1>6, <2>1, <2>2, <2>3
<1>11. Follows(h, t, more)
  BY <1>5, <1>7, <1>8, <1>9, <1>10 DEF Follows
<1> QED
  BY <1>1, <1>2, <1>4, <1>6, <1>11

\* The recursion is solved by nothing else.
LEMMA EditsIs ==
  ASSUME taken \in Seq(Key), NEW g, Follows(g, taken, swallowed)
  PROVE  \A j \in 0..Len(taken) : edits[j] = g[j]
<1>1. PICK n \in Nat : n = Len(taken)
  OBVIOUS
<1> DEFINE Solves(f) == f = [i \in 0..n |-> IF i = 0 THEN NoKeys
                                            ELSE IF i \in swallowed THEN f[i - 1]
                                            ELSE Edited(f[i - 1], taken[i].key)]
<1>2. edits = CHOOSE f : Solves(f)
  BY <1>1, Zenon DEF edits, NoKeys
<1>3. Solves(g)
  <2>1. g = [i \in 0..n |-> g[i]]
    BY <1>1 DEF Follows
  <2>2. \A i \in 0..n : g[i] = IF i = 0 THEN NoKeys
                               ELSE IF i \in swallowed THEN g[i - 1]
                               ELSE Edited(g[i - 1], taken[i].key)
    <3>1. \A i \in 0..n : i = 0 \/ i \in 1..n
      BY <1>1
    <3>2. g[0] = NoKeys
      BY DEF Follows
    <3>3. \A i \in 1..n : g[i] = IF i \in swallowed THEN g[i - 1] ELSE Edited(g[i - 1], taken[i].key)
      BY <1>1 DEF Follows
    <3>4. \A i \in 1..n : i # 0
      BY <1>1
    <3> QED
      BY <3>1, <3>2, <3>3, <3>4
  <2> QED
    BY <2>1, <2>2
<1>4. Solves(edits)
  <2> HIDE DEF Solves
  <2> QED
    BY <1>2, <1>3
<1>5. edits[0] = NoKeys /\ \A i \in 1..n : edits[i] = IF i \in swallowed THEN edits[i - 1]
                                                      ELSE Edited(edits[i - 1], taken[i].key)
  <2>1. 0 \in 0..n /\ \A i \in 1..n : i \in 0..n /\ i # 0
    BY <1>1
  <2>2. PICK f : f = edits
    OBVIOUS
  <2>3. \A i \in 0..n : f[i] = IF i = 0 THEN NoKeys
                               ELSE IF i \in swallowed THEN f[i - 1]
                               ELSE Edited(f[i - 1], taken[i].key)
    BY <1>4, <2>2
  <2> QED
    BY <2>1, <2>2, <2>3
<1>6. g[0] = NoKeys /\ \A i \in 1..n : g[i] = IF i \in swallowed THEN g[i - 1]
                                              ELSE Edited(g[i - 1], taken[i].key)
  BY <1>1 DEF Follows
<1>7. edits[0] = g[0] /\ \A i \in 1..n : edits[i - 1] = g[i - 1] => edits[i] = g[i]
  BY <1>5, <1>6
<1>8. ASSUME NEW j \in 0..n PROVE edits[j] = g[j]
  <2>1. PICK f : f = edits
    OBVIOUS
  <2>2. j \in Nat /\ \A i \in 1..j : i \in 1..n
    BY <1>1
  <2>3. Alike(f, g, j)
    BY <1>7, <2>1, <2>2 DEF Alike
  <2>4. f[j] = g[j]
    BY <2>2, <2>3, Agree
  <2> QED
    BY <2>1, <2>4
<1> QED
  BY <1>1, <1>8

\* The keys of a command are handled when it has been run.
Entering == \/ at \in {"strip", "run", "below"}
            \/ at = "echo" /\ Last(taken).key = "KEY_ENTER"

\* What the editor will have made of the keys taken when the console has handled
\* the one it is at.
Due ==
  IF at \in {"drop", "erase"} THEN Edited(Ed, "KEY_BACKSPACE")
  ELSE IF at = "key" \/ pc \in {"load", "store"} THEN Edited(Ed, Last(taken).key)
  ELSE IF Entering THEN Edited(Ed, "KEY_ENTER")
  ELSE IF at \in {"exit", "reboot"} THEN [line |-> <<>>, ran |-> ran]
  ELSE Ed

Pending == \E g : Follows(g, taken, swallowed) /\ g[Len(taken)] = Due

LEMMA InitPending == ShellInit => Pending
<1> SUFFICES ASSUME ShellInit PROVE Pending
  OBVIOUS
<1>1. taken = <<>> /\ at = "start" /\ pc = "idle" /\ ran = <<>> /\ cmd_len = 0
  BY DEF ShellInit, Init
<1>2. Left = <<>>
  <2>1. ShellTypeOK /\ Kept = 0
    BY <1>1, InitShellIInv DEF ShellIInv, Kept
  <2> QED
    BY <2>1, LeftShape DEF LeftIs
<1>3. Due = NoKeys
  BY <1>1, <1>2 DEF Due, Entering, Ed, NoKeys
<1>4. PICK n \in Nat : n = Len(taken)
  BY <1>1
<1>5. n = 0
  BY <1>1, <1>4
<1>6. PICK g : g = [i \in 0..n |-> NoKeys]
  OBVIOUS
<1>7. /\ g[0] = NoKeys /\ g = [i \in 0..n |-> g[i]] /\ (\A i \in 1..n : FALSE)
      /\ \A i \in 0..n : g[i] = NoKeys
  BY <1>5, <1>6
<1>8. NoKeys \in Editors
  <2>1. \A S : <<>> \in Seq(S)
    OBVIOUS
  <2> QED
    BY <2>1 DEF NoKeys, Editors
<1>9. Follows(g, taken, swallowed)
  BY <1>4, <1>7, <1>8 DEF Follows
<1> QED
  BY <1>3, <1>4, <1>5, <1>7, <1>9 DEF Pending

\* Steps that take no key out.
LEMMA SameKeysPending ==
  ASSUME Pending, UNCHANGED <<taken, swallowed>>, Due' = Due
  PROVE  Pending'
<1>1. PICK g : Follows(g, taken, swallowed) /\ g[Len(taken)] = Due
  BY DEF Pending
<1>2. PICK ks, dr : ks = taken /\ dr = swallowed
  OBVIOUS
<1>3. taken' = ks /\ swallowed' = dr /\ Due' = Due
  BY <1>2
<1>4. Follows(g, ks, dr) /\ g[Len(ks)] = Due
  BY <1>1, <1>2
<1> QED
  BY <1>3, <1>4 DEF Pending

\* What enter makes of a line is all in what is left when it is stripped.
LEMMA EnterIs ==
  ASSUME NEW ed
  PROVE  Edited(ed, "KEY_ENTER") = [line |-> <<>>, ran |-> Append(ed.ran, Stripped(ed.line))]
<1>1. "KEY_ENTER" \notin Printable \cup {"KEY_TAB"}
  BY DEF Printable, Space
<1> QED
  BY <1>1 DEF Edited

LEMMA KeyHandledPending ==
  ASSUME ShellIInv, Pending, StepEdits,
         \/ Backspace \/ Erase \/ tty_deleteprev \/ Insert \/ Ignore \/ Enter \/ tty_putc
         \/ Strip \/ command_run \/ command_start
  PROVE  Pending'
<1>1. UNCHANGED <<taken, swallowed>>
  BY DEF Backspace, Erase, tty_deleteprev, Insert, Ignore, Enter, tty_putc, Strip, command_run,
         command_start, Call, vars, notes
<1>2. pc = "idle" /\ (pc' = "idle" \/ at' = "drop")
  <2>1. CASE Backspace
    BY <2>1 DEF Backspace, Call
  <2>2. CASE ~Backspace
    <3>1. /\ UNCHANGED vars
          /\ at \in {"erase", "rub", "key", "echo", "strip", "run", "start"}
      BY <2>2 DEF Erase, tty_deleteprev, Insert, Ignore, Enter, Got, tty_putc, Strip, command_run,
                  command_start
    <3> QED
      BY <3>1 DEF ShellIInv, Held, Waiting, vars
  <2> QED
    BY <2>1, <2>2
<1>3. Due' = Due
  <2>1. CASE Backspace
    <3>1. at = "key" /\ at' = "drop" /\ Last(taken).key = "KEY_BACKSPACE"
      BY <2>1 DEF Backspace, Erasing, Got
    <3>2. Ed' = Ed
      BY <3>1 DEF StepEdits
    <3> QED
      BY <3>1, <3>2 DEF Due
  <2>2. CASE Erase
    <3>1. at = "erase" /\ at' = "rub"
      BY <2>2 DEF Erase, Prints
    <3> QED
      BY <1>2, <3>1 DEF StepEdits, Due, Entering
  <2>3. CASE Insert \/ Ignore
    <3>1. at = "key" /\ at' \in {"loop", "echo"} /\ Last(taken).key # "KEY_ENTER"
      BY <2>3 DEF Insert, Ignore, Prints
    <3>2. Ed' = Edited(Ed, Last(taken).key)
      BY <3>1 DEF StepEdits
    <3> QED
      BY <1>1, <1>2, <3>1, <3>2 DEF Due, Entering
  <2>4. CASE Enter
    <3>1. at = "key" /\ at' = "echo" /\ Last(taken).key = "KEY_ENTER"
      BY <2>4 DEF Enter, Got, Prints
    <3>2. Ed' = Ed
      BY <3>1 DEF StepEdits
    <3> QED
      BY <1>1, <1>2, <3>1, <3>2 DEF Due, Entering
  <2>5. CASE tty_deleteprev \/ tty_putc \/ command_start
    <3>1. \/ at \in {"rub", "start"} /\ at' = "loop"
          \/ at = "echo" /\ at' = "loop" /\ Last(taken).key # "KEY_ENTER"
          \/ at = "echo" /\ at' = "strip" /\ Last(taken).key = "KEY_ENTER"
      BY <2>5 DEF tty_deleteprev, tty_putc, command_start
    <3>2. Ed' = Ed
      BY <3>1 DEF StepEdits
    <3> QED
      BY <1>1, <1>2, <3>1, <3>2 DEF Due, Entering
  <2>6. CASE Strip
    <3>1. at = "strip" /\ at' \in {"strip", "run", "below"}
      BY <2>6 DEF Strip, Prints
    <3>2. Ed' = Ed \/ (ran' = ran /\ Stripped(Left') = Stripped(Left))
      BY <3>1 DEF StepEdits
    <3>3. Ed.line = Left /\ Ed.ran = ran /\ Ed'.line = Left' /\ Ed'.ran = ran'
      BY DEF Ed
    <3>4. Edited(Ed', "KEY_ENTER") = Edited(Ed, "KEY_ENTER")
      <4>1. PICK a, b : a = Ed /\ b = Ed'
        OBVIOUS
      <4>2. /\ Edited(a, "KEY_ENTER") = [line |-> <<>>, ran |-> Append(a.ran, Stripped(a.line))]
            /\ Edited(b, "KEY_ENTER") = [line |-> <<>>, ran |-> Append(b.ran, Stripped(b.line))]
        BY EnterIs
      <4> QED
        BY <3>2, <3>3, <4>1, <4>2
    <3> QED
      BY <1>1, <1>2, <3>1, <3>4 DEF Due, Entering
  <2>7. CASE command_run
    <3>1. at = "run" /\ at' \in {"start", "exit", "reboot"}
      BY <2>7, LookupIs DEF command_run
    <3>2. CASE at' = "start"
      BY <1>2, <3>1, <3>2 DEF StepEdits, Due, Entering
    <3>3. CASE at' # "start"
      <4>1. ran' = Edited(Ed, "KEY_ENTER").ran
        BY <3>1, <3>3 DEF StepEdits
      <4>2. PICK a : a = Ed
        OBVIOUS
      <4>3. Edited(a, "KEY_ENTER") = [line |-> <<>>, ran |-> Append(a.ran, Stripped(a.line))]
        BY EnterIs
      <4>4. [line |-> <<>>, ran |-> ran'] = Edited(Ed, "KEY_ENTER")
        BY <4>1, <4>2, <4>3
      <4> QED
        BY <1>2, <3>1, <3>3, <4>4 DEF Due, Entering
    <3> QED
      BY <3>2, <3>3
  <2> QED
    BY <2>1, <2>2, <2>3, <2>4, <2>5, <2>6, <2>7
<1> QED
  BY <1>1, <1>3, SameKeysPending

\* Taking a key out: for the console, or for a backspace that forgets it.
LEMMA TakePending ==
  ASSUME ShellIInv, ShellIInv', Pending, StepEdits, Getting, pc = "take" PROVE Pending'
<1>1. PICK ks \in Seq(Key) : ks = taken
  BY DEF ShellIInv, IInv, TypeOK
<1>2. PICK k : taken' = Append(ks, k) /\ k = Last(taken')
  <2>1. PICK k : taken' = Append(ks, k)
    BY <1>1 DEF Getting, kb_get_key, Test, Take, Load, Store
  <2>2. Last(Append(ks, k)) = k
    BY <1>1 DEF Last
  <2> QED
    BY <2>1, <2>2
<1>3. k \in Key /\ k.key \in Keys
  <2>1. PICK S : S = Key
    OBVIOUS
  <2>2. ks \in Seq(S) /\ Append(ks, k) \in Seq(S)
    BY <1>1, <1>2, <2>1 DEF ShellIInv, IInv, TypeOK
  <2>3. Len(Append(ks, k)) = Len(ks) + 1 /\ Append(ks, k)[Len(ks) + 1] = k
    BY <2>2
  <2>4. k \in Key
    BY <2>1, <2>2, <2>3
  <2> QED
    BY <2>4 DEF Key
<1>4. /\ at \in {"get", "drop"} /\ at' = at /\ pc' = "load"
      /\ swallowed' = IF at = "drop" THEN swallowed \cup {Len(taken) + 1} ELSE swallowed
  <2>1. pc' = "load"
    BY DEF Getting, kb_get_key, Test, Take, Load, Store
  <2> QED
    BY <2>1 DEF Getting
<1>5. Ed' = Ed
  BY <1>4 DEF StepEdits
<1>6. PICK n \in Nat : n = Len(ks)
  BY <1>1
<1>7. PICK dr, more : dr = swallowed /\ more = swallowed'
  OBVIOUS
<1>8. PICK g : Follows(g, ks, dr) /\ g[n] = Due
  BY <1>1, <1>6, <1>7 DEF Pending
<1>9. \A i \in 1..n : i \in more <=> i \in dr
  <2>1. \A i \in 1..n : i # n + 1
    BY <1>6
  <2> QED
    BY <1>1, <1>4, <1>6, <1>7, <2>1
<1>10. at = "get" => n + 1 \notin more
  <2>1. dr \in SUBSET (1..n)
    BY <1>1, <1>6, <1>7 DEF ShellIInv, ShellTypeOK
  <2>2. n + 1 \notin 1..n
    BY <1>6
  <2> QED
    BY <1>4, <1>7, <2>1, <2>2
<1>11. at = "drop" => n + 1 \in more
  BY <1>1, <1>4, <1>6, <1>7
<1>12. PICK h : /\ Follows(h, Append(ks, k), more)
                /\ h[n + 1] = IF n + 1 \in more THEN g[n] ELSE Edited(g[n], k.key)
  <2>1. SameBelow(more, dr, n)
    BY <1>9 DEF SameBelow
  <2>2. PICK S : S = Key
    OBVIOUS
  <2>3. ks \in Seq(S) /\ k \in S
    BY <1>1, <1>3, <2>2
  <2> QED
    BY <1>3, <1>6, <1>8, <2>1, <2>3, FollowsOn
<1>13. Len(taken') = n + 1
  BY <1>2, <1>3, <1>6
<1>14. h[n + 1] = Due'
  <2>1. at = "get" => Due = Ed /\ Due' = Edited(Ed, k.key)
    BY <1>2, <1>4, <1>5 DEF Due, Entering
  <2>2. at = "drop" => Due' = Due
    BY <1>4, <1>5 DEF Due
  <2> QED
    BY <1>4, <1>8, <1>10, <1>11, <1>12, <2>1, <2>2
<1> QED
  BY <1>2, <1>7, <1>12, <1>13, <1>14 DEF Pending

LEMMA NextPending == ShellIInv /\ Pending /\ [ShellNext]_allVars => Pending'
<1> SUFFICES ASSUME ShellIInv, Pending, [ShellNext]_allVars PROVE Pending'
  OBVIOUS
<1>1. ShellIInv' /\ [StepEdits]_allVars /\ ScreenOK'
  BY NextShellIInv, ScreenStep
<1>2. ASSUME \/ UNCHANGED allVars \/ irq_timer \/ \E s \in Scancodes : irq_keyboard(s)
             \/ task_test_prints \/ task_test_printed \/ halt
      PROVE  Pending'
  <2>1. /\ UNCHANGED <<taken, swallowed, pc>> /\ Ed' = Ed
        /\ \/ at' = at
           \/ at \in {"loop", "asleep", "awake"} /\ at' \in {"loop", "asleep", "awake"}
    BY <1>1, <1>2, QuietStep, KeyboardStep
  <2>2. ran' = ran
    <3>1. Ed.ran = ran /\ Ed'.ran = ran'
      BY DEF Ed
    <3> QED
      BY <2>1, <3>1
  <2>3. Due' = Due
    BY <2>1, <2>2 DEF Due, Entering
  <2> QED
    BY <2>1, <2>3, SameKeysPending
<1>3. ASSUME GetKey \/ (Getting /\ pc # "take") PROVE Pending'
  <2>0. Ed' = Ed
    BY <1>1, <1>3, CallStep, GettingStep
  <2>1. CASE GetKey
    <3>1. /\ at = "awake" /\ at' = "get" /\ pc = "idle" /\ pc' = "test"
          /\ UNCHANGED <<taken, swallowed>>
      BY <2>1 DEF GetKey, Call, notes
    <3>2. Due' = Due
      BY <2>0, <3>1 DEF Due, Entering
    <3> QED
      BY <3>1, <3>2, SameKeysPending
  <2>2. CASE Getting /\ pc # "take"
    <3>1. /\ UNCHANGED <<taken, swallowed>> /\ at \in {"get", "drop"}
          /\ \/ pc = "test" /\ pc' \in {"idle", "take"}
             \/ pc = "load" /\ pc' = "store"
             \/ pc = "store" /\ pc' = "idle"
      BY <2>2 DEF Getting, kb_get_key, Test, Take, Load, Store
    <3>2. /\ pc' # "idle" => at' = at
          /\ pc' = "idle" /\ at = "drop" => at' = "erase"
          /\ pc' = "idle" /\ at = "get" => at' = IF pc = "store" THEN "key" ELSE "loop"
      BY <2>2 DEF Getting
    <3>3. Due' = Due
      BY <2>0, <3>1, <3>2 DEF Due, Entering
    <3> QED
      BY <3>1, <3>3, SameKeysPending
  <2> QED
    BY <1>3, <2>1, <2>2
<1>4. CASE kshell
  <2>1. CASE UNCHANGED allVars
    BY <1>2, <2>1
  <2>2. CASE StepEdits
    BY <1>1, <1>2, <1>3, <1>4, <2>2, KeyHandledPending, TakePending DEF kshell
  <2> QED
    BY <1>1, <2>1, <2>2
<1> QED
  BY <1>2, <1>4 DEF ShellNext, Halted

LEMMA AlwaysPending == ShellSpec => [](ShellIInv /\ Pending)
BY InitShellIInv, NextShellIInv, InitPending, NextPending, PTL DEF ShellSpec

\* However far ahead is typed and wherever the handler interrupts, line and
\* commands are what the one-line editor makes of all the keys taken, but for
\* the ones that backspaces have swallowed; the array is zero behind the line.
THEOREM EditsAllKeys == ShellSpec => []EditsAsTyped
<1>1. ShellIInv /\ Pending => EditsAsTyped
  <2> SUFFICES ASSUME ShellIInv, Pending, at \in {"loop", "asleep", "awake"} PROVE EditsAsTyped
    BY DEF EditsAsTyped
  <2>1. pc = "idle" /\ ZeroBehind /\ taken \in Seq(Key)
    BY DEF ShellIInv, Held, Waiting, IInv, TypeOK
  <2>2. Kept = cmd_len /\ Left = Line
    BY DEF Kept, Left, Line
  <2>3. PICK g : Follows(g, taken, swallowed) /\ g[Len(taken)] = Ed
    BY <2>1 DEF Pending, Entering, Due
  <2>4. PICK n \in Nat : n = Len(taken) /\ n \in 0..Len(taken)
    BY <2>1
  <2>5. edits[Len(taken)] = Ed
    BY <2>1, <2>3, <2>4, EditsIs
  <2>6. Ed.line = Line /\ Ed.ran = ran
    BY <2>2 DEF Ed
  <2> QED
    BY <2>1, <2>2, <2>5, <2>6 DEF EditsAsTyped, ZeroBehind
<1> QED
  BY <1>1, AlwaysPending, PTL

\* Two sequences with one more at the end of each.
LEMMA AppendsAlike ==
  ASSUME NEW S, NEW a \in Seq(S), NEW b \in Seq(S), NEW x \in S, NEW y \in S,
         Append(a, x) = Append(b, y)
  PROVE  x = y
<1>1. /\ Len(Append(a, x)) = Len(a) + 1 /\ Append(a, x)[Len(a) + 1] = x
      /\ Len(Append(b, y)) = Len(b) + 1 /\ Append(b, y)[Len(b) + 1] = y
  OBVIOUS
<1>2. Len(a) = Len(b)
  BY <1>1
<1> QED
  BY <1>1, <1>2

\* For every length of the line and every place of the interrupts: the loop in
\* command_run ends with the line as it was typed less the blanks at its end, or
\* below the array when there was nothing else.
THEOREM LoopStrips == ShellSpec => []StripsLine
<1>1. ShellIInv /\ Pending => StripsLine
  <2> SUFFICES ASSUME ShellIInv, Pending, at \in {"run", "below"} PROVE StripsLine
    BY DEF StripsLine
  <2>1. /\ pc = "idle" /\ ZeroBehind /\ taken \in Seq(Key) /\ Kept = len_left /\ LeftIs
        /\ taken # <<>> /\ Len(taken) \notin swallowed /\ Last(taken).key = "KEY_ENTER"
    BY LeftShape DEF ShellIInv, Held, Waiting, KeyTaken, IInv, TypeOK, Kept
  <2>2. PICK n \in Nat : n = Len(taken) /\ n \in 1..n /\ n - 1 \in 0..n /\ n \in 0..n
    <3>1. Len(taken) \in Nat /\ Len(taken) > 0
      BY <2>1
    <3> QED
      BY <3>1
  <2>3. PICK g : Follows(g, taken, swallowed) /\ g[n] = Edited(Ed, "KEY_ENTER")
    BY <2>1, <2>2 DEF Pending, Entering, Due
  <2>4. PICK typed : typed = g[n - 1]
    OBVIOUS
  <2>5. edits[Len(taken) - 1] = typed
    BY <2>1, <2>2, <2>3, <2>4, EditsIs
  <2>6. g[n] = Edited(typed, "KEY_ENTER") /\ typed \in Editors
    <3>1. taken[n] = Last(taken)
      BY <2>2 DEF Last
    <3> QED
      BY <2>1, <2>2, <2>3, <2>4, <3>1 DEF Follows
  <2>7. PICK ed : ed = Ed /\ ed.line = Left /\ ed.ran = ran
    <3>1. Ed.line = Left /\ Ed.ran = ran
      BY DEF Ed
    <3> QED
      BY <3>1
  <2>8. Append(typed.ran, Stripped(typed.line)) = Append(ran, Stripped(Left))
    <3>1. /\ Edited(typed, "KEY_ENTER")
               = [line |-> <<>>, ran |-> Append(typed.ran, Stripped(typed.line))]
          /\ Edited(ed, "KEY_ENTER") = [line |-> <<>>, ran |-> Append(ed.ran, Stripped(ed.line))]
      BY EnterIs
    <3>2. Edited(typed, "KEY_ENTER").ran = Edited(ed, "KEY_ENTER").ran
      BY <2>3, <2>6, <2>7
    <3> QED
      BY <2>7, <3>1, <3>2
  <2>9. Stripped(typed.line) = Stripped(Left)
    <3>1. PICK S : S = Seq(Keys)
      OBVIOUS
    <3>2. typed.ran \in Seq(S) /\ ran \in Seq(S) /\ typed.line \in S /\ Left \in S
      BY <2>1, <2>6, <3>1 DEF Editors, ShellIInv, ShellTypeOK, LeftIs
    <3>3. Stripped(typed.line) \in S /\ Stripped(Left) \in S
      BY <3>1, <3>2, StrippedIs
    <3> QED
      BY <2>8, <3>2, <3>3, AppendsAlike
  <2>10. Stripped(Left) = Left
    <3>1. Left \in Seq(Keys) /\ Len(Left) = len_left /\ len_left \in Nat
      BY <2>1 DEF LeftIs
    <3>2. CASE len_left = 0
      <4>1. Left = <<>>
        BY <2>1, <3>2 DEF LeftIs
      <4> QED
        BY <3>1, <4>1, StrippedDone
    <3>3. CASE len_left # 0
      <4>1. len_left \in 1..Kept /\ at = "run"
        BY <2>1, <3>1, <3>3 DEF ShellIInv, Held, LoopDone
      <4>2. Left[Len(Left)] = cmd[len_left - 1]
        BY <2>1, <3>1, <4>1 DEF LeftIs
      <4>3. isspace(Left[Len(Left)]) # 0
        BY <3>3, <4>1, <4>2 DEF ShellIInv, Held, LoopDone
      <4> QED
        BY <3>1, <4>3, StrippedDone
    <3> QED
      BY <3>2, <3>3
  <2>11. /\ [i \in 1..len_left |-> cmd[i - 1]] = Stripped(typed.line)
         /\ \A i \in len_left..CmdSize - 1 : cmd[i] = NUL
    BY <2>1, <2>9, <2>10 DEF Left, ZeroBehind
  <2>12. at = "below" => Blank(typed.line)
    <3> SUFFICES ASSUME at = "below" PROVE Blank(typed.line)
      OBVIOUS
    <3>1. Left = <<>>
      BY <2>1 DEF ShellIInv, Held, LoopDone, LeftIs
    <3>2. typed.line \in Seq(Keys) /\ Stripped(typed.line) = <<>>
      BY <2>6, <2>9, <2>10, <3>1 DEF Editors
    <3> QED
      BY <3>2, StrippedIs
  <2> QED
    BY <2>5, <2>11, <2>12, Zenon DEF StripsLine
<1> QED
  BY <1>1, AlwaysPending, PTL
-----------------------------------------------------------------------------
(* The console: what the screen shows of the line *)

\* g[k] is what k characters of the array print, beginning with the one at m.
Draws(g, array, m, base, n) ==
  /\ g = [k \in 0..n |-> g[k]]
  /\ \A k \in 0..n : g[k] \in Seq(Keys)
  /\ g[0] = <<>>
  /\ \A k \in 1..n : g[k] = Shown(g[k - 1], base, array[m + k - 1])

LEMMA DrawsNothing ==
  ASSUME NEW array, NEW m, NEW base PROVE \E g : Draws(g, array, m, base, 0) /\ g[0] = <<>>
<1>1. PICK nil \in Seq(Keys) : nil = <<>>
  <2>1. PICK S : S = Keys
    OBVIOUS
  <2>2. <<>> \in Seq(S)
    OBVIOUS
  <2> QED
    BY <2>1, <2>2
<1>2. PICK n \in Nat : n = 0
  OBVIOUS
<1>3. PICK g : g = [k \in 0..n |-> nil]
  OBVIOUS
<1>4. /\ g = [k \in 0..n |-> g[k]] /\ g[0] = nil
      /\ (\A k \in 0..n : g[k] \in Seq(Keys)) /\ \A k \in 1..n : FALSE
  BY <1>1, <1>2, <1>3
<1>5. Draws(g, array, m, base, n)
  BY <1>1, <1>4 DEF Draws
<1> QED
  BY <1>1, <1>2, <1>4, <1>5


\* The arrays agree from m on, for n characters.
SameFrom(a, b, m, n) == \A k \in 1..n : a[m + k - 1] = b[m + k - 1]

LEMMA DrawsOn ==
  ASSUME NEW g, NEW a, NEW b, NEW m, NEW base \in Nat, NEW n \in Nat, Draws(g, a, m, base, n),
         SameFrom(a, b, m, n), NEW key \in Keys, b[m + (n + 1) - 1] = key
  PROVE  \E h : Draws(h, b, m, base, n + 1) /\ h[n + 1] = Shown(g[n], base, key)
<1>1. PICK e : e = Shown(g[n], base, key)
  OBVIOUS
<1>2. e \in Seq(Keys)
  <2>1. g[n] \in Seq(Keys)
    <3>1. n \in 0..n
      OBVIOUS
    <3> QED
      BY <3>1 DEF Draws
  <2> QED
    BY <1>1, <2>1, ShownType
<1>3. PICK h : h = [k \in 0..n + 1 |-> IF k = n + 1 THEN e ELSE g[k]]
  OBVIOUS
<1>4. h[n + 1] = e /\ (\A k \in 0..n : h[k] = g[k]) /\ h = [k \in 0..n + 1 |-> h[k]]
  BY <1>3
<1>5. \A k \in 0..n + 1 : k = n + 1 \/ k \in 0..n
  OBVIOUS
<1>6. \A k \in 0..n + 1 : h[k] \in Seq(Keys)
  BY <1>2, <1>4, <1>5 DEF Draws
<1>7. ASSUME NEW k \in 1..n + 1 PROVE h[k] = Shown(h[k - 1], base, b[m + k - 1])
  <2>1. CASE k = n + 1
    <3>1. k - 1 = n /\ n \in 0..n
      BY <2>1
    <3>2. h[k - 1] = g[n]
      BY <1>4, <3>1
    <3> QED
      BY <1>1, <1>4, <2>1, <3>2
  <2>2. CASE k # n + 1
    <3>1. k \in 1..n /\ k \in 0..n /\ k - 1 \in 0..n
      BY <2>2
    <3>2. g[k] = Shown(g[k - 1], base, a[m + k - 1])
      BY <3>1 DEF Draws
    <3>3. h[k] = g[k] /\ h[k - 1] = g[k - 1] /\ a[m + k - 1] = b[m + k - 1]
      BY <1>4, <3>1 DEF SameFrom
    <3> QED
      BY <3>2, <3>3
  <2> QED
    BY <2>1, <2>2
<1>8. h[0] = <<>>
  <2>1. 0 \in 0..n
    OBVIOUS
  <2> QED
    BY <1>4, <2>1 DEF Draws
<1>9. Draws(h, b, m, base, n + 1)
  BY <1>4, <1>6, <1>7, <1>8 DEF Draws
<1> QED
  BY <1>1, <1>4, <1>9


LEMMA DrawsLess ==
  ASSUME NEW g, NEW a, NEW b, NEW m, NEW base, NEW n \in Nat, Draws(g, a, m, base, n + 1),
         SameFrom(a, b, m, n)
  PROVE  \E h : Draws(h, b, m, base, n) /\ h[n] = g[n]
<1>1. PICK h : h = [k \in 0..n |-> g[k]]
  OBVIOUS
<1>2. (\A k \in 0..n : h[k] = g[k]) /\ h = [k \in 0..n |-> h[k]]
  BY <1>1
<1>3. \A k \in 0..n : k \in 0..n + 1
  OBVIOUS
<1>4. \A k \in 0..n : h[k] \in Seq(Keys)
  BY <1>2, <1>3 DEF Draws
<1>5. ASSUME NEW k \in 1..n PROVE h[k] = Shown(h[k - 1], base, b[m + k - 1])
  <2>1. k \in 1..n + 1 /\ k \in 0..n /\ k - 1 \in 0..n
    OBVIOUS
  <2>2. g[k] = Shown(g[k - 1], base, a[m + k - 1])
    BY <2>1 DEF Draws
  <2>3. h[k] = g[k] /\ h[k - 1] = g[k - 1] /\ a[m + k - 1] = b[m + k - 1]
    BY <1>2, <2>1 DEF SameFrom
  <2> QED
    BY <2>2, <2>3
<1>6. h[0] = <<>> /\ 0 \in 0..n /\ n \in 0..n
  <2>1. 0 \in 0..n /\ n \in 0..n
    OBVIOUS
  <2> QED
    BY <1>2, <2>1 DEF Draws
<1>7. Draws(h, b, m, base, n)
  BY <1>2, <1>4, <1>5, <1>6 DEF Draws
<1> QED
  BY <1>2, <1>6, <1>7


LEMMA DrawsKept ==
  ASSUME NEW g, NEW a, NEW b, NEW m, NEW base, NEW n, Draws(g, a, m, base, n),
         SameFrom(a, b, m, n)
  PROVE  Draws(g, b, m, base, n)
<1>1. \A k \in 1..n : g[k] = Shown(g[k - 1], base, b[m + k - 1])
  <2> SUFFICES ASSUME NEW k \in 1..n PROVE g[k] = Shown(g[k - 1], base, b[m + k - 1])
    OBVIOUS
  <2>1. g[k] = Shown(g[k - 1], base, a[m + k - 1]) /\ a[m + k - 1] = b[m + k - 1]
    BY DEF Draws, SameFrom
  <2> QED
    BY <2>1
<1> QED
  BY <1>1 DEF Draws

\* The recursion of Rendered is solved by nothing else.
LEMMA RenderedIs ==
  ASSUME NEW s, NEW n \in Nat, n = Len(s), NEW base, NEW g, NEW array, NEW m,
         Draws(g, array, m, base, n), \A k \in 1..n : s[k] = array[m + k - 1]
  PROVE  Rendered(s, base) = g[n]
<1> DEFINE Solves(f) == f = [k \in 0..n |-> IF k = 0 THEN <<>> ELSE Shown(f[k - 1], base, s[k])]
<1>1. Rendered(s, base) = (CHOOSE f : Solves(f))[n]
  BY Zenon DEF Rendered
<1>2. g[0] = <<>> /\ \A k \in 1..n : g[k] = Shown(g[k - 1], base, s[k])
  BY DEF Draws
<1>3. \A k \in 0..n : k = 0 \/ k \in 1..n
  OBVIOUS
<1>4. \A k \in 1..n : k # 0
  OBVIOUS
<1>5. Solves(g)
  <2>1. g = [k \in 0..n |-> g[k]]
    BY DEF Draws
  <2>2. \A k \in 0..n : g[k] = IF k = 0 THEN <<>> ELSE Shown(g[k - 1], base, s[k])
    BY <1>2, <1>3, <1>4
  <2> QED
    BY <2>1, <2>2
<1>6. PICK f : f = CHOOSE w : Solves(w)
  OBVIOUS
<1>7. Solves(f)
  <2> HIDE DEF Solves
  <2> QED
    BY <1>5, <1>6
<1>8. \A k \in 0..n : f[k] = IF k = 0 THEN <<>> ELSE Shown(f[k - 1], base, s[k])
  BY <1>7
<1>9. f[0] = <<>> /\ \A k \in 1..n : f[k] = Shown(f[k - 1], base, s[k])
  <2>1. 0 \in 0..n /\ \A k \in 1..n : k \in 0..n
    OBVIOUS
  <2> HIDE DEF Solves
  <2> QED
    BY <1>4, <1>8, <2>1
<1> HIDE DEF Solves
<1>10. Alike(f, g, n)
  BY <1>2, <1>9 DEF Alike
<1> QED
  BY <1>1, <1>6, <1>10, Agree


\* The cells are what the first characters of the array print, size of them, or
\* all but the first m; behind the prompt none is missing.
ShowsEnd(cells, array, size, from, base) ==
  \E m \in Nat, n \in Nat : /\ m + n = size /\ (from = "prompt" => m = 0)
                            /\ \E g : Draws(g, array, m, base, n) /\ cells = g[n]

LEMMA ShowsNothing ==
  ASSUME NEW array, NEW size \in Nat, NEW from, NEW base, from = "prompt" => size = 0
  PROVE  ShowsEnd(<<>>, array, size, from, base)
<1>1. PICK g : Draws(g, array, size, base, 0) /\ g[0] = <<>>
  BY DrawsNothing
<1>2. size + 0 = size /\ 0 \in Nat
  OBVIOUS
<1> QED
  BY <1>1, <1>2 DEF ShowsEnd

\* The first characters of two arrays are the same.
SameStart(a, b, size) == \A i \in 0..size - 1 : a[i] = b[i]

LEMMA StartFrom ==
  ASSUME NEW a, NEW b, NEW size \in Nat, NEW m \in Nat, NEW n \in Nat, m + n <= size,
         SameStart(a, b, size)
  PROVE  SameFrom(a, b, m, n)
<1> SUFFICES ASSUME NEW k \in 1..n PROVE a[m + k - 1] = b[m + k - 1]
  BY DEF SameFrom
<1>1. m + k - 1 \in 0..size - 1
  OBVIOUS
<1> QED
  BY <1>1 DEF SameStart

LEMMA ShowsKept ==
  ASSUME NEW cells, NEW a, NEW b, NEW size \in Nat, NEW from, NEW base,
         ShowsEnd(cells, a, size, from, base), SameStart(a, b, size)
  PROVE  ShowsEnd(cells, b, size, from, base)
<1>1. PICK m \in Nat, n \in Nat : /\ m + n = size /\ (from = "prompt" => m = 0)
                                  /\ \E g : Draws(g, a, m, base, n) /\ cells = g[n]
  BY DEF ShowsEnd
<1>2. PICK g : Draws(g, a, m, base, n) /\ cells = g[n]
  BY <1>1
<1>3. m + n <= size
  BY <1>1
<1>4. Draws(g, b, m, base, n)
  BY <1>2, <1>3, StartFrom, DrawsKept
<1> QED
  BY <1>1, <1>2, <1>4 DEF ShowsEnd

\* One more character is printed.
LEMMA ShowsMore ==
  ASSUME NEW cells, NEW a, NEW size \in Nat, NEW from, NEW base \in Nat,
         ShowsEnd(cells, a, size, from, base), a[size] \in Keys
  PROVE  ShowsEnd(Shown(cells, base, a[size]), a, size + 1, from, base)
<1>1. PICK m \in Nat, n \in Nat : /\ m + n = size /\ (from = "prompt" => m = 0)
                                  /\ \E g : Draws(g, a, m, base, n) /\ cells = g[n]
  BY DEF ShowsEnd
<1>2. PICK g : Draws(g, a, m, base, n) /\ cells = g[n]
  BY <1>1
<1>3. SameFrom(a, a, m, n)
  BY DEF SameFrom
<1>4. PICK key \in Keys : key = a[size]
  OBVIOUS
<1>5. a[m + (n + 1) - 1] = key
  <2>1. m + (n + 1) - 1 = size
    BY <1>1
  <2> QED
    BY <1>4, <2>1
<1>6. PICK h : Draws(h, a, m, base, n + 1) /\ h[n + 1] = Shown(g[n], base, key)
  BY <1>2, <1>3, <1>5, DrawsOn
<1>7. n + 1 \in Nat /\ m + (n + 1) = size + 1
  BY <1>1
<1> QED
  BY <1>1, <1>2, <1>4, <1>6, <1>7 DEF ShowsEnd

\* The last cell is the last character; or nothing of the line is shown, and then
\* the prompt is not either.
Rubs(cells, b, size, from, base) ==
  \/ \E c \in Keys, front \in Seq(Keys) : /\ cells = Append(front, c)
                                          /\ ShowsEnd(front, b, size, from, base)
  \/ cells = <<>> /\ from # "prompt"

LEMMA ShowsLess ==
  ASSUME NEW cells, NEW a, NEW b, NEW size \in Nat, NEW from, NEW base,
         ShowsEnd(cells, a, size + 1, from, base), SameStart(a, b, size),
         a[size] \in Keys, a[size] # "KEY_TAB"
  PROVE  Rubs(cells, b, size, from, base)
<1>1. PICK m \in Nat, n \in Nat : /\ m + n = size + 1 /\ (from = "prompt" => m = 0)
                                  /\ \E g : Draws(g, a, m, base, n) /\ cells = g[n]
  BY DEF ShowsEnd
<1>2. PICK g : Draws(g, a, m, base, n) /\ cells = g[n]
  BY <1>1
<1>3. CASE n = 0
  <2>1. m # 0
    BY <1>1, <1>3
  <2>2. cells = <<>>
    BY <1>2, <1>3 DEF Draws
  <2> QED
    BY <1>1, <2>1, <2>2 DEF Rubs
<1>4. CASE n # 0
  <2>1. PICK q \in Nat : n = q + 1
    <3>1. n - 1 \in Nat /\ n = (n - 1) + 1
      BY <1>4
    <3> QED
      BY <3>1
  <2>2. m + q = size /\ m + q <= size
    BY <1>1, <2>1
  <2>3. PICK h : Draws(h, b, m, base, q) /\ h[q] = g[q]
    BY <1>2, <2>1, <2>2, StartFrom, DrawsLess
  <2>4. PICK c \in Keys : c = a[size] /\ c # "KEY_TAB"
    OBVIOUS
  <2>5. g[n] = Shown(g[q], base, c) /\ g[q] \in Seq(Keys)
    <3>1. n \in 1..n /\ n - 1 = q /\ q \in 0..n /\ m + n - 1 = size
      BY <1>1, <2>1
    <3>2. g[n] = Shown(g[n - 1], base, a[m + n - 1]) /\ g[q] \in Seq(Keys)
      BY <1>2, <3>1 DEF Draws
    <3> QED
      BY <2>4, <3>1, <3>2
  <2>6. cells = Append(g[q], c)
    BY <1>2, <2>4, <2>5 DEF Shown
  <2>7. ShowsEnd(g[q], b, size, from, base)
    BY <1>1, <2>2, <2>3 DEF ShowsEnd
  <2> QED
    BY <2>4, <2>5, <2>6, <2>7 DEF Rubs
<1> QED
  BY <1>3, <1>4

LEMMA FrontOfAppend ==
  ASSUME NEW S, NEW u \in Seq(S), NEW c \in S
  PROVE  Append(u, c) # <<>> /\ Front(Append(u, c)) = u
<1>1. PICK v \in Seq(S) : v = Append(u, c)
  <2>1. Append(u, c) \in Seq(S)
    OBVIOUS
  <2> QED
    BY <2>1
<1>2. v # <<>> /\ Len(v) = Len(u) + 1 /\ \A i \in 1..Len(u) : v[i] = u[i]
  BY <1>1
<1>3. /\ Front(v) \in Seq(S) /\ Len(Front(v)) = Len(v) - 1
      /\ \A i \in 1..Len(v) - 1 : Front(v)[i] = v[i]
  BY <1>2, FrontIs
<1>4. Len(v) - 1 = Len(u)
  BY <1>2
<1>5. Len(Front(v)) = Len(u) /\ \A i \in 1..Len(u) : Front(v)[i] = u[i]
  BY <1>2, <1>3, <1>4
<1>6. Front(v) = u
  BY <1>3, <1>5
<1> QED
  BY <1>1, <1>2, <1>6

\* Between two outputs the screen shows the line or the end of it; inside
\* tty_putc all but the new character; inside tty_deleteprev one cell more.
Drawn ==
  \/ parted \/ caught \/ at \notin Editing \cup {"echo", "rub"}
  \/ at \in Editing /\ ShowsEnd(echo, cmd, cmd_len, origin, Column)
  \/ at = "echo" /\ Last(taken).key = "KEY_ENTER"
  \/ /\ at = "echo"
     /\ \E size \in Nat : /\ cmd_len = size + 1 /\ cmd[size] = Last(taken).key
                          /\ ShowsEnd(echo, cmd, size, origin, Column)
  \/ at = "rub" /\ Rubs(echo, cmd, cmd_len, origin, Column)

\* Neither the line nor the screen changes.
LEMMA KeptDrawn ==
  ASSUME Drawn, UNCHANGED <<cmd, cmd_len, screenVars>>,
         \/ at \in Editing /\ at' \in Editing
         \/ at' = at /\ (at = "echo" => taken' = taken)
  PROVE  Drawn'
<1>1. Column' = Column /\ UNCHANGED <<echo, origin, parted, caught>>
  BY DEF Column, screenVars
<1>2. CASE at \in Editing /\ at' \in Editing
  <2>1. at # "echo" /\ at # "rub"
    BY <1>2 DEF Editing
  <2> QED
    BY <1>1, <1>2, <2>1 DEF Drawn
<1>3. CASE at' = at /\ (at = "echo" => taken' = taken)
  <2>1. CASE at = "echo"
    BY <1>1, <1>3, <2>1 DEF Drawn, Editing
  <2>2. CASE at # "echo"
    BY <1>1, <1>3, <2>2 DEF Drawn
  <2> QED
    BY <2>1, <2>2
<1> QED
  BY <1>2, <1>3

\* A new start: the shortcut has cleared the screen or task_test has printed.
\* From here on the end of the line is shown.
LEMMA AfreshDrawn ==
  ASSUME ShellIInv, UNCHANGED <<cmd, cmd_len>>, echo' = <<>>, origin' # "prompt",
         at \in Output => caught',
         \/ at \in Editing /\ at' \in Editing
         \/ at' = at
  PROVE  Drawn'
<1>1. CASE at' \in Editing
  <2>1. PICK size \in Nat : size = cmd_len'
    BY KshellConstants DEF ShellIInv, ShellTypeOK
  <2>2. PICK array, from, base : array = cmd' /\ from = origin' /\ base = Column'
    OBVIOUS
  <2>3. ShowsEnd(<<>>, array, size, from, base)
    BY <2>2, ShowsNothing
  <2> QED
    BY <1>1, <2>1, <2>2, <2>3 DEF Drawn
<1>2. CASE at' \in {"echo", "rub"}
  <2>1. at' = at /\ at \in Output
    BY <1>2 DEF Editing, Output
  <2> QED
    BY <2>1 DEF Drawn
<1>3. CASE at' \notin Editing \cup {"echo", "rub"}
  BY <1>3 DEF Drawn
<1> QED
  BY <1>1, <1>2, <1>3

\* The prompt.
LEMMA StartDrawn == ASSUME ShellIInv, command_start PROVE Drawn'
<1>1. cmd_len' = 0 /\ echo' = <<>> /\ at' = "loop"
  BY DEF command_start, lineVars, ShellIInv, Held, Erasable
<1>2. PICK array, from, base : array = cmd' /\ from = origin' /\ base = Column'
  OBVIOUS
<1>3. PICK size \in Nat : size = 0
  OBVIOUS
<1>4. ShowsEnd(<<>>, array, size, from, base)
  BY <1>3, ShowsNothing
<1> QED
  BY <1>1, <1>2, <1>3, <1>4 DEF Drawn, Editing

\* A character is stored behind the ones typed, and will be printed behind the
\* ones shown.
LEMMA InsertDrawn == ASSUME ShellIInv, Drawn, Insert PROVE Drawn'
<1>1. CASE cmd_len >= CmdSize
  <2>1. UNCHANGED <<cmd, cmd_len, screenVars>> /\ at = "key" /\ at' = "loop"
    <3>1. cmd_len \in Nat /\ CmdSize \in Nat
      BY KshellConstants DEF ShellIInv, ShellTypeOK
    <3>2. ~(cmd_len < CmdSize)
      BY <1>1, <3>1
    <3> QED
      BY <3>2 DEF Insert, screenVars
  <2> QED
    BY <2>1, KeptDrawn DEF Editing
<1>2. CASE parted \/ caught
  <2>1. parted' = parted /\ (caught' = caught \/ caught' = (caught \/ printing))
    BY Zenon DEF Insert, Prints
  <2>2. parted' \/ caught'
    BY <1>2, <2>1, Zenon
  <2> QED
    BY <2>2 DEF Drawn
<1>3. ASSUME ~(cmd_len >= CmdSize), ~parted, ~caught PROVE Drawn'
  <2>1. PICK key : /\ key = Last(taken).key /\ cmd' = [cmd EXCEPT ![cmd_len] = key]
                   /\ cmd_len' = cmd_len + 1 /\ at = "key" /\ at' = "echo"
                   /\ UNCHANGED <<echo, origin, taken>>
    BY <1>3 DEF Insert, Prints, vars
  <2>2. PICK size \in Nat : size = cmd_len
    BY KshellConstants DEF ShellIInv, ShellTypeOK
  <2>3. /\ cmd \in [0..CmdSize - 1 -> Keys] /\ cmd_len \in 0..CmdSize - 1
    <3>1. cmd \in [0..CmdSize - 1 -> Keys] /\ cmd_len \in 0..CmdSize /\ CmdSize \in Nat
      BY KshellConstants DEF ShellIInv, ShellTypeOK
    <3> QED
      BY <1>3, <3>1
  <2>4. PICK a, b : /\ a = cmd /\ b = cmd' /\ b[size] = key
                    /\ \A i \in 0..CmdSize - 1 : i # size => b[i] = a[i]
    <3>1. cmd'[size] = key /\ \A i \in 0..CmdSize - 1 : i # size => cmd'[i] = cmd[i]
      BY <2>1, <2>2, <2>3
    <3> QED
      BY <3>1
  <2>5. SameStart(a, b, size)
    <3>1. \A i \in 0..size - 1 : i \in 0..CmdSize - 1 /\ i # size
      BY <2>2, <2>3, KshellConstants
    <3> QED
      BY <2>4, <3>1 DEF SameStart
  <2>6. PICK cells, from, base : cells = echo /\ from = origin /\ base = Column
    OBVIOUS
  <2>7. ShowsEnd(cells, a, size, from, base)
    BY <1>3, <2>1, <2>2, <2>4, <2>6 DEF Drawn, Editing
  <2>8. ShowsEnd(cells, b, size, from, base)
    BY <2>5, <2>7, ShowsKept
  <2>9. cells = echo' /\ from = origin' /\ base = Column'
    BY <2>1, <2>6 DEF Column
  <2>10. ShowsEnd(echo', cmd', size, origin', Column') /\ cmd'[size] = Last(taken').key
    BY <2>1, <2>4, <2>8, <2>9
  <2> QED
    BY <2>1, <2>2, <2>10 DEF Drawn
<1> QED
  BY <1>1, <1>2, <1>3

\* It is printed.
LEMMA PutcDrawn == ASSUME ShellIInv, Drawn, tty_putc PROVE Drawn'
<1>1. CASE Last(taken).key = "KEY_ENTER"
  <2>1. at' = "strip"
    BY <1>1 DEF tty_putc
  <2> QED
    BY <2>1 DEF Drawn, Editing
<1>2. ASSUME Last(taken).key # "KEY_ENTER" PROVE Drawn'
  <2>1. /\ at = "echo" /\ at' = "loop" /\ echo' = Shown(echo, Column, Last(taken).key)
        /\ UNCHANGED <<origin, parted, caught, cmd, cmd_len>>
    BY <1>2 DEF tty_putc
  <2>2. CASE parted \/ caught
    BY <2>1, <2>2 DEF Drawn
  <2>3. ASSUME ~parted, ~caught PROVE Drawn'
    <3>1. PICK size \in Nat : /\ cmd_len = size + 1 /\ cmd[size] = Last(taken).key
                              /\ ShowsEnd(echo, cmd, size, origin, Column)
      BY <1>2, <2>1, <2>3 DEF Drawn, Editing
    <3>2. PICK cells, a, from, base :
            /\ cells = echo /\ a = cmd /\ from = origin
            /\ base = Column /\ base = Column' /\ base \in Nat
      <4>1. Column' = Column /\ Column \in Nat
        BY <2>1, ColumnType DEF Column
      <4> QED
        BY <4>1
    <3>3. a[size] \in Keys /\ a[size] = Last(taken).key
      BY <2>1, <3>1, <3>2, LastKey
    <3>4. ShowsEnd(cells, a, size, from, base)
      BY <3>1, <3>2
    <3>5. ShowsEnd(Shown(cells, base, a[size]), a, size + 1, from, base)
      BY <3>2, <3>3, <3>4, ShowsMore
    <3>6. ShowsEnd(echo', cmd', cmd_len', origin', Column')
      BY <2>1, <3>1, <3>2, <3>3, <3>5
    <3> QED
      BY <2>1, <3>6 DEF Drawn, Editing
  <2> QED
    BY <2>2, <2>3
<1> QED
  BY <1>1, <1>2

\* A character is taken off the line, its cell still to be.
LEMMA EraseDrawn == ASSUME ShellIInv, Drawn, Erase PROVE Drawn'
<1>1. CASE parted \/ caught \/ cmd[cmd_len - 1] = "KEY_TAB"
  <2>1. parted' \/ caught'
    BY <1>1 DEF Erase, Prints
  <2> QED
    BY <2>1 DEF Drawn
<1>2. ASSUME ~parted, ~caught, cmd[cmd_len - 1] # "KEY_TAB" PROVE Drawn'
  <2>1. /\ cmd' = [cmd EXCEPT ![cmd_len - 1] = NUL] /\ cmd_len' = cmd_len - 1
        /\ at = "erase" /\ at' = "rub" /\ UNCHANGED <<echo, origin>>
    BY DEF Erase, Prints
  <2>2. /\ cmd_len \in 1..CmdSize /\ CmdSize \in Nat /\ cmd \in [0..CmdSize - 1 -> Keys]
    <3>1. /\ cmd_len \in 0..CmdSize /\ cmd_len > 0 /\ CmdSize \in Nat
          /\ cmd \in [0..CmdSize - 1 -> Keys]
      BY <2>1, KshellConstants DEF ShellIInv, ShellTypeOK, Held, Erasable
    <3> QED
      BY <3>1
  <2>3. PICK size \in Nat : size + 1 = cmd_len /\ size = cmd_len - 1 /\ size \in 0..CmdSize - 1
    <3>1. cmd_len - 1 \in Nat /\ (cmd_len - 1) + 1 = cmd_len /\ cmd_len - 1 \in 0..CmdSize - 1
      BY <2>2
    <3> QED
      BY <3>1
  <2>4. PICK a, b : /\ a = cmd /\ b = cmd' /\ a[size] \in Keys
                    /\ \A i \in 0..CmdSize - 1 : i # size => b[i] = a[i]
    BY <2>1, <2>2, <2>3
  <2>5. SameStart(a, b, size)
    <3>1. \A i \in 0..size - 1 : i \in 0..CmdSize - 1 /\ i # size
      BY <2>2, <2>3
    <3> QED
      BY <2>4, <3>1 DEF SameStart
  <2>6. PICK cells, from, base : cells = echo /\ from = origin /\ base = Column
    OBVIOUS
  <2>7. ShowsEnd(cells, a, size + 1, from, base)
    BY <1>2, <2>1, <2>3, <2>4, <2>6 DEF Drawn, Editing
  <2>8. a[size] # "KEY_TAB"
    BY <1>2, <2>3, <2>4
  <2>9. Rubs(cells, b, size, from, base)
    BY <2>4, <2>5, <2>7, <2>8, ShowsLess
  <2>10. cells = echo' /\ from = origin' /\ base = Column' /\ size = cmd_len'
    BY <2>1, <2>3, <2>6 DEF Column
  <2>11. Rubs(echo', cmd', cmd_len', origin', Column')
    BY <2>4, <2>9, <2>10
  <2> QED
    BY <2>1, <2>11 DEF Drawn
<1> QED
  BY <1>1, <1>2

\* The cell goes.
LEMMA RubDrawn == ASSUME ShellIInv, Drawn, tty_deleteprev PROVE Drawn'
<1>1. /\ at = "rub" /\ at' = "loop" /\ UNCHANGED <<cmd, cmd_len, origin, caught>>
      /\ echo' = IF echo = <<>> THEN echo ELSE Front(echo)
      /\ parted' = (parted \/ (echo = <<>> /\ origin = "row"))
  BY DEF tty_deleteprev, lineVars
<1>2. CASE parted \/ caught
  BY <1>1, <1>2 DEF Drawn
<1>3. ASSUME ~parted, ~caught PROVE Drawn'
  <2>1. Rubs(echo, cmd, cmd_len, origin, Column)
    BY <1>1, <1>3 DEF Drawn, Editing
  <2>2. Column' = Column
    BY <1>1 DEF Column
  <2>3. CASE echo = <<>> /\ origin # "prompt"
    <3>1. PICK size \in Nat : size = cmd_len'
      BY <1>1, KshellConstants DEF ShellIInv, ShellTypeOK
    <3>2. PICK array, from, base : array = cmd' /\ from = origin' /\ base = Column'
      OBVIOUS
    <3>3. ShowsEnd(<<>>, array, size, from, base)
      BY <1>1, <2>3, <3>2, ShowsNothing
    <3> QED
      BY <1>1, <2>3, <3>1, <3>2, <3>3 DEF Drawn, Editing
  <2>4. ASSUME ~(echo = <<>> /\ origin # "prompt") PROVE Drawn'
    <3>1. PICK c \in Keys, front \in Seq(Keys) :
            echo = Append(front, c) /\ ShowsEnd(front, cmd, cmd_len, origin, Column)
      BY <2>1, <2>4 DEF Rubs
    <3>2. Append(front, c) # <<>> /\ Front(Append(front, c)) = front
      <4>1. PICK S : S = Keys
        OBVIOUS
      <4>2. front \in Seq(S) /\ c \in S
        BY <4>1
      <4> QED
        BY <4>2, FrontOfAppend
    <3>3. echo' = front
      BY <1>1, <3>1, <3>2
    <3> QED
      BY <1>1, <2>2, <3>1, <3>3 DEF Drawn, Editing
  <2> QED
    BY <2>3, <2>4
<1> QED
  BY <1>2, <1>3

LEMMA NextDrawn == ShellIInv /\ Drawn /\ [ShellNext]_allVars => Drawn'
<1> SUFFICES ASSUME ShellIInv, Drawn, [ShellNext]_allVars PROVE Drawn'
  OBVIOUS
<1>1. CASE \/ irq_timer \/ halt \/ GetKey \/ Getting \/ Backspace \/ Ignore
  <2>1. /\ UNCHANGED <<cmd, cmd_len, screenVars>>
        /\ at \in Editing /\ at' \in Editing
    BY <1>1 DEF irq_timer, halt, GetKey, Getting, Backspace, Ignore, lineVars, Editing,
                Erasing, Got
  <2> QED
    BY <2>1, KeptDrawn
<1>2. CASE UNCHANGED allVars \/ task_test_printed
  <2>1. UNCHANGED <<cmd, cmd_len, screenVars, at, taken>>
    BY <1>2 DEF allVars, shellVars, lineVars, vars, task_test_printed
  <2> QED
    BY <2>1, KeptDrawn
<1>3. CASE task_test_prints
  <2>1. /\ UNCHANGED <<cmd, cmd_len, at>> /\ echo' = <<>> /\ origin' = "row"
        /\ at \in Output => caught'
    BY <1>3 DEF task_test_prints, lineVars
  <2> QED
    BY <2>1, AfreshDrawn
<1>4. ASSUME NEW s \in Scancodes, irq_keyboard(s) PROVE Drawn'
  <2>1. /\ UNCHANGED <<cmd, cmd_len, taken>>
        /\ at' = at \/ (at \in Editing /\ at' \in Editing)
    BY <1>4 DEF irq_keyboard, isr_key_press, lineVars, Editing
  <2>2. CASE tty_clear
    <3>1. echo' = <<>> /\ origin' = "corner" /\ (at \in Output => caught')
      BY <2>2 DEF tty_clear
    <3> QED
      BY <2>1, <3>1, AfreshDrawn
  <2>3. CASE UNCHANGED screenVars
    BY <2>1, <2>3, KeptDrawn
  <2> QED
    BY <1>4, <2>2, <2>3 DEF irq_keyboard
<1>5. CASE Enter
  <2>1. at' = "echo" /\ Last(taken').key = "KEY_ENTER"
    BY <1>5 DEF Enter, Got, Prints, vars
  <2> QED
    BY <2>1 DEF Drawn
<1>6. CASE Strip \/ command_run
  <2>1. at' \in {"strip", "run", "below", "start", "exit", "reboot"}
    BY <1>6, LookupIs DEF Strip, Prints, command_run
  <2>2. at' \notin Editing \cup {"echo", "rub"}
    BY <2>1 DEF Editing
  <2> QED
    BY <2>2 DEF Drawn
<1> QED
  BY <1>1, <1>2, <1>3, <1>4, <1>5, <1>6, StartDrawn, InsertDrawn, PutcDrawn, EraseDrawn,
     RubDrawn DEF ShellNext, kshell, Halted

\* The characters of the line from its m-th on are one of its suffixes.
Ends(s, line, m, n) ==
  /\ Len(s) = n /\ (\A k \in 1..n : s[k] = line[m + k])
  /\ m = 0 => s = line

LEMMA EndOfLine ==
  ASSUME NEW S, NEW line \in Seq(S), NEW m \in Nat, NEW n \in Nat, m + n = Len(line)
  PROVE  \E s \in Suffixes(line) : Ends(s, line, m, n)
<1>1. CASE n = 0
  <2>1. PICK s : s = <<>>
    OBVIOUS
  <2>2. s \in Suffixes(line)
    BY <2>1 DEF Suffixes
  <2>3. Len(s) = n /\ \A k \in 1..n : FALSE
    BY <1>1, <2>1
  <2>4. m = 0 => s = line
    BY <1>1, <2>1
  <2> QED
    BY <2>2, <2>3, <2>4 DEF Ends
<1>2. CASE n # 0
  <2>1. m + 1 \in 1..Len(line)
    BY <1>2
  <2>2. PICK s : s = SubSeq(line, m + 1, Len(line))
    OBVIOUS
  <2>3. s \in Suffixes(line)
    BY <2>1, <2>2 DEF Suffixes
  <2>4. s \in Seq(S) /\ Len(s) = n /\ \A k \in 1..n : s[k] = line[m + k]
    <3>1. s \in Seq(S)
      BY <2>1, <2>2
    <3>2. Len(s) = Len(line) - (m + 1) + 1
      BY <2>1, <2>2
    <3>3. Len(s) = n
      BY <3>2
    <3>4. ASSUME NEW k \in 1..n PROVE s[k] = line[m + k]
      <4>1. s = [i \in 1..n |-> line[(m + 1) + i - 1]]
        <5>1. Len(line) - (m + 1) + 1 = n
          OBVIOUS
        <5> QED
          BY <2>2, <5>1
      <4>2. (m + 1) + k - 1 = m + k
        OBVIOUS
      <4>3. s[k] = line[(m + 1) + k - 1]
        BY <4>1
      <4> QED
        BY <4>2, <4>3
    <3> QED
      BY <3>1, <3>3, <3>4
  <2>5. m = 0 => s = line
    <3> SUFFICES ASSUME m = 0 PROVE s = line
      OBVIOUS
    <3>1. \A k \in 1..n : m + k = k
      OBVIOUS
    <3> QED
      BY <2>4, <3>1
  <2> QED
    BY <2>3, <2>4, <2>5 DEF Ends
<1> QED
  BY <1>1, <1>2


\* Whenever nothing is being printed, and unless line and screen have been parted
\* by one of the causes that EchoesLine names, the screen shows the line behind
\* the prompt, or the end of it that was typed after ctrl-l or after task_test's
\* last line, whenever these came.
THEOREM ScreenEchoesLine == ShellSpec => []EchoesLine
<1>1. ShellIInv /\ Drawn => EchoesLine
  <2> SUFFICES ASSUME ShellIInv, Drawn, at \in Editing, ~parted, ~caught
               PROVE  \E s \in Suffixes(Line) : /\ echo = Rendered(s, Column)
                                                /\ origin = "prompt" => s = Line
    BY DEF EchoesLine
  <2>1. PICK m \in Nat, n \in Nat : /\ m + n = cmd_len /\ (origin = "prompt" => m = 0)
                                    /\ \E g : Draws(g, cmd, m, Column, n) /\ echo = g[n]
    BY DEF Drawn, ShowsEnd, Editing
  <2>2. LeftIs /\ Kept = cmd_len /\ Left = Line
    BY LeftShape DEF ShellIInv, Editing, Kept, Left, Line
  <2>3. PICK line \in Seq(Keys) : line = Line
    BY <2>2 DEF LeftIs
  <2>4. PICK s \in Suffixes(line) : Ends(s, line, m, n)
    <3>1. m + n = Len(line)
      BY <2>1, <2>2, <2>3 DEF LeftIs
    <3>2. PICK S : S = Keys
      OBVIOUS
    <3>3. line \in Seq(S)
      BY <3>2
    <3> QED
      BY <3>1, <3>3, EndOfLine
  <2>5. PICK g, array, base :
          array = cmd /\ base = Column /\ Draws(g, array, m, base, n) /\ echo = g[n]
    BY <2>1
  <2>6. \A k \in 1..n : s[k] = array[m + k - 1]
    <3> SUFFICES ASSUME NEW k \in 1..n PROVE s[k] = array[m + k - 1]
      OBVIOUS
    <3>1. m + k \in 1..cmd_len
      BY <2>1
    <3>2. Line[m + k] = cmd[m + k - 1]
      BY <2>2, <3>1 DEF LeftIs
    <3> QED
      BY <2>3, <2>4, <2>5, <3>2 DEF Ends
  <2>7. Rendered(s, base) = g[n]
    BY <2>4, <2>5, <2>6, RenderedIs DEF Ends
  <2> QED
    BY <2>1, <2>3, <2>4, <2>5, <2>7 DEF Ends
<1>2. ShellInit => Drawn
  BY DEF ShellInit, Drawn, Editing
<1>3. ShellSpec => [](ShellIInv /\ Drawn)
  BY <1>2, InitShellIInv, NextShellIInv, NextDrawn, PTL DEF ShellSpec
<1> QED
  BY <1>1, <1>3, PTL

=============================================================================

-------------------------------- MODULE Libc --------------------------------
(***************************************************************************)
(* The C library's memory and string functions and the terminal's          *)
(* conversions of numbers and formats: loops, one iteration a step, over a *)
(* small memory that the arguments point into.                             *)
(*                                                                         *)
(* A byte b stands for the char b, or b - Byte if it is in the upper half: *)
(* char is signed on this machine.                                         *)
(***************************************************************************)
EXTENDS Integers, SequencesExt

Power(b, n) ==
  LET p[k \in 0..n] == IF k = 0 THEN 1 ELSE p[k - 1] * b IN p[n]

CONSTANTS
  Byte,       \* values of a byte (256)
  MemSize,    \* bytes of memory
  Radix,      \* 10
  HexRadix, HexDigits,  \* 16 and 8; a uint32_t has Power(HexRadix, HexDigits) values
  BufferSize, \* sizeof(s) in tty_printint (32)
  Letters,    \* characters of a format other than %
  MaxFormat   \* bound: length of a format

ASSUME LibcConstants ==
  /\ Byte \in Nat \ {0, 1} /\ MemSize \in Nat \ {0}
  /\ Radix \in Nat \ {0, 1} /\ HexRadix \in Nat \ {0, 1} /\ HexDigits \in Nat \ {0}
  /\ BufferSize \in Nat /\ Power(HexRadix, HexDigits) <= Power(Radix, BufferSize)
  /\ "%" \notin Letters /\ MaxFormat \in Nat

Addr == 0..MemSize - 1
Nums == 0..Power(HexRadix, HexDigits) - 1

VARIABLES
  mem,
  before,   \* history: mem when the function was called
  call,     \* the function and its arguments; fn is "none" outside
  done,     \* it has returned
  i, j,     \* loop variables
  num,      \* tty_printint's and tty_printhex's
  s,        \* tty_printint's digits
  fmt_flag, printed,  \* kprintf's
  out,      \* what was printed
  ret       \* the value returned

memory  == <<mem, before, call>>
console == <<num, s, fmt_flag, printed, out>>
vars    == <<memory, done, i, j, console, ret>>

None == [fn |-> "none"]

Init ==
  /\ mem \in [Addr -> 0..Byte - 1] /\ before = mem
  /\ call = None /\ done = FALSE
  /\ i = 0 /\ j = 0 /\ num = 0 /\ s = <<>>
  /\ fmt_flag = FALSE /\ printed = 0 /\ out = <<>> /\ ret = 0

\* Strings end with a 0 inside the memory.
Terminated(m, a) == \E k \in a..MemSize - 1 : m[k] = 0
Length(m, a)     == (CHOOSE k \in a..MemSize - 1 : m[k] = 0 /\ \A h \in a..k - 1 : m[h] # 0) - a
Text(m, a)       == [k \in 1..Length(m, a) |-> m[a + k - 1]]

\* What a caller may ask for: regions inside the memory, terminated strings,
\* room for both strings behind dest and no overlap with src for strcat.
Regions(fns) ==
  { [fn |-> f, dest |-> d, src |-> a, n |-> n] : f \in fns, d \in Addr, a \in Addr, n \in 0..MemSize }

MemCalls ==
  { c \in Regions({"memcpy", "memmove", "memset", "memcmp"}) :
      c.dest + c.n <= MemSize /\ (c.fn # "memset" => c.src + c.n <= MemSize) }

StrCalls ==
  { c \in Regions({"strcmp", "strlen", "strcat"}) :
      /\ c.n = 0 /\ Terminated(mem, c.dest) /\ Terminated(mem, c.src)
      /\ c.fn = "strlen" => c.src = c.dest
      /\ c.fn = "strcat" =>
           LET end == c.dest + Length(mem, c.dest) + Length(mem, c.src) IN
           /\ end < MemSize
           /\ end < c.src \/ c.src + Length(mem, c.src) < c.dest }

PrintCalls ==
  { [fn |-> f, num |-> n] : f \in {"tty_printint", "tty_printhex"}, n \in Nums }
  \cup { [fn |-> "kprintf", format |-> f] : f \in BoundedSeq(Letters \cup {"%"}, MaxFormat) }

\* The conversions are called in one memory only: they do not touch it.
Call ==
  /\ call = None
  /\ \E c \in MemCalls \cup StrCalls \cup (IF \A k \in Addr : mem[k] = 0 THEN PrintCalls ELSE {}) :
       /\ call' = c
       /\ i' = IF c.fn = "memmove" /\ c.dest >= c.src THEN c.n ELSE 0
       /\ num' = IF c.fn \in {"tty_printint", "tty_printhex"} THEN c.num ELSE 0
  /\ UNCHANGED <<mem, before, done, j, s, fmt_flag, printed, out, ret>>

In(fn)    == call.fn = fn /\ ~done
Return(r) == done' = TRUE /\ ret' = r
Go        == UNCHANGED <<done, ret>>

\* The caller goes on.
Returned ==
  /\ done
  /\ call' = None /\ done' = FALSE /\ before' = mem
  /\ i' = 0 /\ j' = 0 /\ num' = 0 /\ s' = <<>>
  /\ fmt_flag' = FALSE /\ printed' = 0 /\ out' = <<>> /\ ret' = 0
  /\ UNCHANGED mem

-----------------------------------------------------------------------------
(* string/ *)

memcpy ==
  /\ In("memcpy")
  /\ IF i < call.n
     THEN mem' = [mem EXCEPT ![call.dest + i] = mem[call.src + i]] /\ i' = i + 1 /\ Go
     ELSE Return(call.dest) /\ UNCHANGED <<mem, i>>
  /\ UNCHANGED <<before, call, j, console>>

\* Fault: copies upwards whatever overlaps.
memmove_up ==
  /\ In("memmove")
  /\ \/ i < call.n /\ mem' = [mem EXCEPT ![call.dest + i] = mem[call.src + i]] /\ i' = i + 1 /\ Go
     \/ i = call.n /\ Return(call.dest) /\ UNCHANGED <<mem, i>>
  /\ UNCHANGED <<before, call, j, console>>

\* Upwards if dest < src, downwards otherwise.
memmove ==
  /\ In("memmove")
  /\ \/ /\ call.dest < call.src /\ i < call.n
        /\ mem' = [mem EXCEPT ![call.dest + i] = mem[call.src + i]] /\ i' = i + 1 /\ Go
     \/ /\ call.dest >= call.src /\ i # 0
        /\ mem' = [mem EXCEPT ![call.dest + i - 1] = mem[call.src + i - 1]] /\ i' = i - 1 /\ Go
     \/ /\ i = IF call.dest < call.src THEN call.n ELSE 0
        /\ Return(call.dest) /\ UNCHANGED <<mem, i>>
  /\ UNCHANGED <<before, call, j, console>>

\* src is the int to fill with.
memset ==
  /\ In("memset")
  /\ IF i < call.n
     THEN mem' = [mem EXCEPT ![call.dest + i] = call.src % Byte] /\ i' = i + 1 /\ Go
     ELSE Return(call.dest) /\ UNCHANGED <<mem, i>>
  /\ UNCHANGED <<before, call, j, console>>

Char(b) == IF 2 * b < Byte THEN b ELSE b - Byte
Difference == Char(mem[call.dest + i]) - Char(mem[call.src + i])

memcmp ==
  /\ In("memcmp")
  /\ IF i < call.n
     THEN IF Difference = 0 THEN i' = i + 1 /\ Go ELSE Return(Difference) /\ UNCHANGED i
     ELSE Return(0) /\ UNCHANGED i
  /\ UNCHANGED <<memory, j, console>>

\* Fault: a string equals every string it begins.
strcmp_prefix ==
  /\ In("strcmp")
  /\ IF mem[call.dest + i] # 0 /\ mem[call.src + i] # 0
     THEN IF Difference = 0 THEN i' = i + 1 /\ Go ELSE Return(Difference) /\ UNCHANGED i
     ELSE Return(0) /\ UNCHANGED i
  /\ UNCHANGED <<memory, j, console>>

strcmp ==
  /\ In("strcmp")
  /\ IF mem[call.dest + i] # 0 /\ mem[call.src + i] # 0 /\ Difference = 0
     THEN i' = i + 1 /\ Go ELSE Return(Difference) /\ UNCHANGED i
  /\ UNCHANGED <<memory, j, console>>

strlen ==
  /\ In("strlen")
  /\ IF mem[call.dest + i] # 0 THEN i' = i + 1 /\ Go ELSE Return(i) /\ UNCHANGED i
  /\ UNCHANGED <<memory, j, console>>

\* To the end of dest, then src up to and with its 0.
strcat ==
  /\ In("strcat")
  /\ IF j = 0 /\ mem[call.dest + i] # 0
     THEN i' = i + 1 /\ Go /\ UNCHANGED <<mem, j>>
     ELSE /\ mem' = [mem EXCEPT ![call.dest + i + j] = mem[call.src + j]]
          /\ IF mem[call.src + j] # 0 THEN j' = j + 1 /\ Go ELSE Return(call.dest) /\ UNCHANGED j
          /\ UNCHANGED i
  /\ UNCHANGED <<before, call, console>>

-----------------------------------------------------------------------------
(* tty_printint, tty_printhex, kprintf *)

Put(d) == out' = Append(out, d)

\* 0 apart, the digits are taken from the right and printed from the left.
tty_printint ==
  /\ In("tty_printint")
  /\ \/ call.num = 0 /\ Put(0) /\ Return(0) /\ UNCHANGED <<num, s, i>>
     \/ num > 0 /\ s' = Append(s, num % Radix) /\ num' = num \div Radix /\ i' = i + 1
        /\ Go /\ UNCHANGED out
     \/ num = 0 /\ i > 0 /\ Put(s[i]) /\ i' = i - 1 /\ Go /\ UNCHANGED <<num, s>>
     \/ call.num > 0 /\ num = 0 /\ i = 0 /\ Return(0) /\ UNCHANGED <<num, s, i, out>>
  /\ UNCHANGED <<memory, j, fmt_flag, printed>>

\* Fault: the number is not shifted.
tty_printhex_unshifted ==
  /\ In("tty_printhex")
  /\ \/ call.num = 0 /\ Put(0) /\ Return(0) /\ UNCHANGED <<num, i>>
     \/ call.num > 0 /\ i < HexDigits /\ Put(num \div Power(HexRadix, HexDigits - 1))
        /\ i' = i + 1 /\ Go /\ UNCHANGED num
     \/ i = HexDigits /\ Return(0) /\ UNCHANGED <<num, i, out>>
  /\ UNCHANGED <<memory, j, s, fmt_flag, printed>>

\* All digits from the left, with zeros; the number is shifted out of its word.
tty_printhex ==
  /\ In("tty_printhex")
  /\ \/ call.num = 0 /\ Put(0) /\ Return(0) /\ UNCHANGED <<num, i>>
     \/ call.num > 0 /\ i < HexDigits /\ Put(num \div Power(HexRadix, HexDigits - 1))
        /\ num' = (num * HexRadix) % Power(HexRadix, HexDigits) /\ i' = i + 1 /\ Go
     \/ i = HexDigits /\ Return(0) /\ UNCHANGED <<num, i, out>>
  /\ UNCHANGED <<memory, j, s, fmt_flag, printed>>

Conversions == {"d", "u", "i", "x", "X", "s"}

\* Fault: the flag stays set after a conversion.
kprintf_sticky ==
  LET f == call.format  c == f[i + 1] IN
  /\ In("kprintf")
  /\ \/ i = Len(f) /\ Return(printed + i) /\ UNCHANGED <<i, fmt_flag, printed, out>>
     \/ /\ i < Len(f) /\ i' = i + 1 /\ Go
        /\ IF fmt_flag
           THEN /\ IF c = "%" \/ c \in Conversions THEN Put(<<"%", c>>) ELSE UNCHANGED out
                /\ printed' = IF c = "%" THEN printed + 1 ELSE printed
                /\ UNCHANGED fmt_flag
           ELSE /\ fmt_flag' = (c = "%")
                /\ IF c = "%" THEN UNCHANGED out ELSE Put(<<c>>)
                /\ UNCHANGED printed
  /\ UNCHANGED <<memory, j, num, s>>

\* Prints a character, or, after %, the conversion of the next argument or a %;
\* an unknown conversion prints nothing.
kprintf ==
  LET f == call.format  c == f[i + 1] IN
  /\ In("kprintf")
  /\ \/ i = Len(f) /\ Return(printed + i) /\ UNCHANGED <<i, fmt_flag, printed, out>>
     \/ /\ i < Len(f) /\ i' = i + 1 /\ Go
        /\ IF fmt_flag
           THEN /\ IF c = "%" \/ c \in Conversions THEN Put(<<"%", c>>) ELSE UNCHANGED out
                /\ printed' = IF c = "%" THEN printed + 1 ELSE printed
                /\ fmt_flag' = FALSE
           ELSE /\ fmt_flag' = (c = "%")
                /\ IF c = "%" THEN UNCHANGED out ELSE Put(<<c>>)
                /\ UNCHANGED printed
  /\ UNCHANGED <<memory, j, num, s>>

-----------------------------------------------------------------------------
Body ==
  \/ memcpy \/ memmove \/ memset \/ memcmp \/ strcmp \/ strlen \/ strcat
  \/ tty_printint \/ tty_printhex \/ kprintf

Next == Call \/ Body \/ Returned

Spec == Init /\ [][Next]_vars

-----------------------------------------------------------------------------
(* Properties *)

TypeOK ==
  /\ mem \in [Addr -> 0..Byte - 1] /\ before \in [Addr -> 0..Byte - 1]
  /\ done \in BOOLEAN /\ i \in Nat /\ j \in Nat /\ num \in Nums
  /\ s \in Seq(0..Radix - 1) /\ Len(s) <= BufferSize
  /\ fmt_flag \in BOOLEAN /\ printed \in Nat /\ ret \in Int

Over(fn) == done /\ call.fn = fn

\* memmove leaves the source's bytes at dest however the two overlap, and so does
\* memcpy unless dest lies within the source; memset fills its region, and
\* nothing outside the region is ever written.  strcat leaves both texts at dest,
\* terminated, and src as it was.
MovesExactly ==
  LET region == call.dest..call.dest + call.n - 1 IN
  /\ call.fn \in {"memcpy", "memmove", "memset"} =>
       /\ \A a \in Addr \ region : mem[a] = before[a]
       /\ Over("memmove") \/ (Over("memcpy") /\ call.dest \notin call.src + 1..call.src + call.n - 1)
            => \A k \in 0..call.n - 1 : mem[call.dest + k] = before[call.src + k]
       /\ Over("memset") => \A a \in region : mem[a] = call.src % Byte
  /\ Over("strcat") =>
       /\ Terminated(mem, call.dest)
       /\ Text(mem, call.dest) = Text(before, call.dest) \o Text(before, call.src)
       /\ Text(mem, call.src) = Text(before, call.src)

\* memcmp and strcmp answer 0 for equal regions and strings and for no others,
\* so that a command is found only under its whole name.
ComparesEqual ==
  /\ Over("memcmp") =>
       (ret = 0 <=> \A k \in 0..call.n - 1 : mem[call.dest + k] = mem[call.src + k])
  /\ Over("strcmp") => (ret = 0 <=> Text(mem, call.dest) = Text(mem, call.src))
  /\ Over("strlen") => ret = Length(mem, call.dest)

Value(digits, radix) ==
  LET v[k \in 0..Len(digits)] == IF k = 0 THEN 0 ELSE v[k - 1] * radix + digits[k] IN
  v[Len(digits)]

\* The digits printed denote the number: in decimal without leading zeros, in
\* hexadecimal at full width except for 0.  The digits fit tty_printint's array.
PrintsNumber ==
  /\ Len(s) <= BufferSize
  /\ Over("tty_printint") =>
       Value(out, Radix) = call.num /\ (Len(out) > 1 => out[1] # 0)
  /\ Over("tty_printhex") =>
       Value(out, HexRadix) = call.num /\ Len(out) = IF call.num = 0 THEN 1 ELSE HexDigits

\* A character follows a % that is not itself escaped if an odd number of them
\* comes directly before it.
Escaped(f, k) ==
  \E n \in 1..k - 1 : /\ n % 2 = 1
                      /\ \A h \in k - n..k - 1 : f[h] = "%"
                      /\ k - n - 1 > 0 => f[k - n - 1] # "%"

\* kprintf prints the conversions and %% where the format has them, the other
\* characters as they are, in order, and counts the format and each %%.
ReadsFormat ==
  Over("kprintf") =>
    LET f     == call.format
        shown == { k \in DOMAIN f : IF Escaped(f, k) THEN f[k] \in Conversions \cup {"%"}
                                    ELSE f[k] # "%" } IN
    /\ Len(out) = Cardinality(shown)
    /\ \A k \in shown : out[Cardinality({ h \in shown : h <= k })]
                          = IF Escaped(f, k) THEN <<"%", f[k]>> ELSE <<f[k]>>
    /\ ret = Len(f) + Cardinality({ k \in shown : f[k] = "%" })
=============================================================================

----------------------------- MODULE LibcProofs ------------------------------
(***************************************************************************)
(* Proofs about Libc, for any memory and any arguments: each loop has its  *)
(* invariant, and what it says when the loop ends is what the function     *)
(* promises.                                                               *)
(***************************************************************************)
EXTENDS Libc, FiniteSetTheorems, WellFoundedInduction, TLAPS

-----------------------------------------------------------------------------
(* The loop invariants *)

MemFns == {"memcpy", "memmove", "memset", "memcmp"}
StrFns == {"strcmp", "strlen", "strcat"}

\* Outside lo..hi - 1 the memory is as it was.
Kept(lo, hi) == \A a \in Addr : a < lo \/ a >= hi => mem[a] = before[a]
\* Bytes lo to hi - 1 of the source are at dest.
Moved(lo, hi) == \A k \in lo..hi - 1 : mem[call.dest + k] = before[call.src + k]

\* What a caller of a memory function may ask for.
MemArgs ==
  /\ call.dest \in Nat /\ call.src \in Nat /\ call.n \in Nat
  /\ call.dest + call.n <= MemSize
  /\ call.fn # "memset" => call.src + call.n <= MemSize

MemcpyLoop ==
  /\ MemArgs /\ i \in 0..call.n /\ (done => i = call.n)
  /\ Kept(call.dest, call.dest + i)
  /\ call.dest \notin call.src + 1..call.src + call.n - 1 => Moved(0, i)

MemmoveLoop ==
  /\ MemArgs /\ i \in 0..call.n
  /\ call.dest < call.src =>
       Kept(call.dest, call.dest + i) /\ Moved(0, i) /\ (done => i = call.n)
  /\ call.dest >= call.src =>
       Kept(call.dest + i, call.dest + call.n) /\ Moved(i, call.n) /\ (done => i = 0)

MemsetLoop ==
  /\ MemArgs /\ i \in 0..call.n /\ (done => i = call.n)
  /\ Kept(call.dest, call.dest + i)
  /\ \A k \in 0..i - 1 : mem[call.dest + k] = call.src % Byte

\* The first k bytes at dest and at src are the same.
SameTo(k) == \A h \in 0..k - 1 : mem[call.dest + h] = mem[call.src + h]
NoZeroTo(k) == \A h \in 0..k - 1 : mem[call.dest + h] # 0

MemcmpLoop ==
  /\ MemArgs /\ i \in 0..call.n /\ mem = before /\ SameTo(i)
  /\ done => \/ i = call.n /\ ret = 0
             \/ i < call.n /\ ret = Difference /\ ret # 0

StrArgs ==
  /\ call.dest \in Addr /\ call.src \in Addr
  /\ Terminated(before, call.dest) /\ Terminated(before, call.src)

StrcmpLoop ==
  /\ StrArgs /\ mem = before /\ i \in Nat /\ SameTo(i) /\ NoZeroTo(i)
  /\ i <= Length(before, call.dest) /\ i <= Length(before, call.src)
  /\ done => /\ ret = Difference
             /\ mem[call.dest + i] = 0 \/ mem[call.src + i] = 0 \/ ret # 0

StrlenLoop ==
  /\ StrArgs /\ mem = before /\ i \in Nat /\ i <= Length(before, call.dest)
  /\ done => ret = i /\ mem[call.dest + i] = 0

StrcatLoop ==
  LET m == Length(before, call.dest)
      n == Length(before, call.src) IN
  /\ StrArgs
  /\ call.dest + m + n < MemSize
  /\ call.dest + m + n < call.src \/ call.src + n < call.dest
  /\ i \in 0..m /\ j \in 0..n /\ (j > 0 \/ done => i = m)
  /\ ~done => Kept(call.dest + m, call.dest + m + j)
  /\ done => Kept(call.dest + m, call.dest + m + n + 1) /\ j = n
  /\ \A k \in 0..j - 1 : mem[call.dest + m + k] = before[call.src + k]
  /\ done => mem[call.dest + m + n] = 0

\* The characters of the first k that kprintf shows.
Shown(f, k) ==
  { h \in 1..k : IF Escaped(f, h) THEN f[h] \in Conversions \cup {"%"} ELSE f[h] # "%" }

Chars == Letters \cup {"%"}
Units == {<<c>> : c \in Chars} \cup {<<"%", c>> : c \in Chars}

KprintfLoop ==
  LET f == call.format IN
  /\ f \in Seq(Chars) /\ i \in 0..Len(f) /\ out \in Seq(Units)
  /\ fmt_flag <=> Escaped(f, i + 1)
  /\ Len(out) = Cardinality(Shown(f, i))
  /\ \A k \in Shown(f, i) : out[Cardinality(Shown(f, k))]
                              = IF Escaped(f, k) THEN <<"%", f[k]>> ELSE <<f[k]>>
  /\ printed = Cardinality({k \in Shown(f, i) : f[k] = "%"})
  /\ done => i = Len(f) /\ ret = printed + i

Loops ==
  /\ call.fn = "memcpy" => MemcpyLoop
  /\ call.fn = "memmove" => MemmoveLoop
  /\ call.fn = "memset" => MemsetLoop
  /\ call.fn = "memcmp" => MemcmpLoop
  /\ call.fn = "strcmp" => StrcmpLoop
  /\ call.fn = "strlen" => StrlenLoop
  /\ call.fn = "strcat" => StrcatLoop
  /\ call.fn = "kprintf" => KprintfLoop

Types ==
  /\ mem \in [Addr -> 0..Byte - 1] /\ before \in [Addr -> 0..Byte - 1]
  /\ done \in BOOLEAN /\ i \in Nat /\ j \in Nat
  /\ call.fn \in MemFns \cup StrFns \cup {"none", "tty_printint", "tty_printhex", "kprintf"}

Idle ==
  call.fn = "none" =>
    /\ call = None /\ mem = before /\ ~done /\ i = 0 /\ j = 0
    /\ out = <<>> /\ ~fmt_flag /\ printed = 0

IInv == Types /\ Idle /\ Loops

-----------------------------------------------------------------------------
(* Numbers and strings *)

\* A set of numbers that is not empty has a least element.
LEMMA Least ==
  ASSUME NEW S \in SUBSET Nat, S # {}
  PROVE  \E n \in S : \A m \in S : n <= m
<1> DEFINE R == OpToRel(<, Nat)
<1>1. IsWellFoundedOn(R, Nat)
  BY NatLessThanWellFounded
<1>2. PICK n \in S : \A m \in S : ~(<<m, n>> \in R)
  <2> HIDE DEF R
  <2> QED
    BY <1>1, WFMin, Zenon
<1>3. \A m \in S : ~(m < n)
  BY <1>2 DEF OpToRel
<1> QED
  BY <1>3

\* A char tells two bytes apart.
LEMMA CharInjective ==
  ASSUME NEW a \in 0..Byte - 1, NEW b \in 0..Byte - 1
  PROVE  Char(a) - Char(b) \in Int /\ (Char(a) - Char(b) = 0 <=> a = b)
<1>1. Byte \in Nat \ {0, 1}
  BY LibcConstants
<1> QED
  BY <1>1 DEF Char

\* Where the first 0 is.
FirstZero(m, a, n) == /\ n \in Nat /\ a + n \in Addr /\ m[a + n] = 0
                      /\ \A h \in 0..n - 1 : m[a + h] # 0

LEMMA LengthIs ==
  ASSUME NEW m, NEW a \in Addr, NEW n, FirstZero(m, a, n)
  PROVE  Length(m, a) = n /\ Terminated(m, a)
<1> DEFINE P(k) == m[k] = 0 /\ \A h \in a..k - 1 : m[h] # 0
<1>1. /\ MemSize \in Nat \ {0} /\ n \in Nat /\ a \in Nat /\ a + n \in a..MemSize - 1
      /\ m[a + n] = 0
      /\ \A h \in 0..n - 1 : m[a + h] # 0
  BY LibcConstants DEF FirstZero, Addr
<1>2. P(a + n)
  <2>1. ASSUME NEW h \in a..(a + n) - 1 PROVE m[h] # 0
    <3>1. h - a \in 0..n - 1 /\ a + (h - a) = h
      BY <1>1
    <3> QED
      BY <3>1, <1>1
  <2> QED
    BY <2>1, <1>1
<1>3. ASSUME NEW k \in a..MemSize - 1, P(k) PROVE k = a + n
  <2>1. ~(k < a + n)
    <3> SUFFICES ASSUME k < a + n PROVE FALSE
      OBVIOUS
    <3>1. k \in a..(a + n) - 1
      BY <1>1
    <3> QED
      BY <3>1, <1>2, <1>3
  <2>2. ~(a + n < k)
    <3> SUFFICES ASSUME a + n < k PROVE FALSE
      OBVIOUS
    <3>1. a + n \in a..k - 1
      BY <1>1
    <3> QED
      BY <3>1, <1>1, <1>3
  <2> QED
    BY <2>1, <2>2, <1>1
<1>4. (CHOOSE k \in a..MemSize - 1 : P(k)) = a + n
  <2> HIDE DEF P
  <2> QED
    BY <1>1, <1>2, <1>3
<1>5. Length(m, a) = (a + n) - a
  BY <1>4 DEF Length
<1> QED
  BY <1>1, <1>5 DEF Terminated

LEMMA LengthOf ==
  ASSUME NEW m, NEW a \in Addr, Terminated(m, a)
  PROVE  FirstZero(m, a, Length(m, a))
<1> DEFINE S == {k \in a..MemSize - 1 : m[k] = 0}
<1>1. MemSize \in Nat \ {0} /\ a \in Nat
  BY LibcConstants DEF Addr
<1>2. PICK k \in S : \A h \in S : k <= h
  <2>1. S \in SUBSET Nat /\ S # {}
    BY <1>1 DEF Terminated
  <2> HIDE DEF S
  <2> QED
    BY <2>1, Least
<1>3. FirstZero(m, a, k - a)
  <2>1. k - a \in Nat /\ a + (k - a) = k /\ k \in Addr /\ m[k] = 0
    BY <1>1, <1>2 DEF Addr
  <2>2. ASSUME NEW h \in 0..(k - a) - 1 PROVE m[a + h] # 0
    <3>1. a + h \in a..MemSize - 1 /\ a + h < k
      BY <1>1, <1>2
    <3>2. a + h \notin S
      BY <3>1, <1>1, <1>2
    <3> QED
      BY <3>1, <3>2
  <2> QED
    BY <2>1, <2>2 DEF FirstZero
<1> QED
  BY <1>3, LengthIs

-----------------------------------------------------------------------------
(* Calling and returning *)

LEMMA InitIInv == Init => IInv
<1> SUFFICES ASSUME Init PROVE IInv
  OBVIOUS
<1>1. call = None /\ call.fn = "none"
  BY DEF Init, None
<1>2. Types /\ Idle
  BY <1>1 DEF Init, Types, Idle
<1>3. Loops
  BY <1>1 DEF Loops
<1> QED
  BY <1>2, <1>3 DEF IInv

\* The arguments are in range, and every loop begins with its invariant.
LEMMA CallIInv ==
  ASSUME IInv, Call
  PROVE  IInv'
<1>0. /\ call = None /\ call.fn = "none" /\ MemSize \in Nat \ {0}
      /\ mem = before /\ done = FALSE /\ i = 0 /\ j = 0
      /\ out = <<>> /\ ~fmt_flag /\ printed = 0
      /\ mem \in [Addr -> 0..Byte - 1]
  <2>1. call = None
    BY DEF Call
  <2>2. call.fn = "none"
    BY <2>1 DEF None
  <2> QED
    BY <2>1, <2>2, LibcConstants DEF IInv, Idle, Types
<1>1. PICK c \in MemCalls \cup StrCalls \cup (IF \A k \in Addr : mem[k] = 0 THEN PrintCalls ELSE {}) :
        call' = c /\ i' = IF c.fn = "memmove" /\ c.dest >= c.src THEN c.n ELSE 0
  BY DEF Call
<1>2. UNCHANGED <<mem, before, done, j, s, fmt_flag, printed, out, ret>>
  BY DEF Call
<1>3. CASE c \in MemCalls
  <2>1. /\ c.fn \in MemFns /\ c.dest \in Addr /\ c.src \in Addr /\ c.n \in 0..MemSize
        /\ c.dest + c.n <= MemSize /\ (c.fn # "memset" => c.src + c.n <= MemSize)
    BY <1>3 DEF MemCalls, Regions, MemFns
  <2>2. /\ c.dest \in Nat /\ c.src \in Nat /\ c.n \in Nat /\ i' \in 0..c.n
    BY <2>1, <1>0, <1>1 DEF Addr
  <2>3. MemArgs'
    BY <2>1, <2>2, <1>1 DEF MemArgs
  <2>4. Types' /\ Idle'
    BY <2>1, <2>2, <1>0, <1>1, <1>2 DEF Types, Idle, MemFns
  <2>5. \A lo, hi : Kept(lo, hi)'
    BY <1>0, <1>2 DEF Kept
  <2>6. ASSUME NEW n \in Nat PROVE Moved(n, n)' /\ 0..0 - 1 = {}
    <3>1. n..n - 1 = {}
      OBVIOUS
    <3> QED
      BY <3>1 DEF Moved
  <2>7. Loops'
    <3>1. CASE c.fn = "memcpy"
      <4>1. i' = 0 /\ ~done'
        BY <3>1, <1>0, <1>1, <1>2
      <4>2. Moved(0, i)'
        BY <4>1, <2>6 DEF Moved
      <4>3. MemcpyLoop'
        BY <4>1, <4>2, <2>2, <2>3, <2>5, <1>1 DEF MemcpyLoop, Kept, Moved
      <4> QED
        BY <4>3, <3>1, <1>1 DEF Loops
    <3>2. CASE c.fn = "memmove"
      <4>1. ~done' /\ i' = IF c.dest >= c.src THEN c.n ELSE 0
        BY <3>2, <1>0, <1>1, <1>2
      <4>2. /\ c.dest < c.src => i' = 0
            /\ c.dest >= c.src => i' = c.n
        BY <4>1, <2>2
      <4>3. /\ c.dest < c.src => Moved(0, i)'
            /\ c.dest >= c.src => Moved(i, call.n)'
        BY <4>2, <2>2, <2>6, <1>1 DEF Moved
      <4>4. MemmoveLoop'
        BY <4>1, <4>3, <2>2, <2>3, <2>5, <1>1 DEF MemmoveLoop, Kept, Moved
      <4> QED
        BY <4>4, <3>2, <1>1 DEF Loops
    <3>3. CASE c.fn = "memset"
      <4>1. i' = 0 /\ ~done'
        BY <3>3, <1>0, <1>1, <1>2
      <4>2. MemsetLoop'
        BY <4>1, <2>2, <2>3, <2>5, <2>6, <1>1 DEF MemsetLoop, Kept
      <4> QED
        BY <4>2, <3>3, <1>1 DEF Loops
    <3>4. CASE c.fn = "memcmp"
      <4>1. i' = 0 /\ ~done'
        BY <3>4, <1>0, <1>1, <1>2
      <4>2. MemcmpLoop'
        BY <4>1, <2>2, <2>3, <2>6, <1>0, <1>1, <1>2 DEF MemcmpLoop, SameTo
      <4> QED
        BY <4>2, <3>4, <1>1 DEF Loops
    <3> QED
      BY <3>1, <3>2, <3>3, <3>4, <2>1 DEF MemFns
  <2> QED
    BY <2>4, <2>7 DEF IInv
<1>4. CASE c \in StrCalls
  <2>1. /\ c.fn \in StrFns /\ c.dest \in Addr /\ c.src \in Addr
        /\ Terminated(mem, c.dest) /\ Terminated(mem, c.src)
        /\ c.fn = "strcat" =>
             LET end == c.dest + Length(mem, c.dest) + Length(mem, c.src) IN
             end < MemSize /\ (end < c.src \/ c.src + Length(mem, c.src) < c.dest)
    BY <1>4 DEF StrCalls, Regions, StrFns
  <2>2. i' = 0 /\ j' = 0 /\ ~done' /\ mem' = mem /\ before' = mem
    BY <2>1, <1>0, <1>1, <1>2 DEF StrFns
  <2>3. StrArgs'
    BY <2>1, <2>2, <1>1 DEF StrArgs, Terminated
  <2>4. Types' /\ Idle'
    <3>1. c.fn \in StrFns /\ c.fn # "none"
      BY <2>1 DEF StrFns
    <3>2. before' \in [Addr -> 0..Byte - 1] /\ done' = FALSE
      BY <2>2, <1>0, <1>2
    <3>3. call'.fn \in StrFns /\ call'.fn # "none"
      BY <3>1, <1>1
    <3>4. Idle'
      BY <3>3 DEF Idle
    <3>5. mem' \in [Addr -> 0..Byte - 1] /\ i' \in Nat /\ j' \in Nat
      BY <2>2, <1>0
    <3> QED
      BY <3>2, <3>3, <3>4, <3>5 DEF Types
  <2>5. /\ Length(mem, c.dest) \in Nat /\ Length(mem, c.src) \in Nat
        /\ 0..0 - 1 = {}
    BY <2>1, LengthOf DEF FirstZero
  <2>6. Loops'
    <3>1. CASE c.fn = "strcmp"
      <4>1. StrcmpLoop'
        BY <2>2, <2>3, <2>5, <1>1 DEF StrcmpLoop, SameTo, NoZeroTo, Length
      <4> QED
        BY <4>1, <3>1, <1>1 DEF Loops
    <3>2. CASE c.fn = "strlen"
      <4>1. StrlenLoop'
        BY <2>2, <2>3, <2>5, <1>1 DEF StrlenLoop, Length
      <4> QED
        BY <4>1, <3>2, <1>1 DEF Loops
    <3>3. CASE c.fn = "strcat"
      <4>1. /\ Length(before, call.dest)' = Length(mem, c.dest)
            /\ Length(before, call.src)' = Length(mem, c.src)
        BY <2>2, <1>1 DEF Length
      <4>2. \A lo, hi : Kept(lo, hi)'
        BY <2>2 DEF Kept
      <4>3. StrcatLoop'
        BY <4>1, <4>2, <3>3, <2>1, <2>2, <2>3, <2>5, <1>1 DEF StrcatLoop, Kept
      <4> QED
        BY <4>3, <3>3, <1>1 DEF Loops
    <3> QED
      BY <3>1, <3>2, <3>3, <2>1 DEF StrFns
  <2> QED
    BY <2>4, <2>6 DEF IInv
<1>5. CASE c \in PrintCalls
  <2>1. CASE c \in { [fn |-> f, num |-> n] : f \in {"tty_printint", "tty_printhex"}, n \in Nums }
    <3>1. c.fn \in {"tty_printint", "tty_printhex"}
      BY <2>1
    <3>2. i' = 0
      BY <3>1, <1>1
    <3> QED
      BY <3>1, <3>2, <1>0, <1>1, <1>2 DEF IInv, Types, Idle, Loops
  <2>2. CASE c \in { [fn |-> "kprintf", format |-> f] : f \in BoundedSeq(Letters \cup {"%"}, MaxFormat) }
    <3>1. PICK f \in BoundedSeq(Chars, MaxFormat) : c = [fn |-> "kprintf", format |-> f]
      BY <2>2 DEF Chars
    <3>2. f \in Seq(Chars) /\ c.fn = "kprintf" /\ c.format = f
      BY <3>1, LibcConstants DEF BoundedSeq, SeqOf
    <3>3. i' = 0 /\ ~done'
      BY <3>2, <1>0, <1>1, <1>2
    <3>4. Shown(f, 0) = {} /\ ~Escaped(f, 1)
      BY DEF Shown, Escaped
    <3>5. KprintfLoop'
      <4>1. 0 \in 0..Len(f) /\ Cardinality({}) = 0
        BY <3>2, FS_EmptySet
      <4>2. {k \in Shown(f, 0) : f[k] = "%"} = {}
        BY <3>4
      <4>3. Len(<<>>) = 0 /\ <<>> \in Seq(Units)
        OBVIOUS
      <4>4. call'.format = f /\ out' = <<>> /\ ~fmt_flag' /\ printed' = 0
        BY <3>2, <1>0, <1>1, <1>2
      <4>5. i' + 1 = 1 /\ Len(out') = Cardinality(Shown(f, i'))
        <5>1. Cardinality(Shown(f, i')) = 0
          BY <3>3, <3>4, <4>1
        <5>2. Len(out') = 0
          BY <4>3, <4>4
        <5> QED
          BY <5>1, <5>2, <3>3
      <4>6. printed' = Cardinality({k \in Shown(f, i') : f[k] = "%"})
        BY <3>3, <4>1, <4>2, <4>4
      <4>7. fmt_flag' <=> Escaped(f, i' + 1)
        BY <3>4, <4>4, <4>5
      <4>8. Shown(f, i') = {} /\ i' \in 0..Len(f) /\ out' \in Seq(Units)
        BY <3>3, <3>4, <4>1, <4>3, <4>4
      <4> QED
        BY <3>2, <3>3, <4>4, <4>5, <4>6, <4>7, <4>8 DEF KprintfLoop
    <3> QED
      BY <3>2, <3>3, <3>5, <1>0, <1>1, <1>2 DEF IInv, Types, Idle, Loops
  <2> QED
    BY <2>1, <2>2, <1>5 DEF PrintCalls
<1> QED
  BY <1>1, <1>3, <1>4, <1>5

LEMMA ReturnedIInv ==
  ASSUME IInv, Returned
  PROVE  IInv'
<1>1. call'.fn = "none"
  BY DEF Returned, None
<1>2. Types' /\ Idle'
  BY <1>1 DEF Returned, IInv, Types, Idle, MemFns, StrFns
<1> QED
  BY <1>1, <1>2 DEF IInv, Loops

-----------------------------------------------------------------------------
(* The memory functions *)

LEMMA Stored ==
  ASSUME mem \in [Addr -> 0..Byte - 1], NEW d \in Addr, NEW v \in 0..Byte - 1,
         mem' = [mem EXCEPT ![d] = v]
  PROVE  /\ mem' \in [Addr -> 0..Byte - 1] /\ mem'[d] = v
         /\ \A a \in Addr \ {d} : mem'[a] = mem[a]
OBVIOUS

LEMMA MemcpyIInv ==
  ASSUME IInv, memcpy
  PROVE  IInv'
<1> DEFINE d == call.dest
           e == call.src
           n == call.n
<1>0. /\ mem \in [Addr -> 0..Byte - 1] /\ before \in [Addr -> 0..Byte - 1]
      /\ call.fn = "memcpy" /\ done = FALSE /\ MemSize \in Nat
      /\ j \in Nat
  BY LibcConstants DEF memcpy, In, IInv, Types
<1>1. /\ d \in Nat /\ e \in Nat /\ n \in Nat /\ d + n <= MemSize /\ e + n <= MemSize
      /\ i \in 0..n
      /\ Kept(d, d + i)
      /\ d \notin e + 1..e + n - 1 => Moved(0, i)
      /\ MemArgs
  BY <1>0 DEF IInv, Loops, MemcpyLoop, MemArgs
<1>2. call' = call /\ before' = before /\ j' = j
  BY DEF memcpy, console
<1> HIDE DEF d, e, n
<1>3. CASE i < n /\ mem' = [mem EXCEPT ![d + i] = mem[e + i]] /\ i' = i + 1 /\ Go
  <2>1. d + i \in Addr /\ e + i \in Addr /\ i' \in 0..n /\ i' \in Nat
    BY <1>0, <1>1, <1>3 DEF Addr
  <2>2. mem[e + i] \in 0..Byte - 1
    BY <2>1, <1>0
  <2>3. /\ mem' \in [Addr -> 0..Byte - 1] /\ mem'[d + i] = mem[e + i]
        /\ \A a \in Addr \ {d + i} : mem'[a] = mem[a]
    BY <2>1, <2>2, <1>0, <1>3, Stored
  <2>4. ASSUME NEW a \in Addr, a < d \/ a >= d + i' PROVE mem'[a] = before[a]
    <3>1. a # d + i /\ (a < d \/ a >= d + i) /\ a \in Nat
      BY <2>4, <1>0, <1>1, <1>3 DEF Addr
    <3> QED
      BY <3>1, <2>3, <1>1 DEF Kept
  <2>5. ASSUME d \notin e + 1..e + n - 1, NEW k \in 0..i' - 1
        PROVE  mem'[d + k] = before[e + k]
    <3>1. CASE k = i
      <4>1. e + i < d \/ e + i >= d + i
        BY <2>5, <1>1, <1>3
      <4>2. mem[e + i] = before[e + i]
        BY <4>1, <2>1, <1>1 DEF Kept
      <4> QED
        BY <4>2, <3>1, <2>3
    <3>2. CASE k # i
      <4>1. k \in 0..i - 1 /\ d + k \in Addr /\ d + k # d + i
        BY <3>2, <2>5, <1>0, <1>1, <1>3 DEF Addr
      <4> QED
        BY <4>1, <2>3, <2>5, <1>1 DEF Moved, d, e
    <3> QED
      BY <3>1, <3>2
  <2>6. done' = FALSE
    BY <1>0, <1>3 DEF Go
  <2>7. MemcpyLoop'
    BY <2>1, <2>4, <2>5, <2>6, <1>1, <1>2 DEF MemcpyLoop, MemArgs, Kept, Moved, d, e, n
  <2> QED
    BY <2>1, <2>3, <2>6, <2>7, <1>0, <1>2 DEF IInv, Types, Idle, Loops, MemFns
<1>4. CASE ~(i < n) /\ Return(d) /\ UNCHANGED <<mem, i>>
  <2>1. done' = TRUE /\ mem' = mem /\ i' = i /\ i = n /\ i \in Nat
    BY <1>1, <1>4 DEF Return
  <2>2. MemcpyLoop'
    BY <2>1, <1>1, <1>2 DEF MemcpyLoop, MemArgs, Kept, Moved, d, e, n
  <2> QED
    BY <2>1, <2>2, <1>0, <1>2 DEF IInv, Types, Idle, Loops, MemFns
<1> QED
  BY <1>3, <1>4 DEF memcpy, d, e, n

LEMMA MemmoveIInv ==
  ASSUME IInv, memmove
  PROVE  IInv'
<1> DEFINE d == call.dest
           e == call.src
           n == call.n
<1>0. /\ mem \in [Addr -> 0..Byte - 1] /\ before \in [Addr -> 0..Byte - 1]
      /\ call.fn = "memmove" /\ done = FALSE /\ MemSize \in Nat
      /\ j \in Nat
  BY LibcConstants DEF memmove, In, IInv, Types
<1>1. /\ d \in Nat /\ e \in Nat /\ n \in Nat /\ d + n <= MemSize /\ e + n <= MemSize
      /\ i \in 0..n
      /\ d < e => Kept(d, d + i) /\ Moved(0, i)
      /\ d >= e => Kept(d + i, d + n) /\ Moved(i, n)
      /\ MemArgs
  BY <1>0 DEF IInv, Loops, MemmoveLoop, MemArgs
<1>2. call' = call /\ before' = before /\ j' = j
  BY DEF memmove, console
<1> HIDE DEF d, e, n
<1>3. CASE /\ d < e /\ i < n
           /\ mem' = [mem EXCEPT ![d + i] = mem[e + i]] /\ i' = i + 1 /\ Go
  <2>1. d + i \in Addr /\ e + i \in Addr /\ i' \in 0..n /\ i' \in Nat
    BY <1>0, <1>1, <1>3 DEF Addr
  <2>2. mem[e + i] \in 0..Byte - 1
    BY <2>1, <1>0
  <2>3. /\ mem' \in [Addr -> 0..Byte - 1] /\ mem'[d + i] = mem[e + i]
        /\ \A a \in Addr \ {d + i} : mem'[a] = mem[a]
    BY <2>1, <2>2, <1>0, <1>3, Stored
  <2>4. ASSUME NEW a \in Addr, a < d \/ a >= d + i' PROVE mem'[a] = before[a]
    <3>1. a # d + i /\ (a < d \/ a >= d + i) /\ a \in Nat
      BY <2>4, <1>0, <1>1, <1>3 DEF Addr
    <3> QED
      BY <3>1, <2>3, <1>1, <1>3 DEF Kept
  <2>5. ASSUME NEW k \in 0..i' - 1
        PROVE  mem'[d + k] = before[e + k]
    <3>1. CASE k = i
      <4>1. e + i >= d + i
        BY <1>1, <1>3
      <4>2. mem[e + i] = before[e + i]
        BY <4>1, <2>1, <1>1, <1>3 DEF Kept
      <4> QED
        BY <4>2, <3>1, <2>3
    <3>2. CASE k # i
      <4>1. k \in 0..i - 1 /\ d + k \in Addr /\ d + k # d + i
        BY <3>2, <2>5, <1>0, <1>1, <1>3 DEF Addr
      <4> QED
        BY <4>1, <2>3, <1>1, <1>3 DEF Moved, d, e
    <3> QED
      BY <3>1, <3>2
  <2>6. done' = FALSE /\ ~(d >= e)
    BY <1>0, <1>1, <1>3 DEF Go
  <2>7. MemmoveLoop'
    BY <2>1, <2>4, <2>5, <2>6, <1>1, <1>2 DEF MemmoveLoop, MemArgs, Kept, Moved, d, e, n
  <2> QED
    BY <2>1, <2>3, <2>6, <2>7, <1>0, <1>2 DEF IInv, Types, Idle, Loops, MemFns
<1>4. CASE /\ d >= e /\ i # 0
           /\ mem' = [mem EXCEPT ![d + i - 1] = mem[e + i - 1]] /\ i' = i - 1 /\ Go
  <2>1. d + i - 1 \in Addr /\ e + i - 1 \in Addr /\ i' \in 0..n /\ i' \in Nat
    BY <1>0, <1>1, <1>4 DEF Addr
  <2>2. mem[e + i - 1] \in 0..Byte - 1
    BY <2>1, <1>0
  <2>3. /\ mem' \in [Addr -> 0..Byte - 1] /\ mem'[d + i - 1] = mem[e + i - 1]
        /\ \A a \in Addr \ {d + i - 1} : mem'[a] = mem[a]
    BY <2>1, <2>2, <1>0, <1>4, Stored
  <2>4. ASSUME NEW a \in Addr, a < d + i' \/ a >= d + n PROVE mem'[a] = before[a]
    <3>1. a # d + i - 1 /\ (a < d + i \/ a >= d + n) /\ a \in Nat
      BY <2>4, <1>0, <1>1, <1>4 DEF Addr
    <3> QED
      BY <3>1, <2>3, <1>1, <1>4 DEF Kept
  <2>5. ASSUME NEW k \in i'..n - 1
        PROVE  mem'[d + k] = before[e + k]
    <3>1. CASE k = i - 1
      <4>1. e + i - 1 < d + i /\ d + k = d + i - 1 /\ e + k = e + i - 1
        BY <3>1, <1>1, <1>4
      <4>2. mem[e + i - 1] = before[e + i - 1]
        BY <4>1, <2>1, <1>1, <1>4 DEF Kept
      <4> QED
        BY <4>1, <4>2, <2>3
    <3>2. CASE k # i - 1
      <4>1. k \in i..n - 1 /\ d + k \in Addr /\ d + k # d + i - 1
        BY <3>2, <2>5, <1>0, <1>1, <1>4 DEF Addr
      <4> QED
        BY <4>1, <2>3, <1>1, <1>4 DEF Moved, d, e
    <3> QED
      BY <3>1, <3>2
  <2>6. done' = FALSE /\ ~(d < e)
    BY <1>0, <1>1, <1>4 DEF Go
  <2>7. MemmoveLoop'
    BY <2>1, <2>4, <2>5, <2>6, <1>1, <1>2 DEF MemmoveLoop, MemArgs, Kept, Moved, d, e, n
  <2> QED
    BY <2>1, <2>3, <2>6, <2>7, <1>0, <1>2 DEF IInv, Types, Idle, Loops, MemFns
<1>5. CASE /\ i = IF d < e THEN n ELSE 0
           /\ Return(d) /\ UNCHANGED <<mem, i>>
  <2>1. done' = TRUE /\ mem' = mem /\ i' = i /\ i \in Nat
    BY <1>1, <1>5 DEF Return
  <2>2. (d < e => i = n) /\ (d >= e => i = 0)
    BY <1>1, <1>5
  <2>3. MemmoveLoop'
    BY <2>1, <2>2, <1>1, <1>2 DEF MemmoveLoop, MemArgs, Kept, Moved, d, e, n
  <2> QED
    BY <2>1, <2>3, <1>0, <1>2 DEF IInv, Types, Idle, Loops, MemFns
<1> QED
  BY <1>3, <1>4, <1>5 DEF memmove, d, e, n

LEMMA MemsetIInv ==
  ASSUME IInv, memset
  PROVE  IInv'
<1> DEFINE d == call.dest
           n == call.n
           v == call.src % Byte
<1>0. /\ mem \in [Addr -> 0..Byte - 1] /\ before \in [Addr -> 0..Byte - 1]
      /\ call.fn = "memset" /\ done = FALSE /\ MemSize \in Nat
      /\ j \in Nat
  BY LibcConstants DEF memset, In, IInv, Types
<1>1. /\ d \in Nat /\ call.src \in Nat /\ n \in Nat /\ d + n <= MemSize
      /\ i \in 0..n
      /\ Kept(d, d + i) /\ \A k \in 0..i - 1 : mem[d + k] = v
      /\ MemArgs
  BY <1>0 DEF IInv, Loops, MemsetLoop, MemArgs
<1>2. call' = call /\ before' = before /\ j' = j
  BY DEF memset, console
<1>3. v \in 0..Byte - 1
  BY <1>1, LibcConstants
<1> HIDE DEF d, n, v
<1>4. CASE i < n /\ mem' = [mem EXCEPT ![d + i] = v] /\ i' = i + 1 /\ Go
  <2>1. d + i \in Addr /\ i' \in 0..n /\ i' \in Nat
    BY <1>0, <1>1, <1>4 DEF Addr
  <2>2. /\ mem' \in [Addr -> 0..Byte - 1] /\ mem'[d + i] = v
        /\ \A a \in Addr \ {d + i} : mem'[a] = mem[a]
    BY <2>1, <1>0, <1>3, <1>4, Stored
  <2>3. ASSUME NEW a \in Addr, a < d \/ a >= d + i' PROVE mem'[a] = before[a]
    <3>1. a # d + i /\ (a < d \/ a >= d + i) /\ a \in Nat
      BY <2>3, <1>0, <1>1, <1>4 DEF Addr
    <3> QED
      BY <3>1, <2>2, <1>1 DEF Kept
  <2>4. ASSUME NEW k \in 0..i' - 1 PROVE mem'[d + k] = v
    <3>1. CASE k = i
      BY <3>1, <2>2
    <3>2. CASE k # i
      <4>1. k \in 0..i - 1 /\ d + k \in Addr /\ d + k # d + i
        BY <3>2, <2>4, <1>0, <1>1, <1>4 DEF Addr
      <4> QED
        BY <4>1, <2>2, <1>1
    <3> QED
      BY <3>1, <3>2
  <2>5. done' = FALSE
    BY <1>0, <1>4 DEF Go
  <2>6. MemsetLoop'
    BY <2>1, <2>3, <2>4, <2>5, <1>1, <1>2 DEF MemsetLoop, MemArgs, Kept, d, n, v
  <2> QED
    BY <2>1, <2>2, <2>5, <2>6, <1>0, <1>2 DEF IInv, Types, Idle, Loops, MemFns
<1>5. CASE ~(i < n) /\ Return(d) /\ UNCHANGED <<mem, i>>
  <2>1. done' = TRUE /\ mem' = mem /\ i' = i /\ i = n /\ i \in Nat
    BY <1>1, <1>5 DEF Return
  <2>2. MemsetLoop'
    BY <2>1, <1>1, <1>2 DEF MemsetLoop, MemArgs, Kept, d, n, v
  <2> QED
    BY <2>1, <2>2, <1>0, <1>2 DEF IInv, Types, Idle, Loops, MemFns
<1> QED
  BY <1>4, <1>5 DEF memset, d, n, v

-----------------------------------------------------------------------------
(* The comparisons *)

LEMMA MemcmpIInv ==
  ASSUME IInv, memcmp
  PROVE  IInv'
<1> DEFINE d == call.dest
           e == call.src
           n == call.n
<1>0. /\ mem \in [Addr -> 0..Byte - 1] /\ before \in [Addr -> 0..Byte - 1]
      /\ call.fn = "memcmp" /\ done = FALSE /\ MemSize \in Nat
      /\ j \in Nat
  BY LibcConstants DEF memcmp, In, IInv, Types
<1>1. /\ d \in Nat /\ e \in Nat /\ n \in Nat /\ d + n <= MemSize /\ e + n <= MemSize
      /\ i \in 0..n /\ mem = before /\ MemArgs
      /\ \A h \in 0..i - 1 : mem[d + h] = mem[e + h]
  BY <1>0 DEF IInv, Loops, MemcmpLoop, MemArgs, SameTo
<1>2. call' = call /\ before' = before /\ j' = j /\ mem' = mem
  BY DEF memcmp, memory
<1>3. Difference = Char(mem[d + i]) - Char(mem[e + i])
  BY DEF Difference
<1> HIDE DEF d, e, n
<1>4. CASE i < n /\ Difference = 0 /\ i' = i + 1 /\ Go
  <2>1. d + i \in Addr /\ e + i \in Addr /\ i' \in 0..n /\ i' \in Nat
    BY <1>0, <1>1, <1>4 DEF Addr
  <2>2. mem[d + i] \in 0..Byte - 1 /\ mem[e + i] \in 0..Byte - 1
    BY <2>1, <1>0
  <2>3. mem[d + i] = mem[e + i]
    BY <2>2, <1>3, <1>4, CharInjective
  <2>4. ASSUME NEW h \in 0..i' - 1 PROVE mem[d + h] = mem[e + h]
    <3>1. h = i \/ h \in 0..i - 1
      BY <1>1, <1>4
    <3> QED
      BY <3>1, <2>3, <1>1
  <2>5. done' = FALSE
    BY <1>0, <1>4 DEF Go
  <2>6. MemcmpLoop'
    BY <2>1, <2>4, <2>5, <1>1, <1>2 DEF MemcmpLoop, MemArgs, SameTo, d, e, n
  <2> QED
    BY <2>1, <2>5, <2>6, <1>0, <1>2 DEF IInv, Types, Idle, Loops, MemFns
<1>5. CASE /\ UNCHANGED i
           /\ \/ i < n /\ Difference # 0 /\ Return(Difference)
              \/ ~(i < n) /\ Return(0)
  <2>1. done' = TRUE /\ i' = i /\ i \in Nat
    BY <1>1, <1>5 DEF Return
  <2>2. Difference' = Difference
    BY <2>1, <1>2 DEF Difference, Char
  <2>3. (i = n /\ ret' = 0) \/ (i < n /\ ret' = Difference' /\ ret' # 0)
    <3>1. ~(i < n) => i = n
      BY <1>1
    <3>2. (i < n /\ ret' = Difference /\ Difference # 0) \/ (~(i < n) /\ ret' = 0)
      BY <1>5 DEF Return
    <3> QED
      BY <3>1, <3>2, <2>2
  <2>4. MemcmpLoop'
    BY <2>1, <2>3, <1>1, <1>2 DEF MemcmpLoop, MemArgs, SameTo, d, e, n
  <2> QED
    BY <2>1, <2>4, <1>0, <1>2 DEF IInv, Types, Idle, Loops, MemFns
<1> QED
  BY <1>4, <1>5 DEF memcmp, n

LEMMA StrcmpIInv ==
  ASSUME IInv, strcmp
  PROVE  IInv'
<1> DEFINE d == call.dest
           e == call.src
           m == Length(before, d)
           n == Length(before, e)
<1>0. /\ mem \in [Addr -> 0..Byte - 1] /\ before \in [Addr -> 0..Byte - 1]
      /\ call.fn = "strcmp" /\ done = FALSE /\ MemSize \in Nat
      /\ j \in Nat
  BY LibcConstants DEF strcmp, In, IInv, Types
<1>1. /\ d \in Addr /\ e \in Addr /\ StrArgs
      /\ mem = before /\ i \in Nat /\ i <= m /\ i <= n
      /\ \A h \in 0..i - 1 : mem[d + h] = mem[e + h] /\ mem[d + h] # 0
  BY <1>0 DEF IInv, Loops, StrcmpLoop, StrArgs, SameTo, NoZeroTo
<1>2. call' = call /\ before' = before /\ j' = j /\ mem' = mem
  BY DEF strcmp, memory
<1>3. Difference = Char(mem[d + i]) - Char(mem[e + i])
  BY DEF Difference
<1>4. FirstZero(before, d, m) /\ FirstZero(before, e, n)
  BY <1>1, LengthOf DEF StrArgs
<1>5. m' = m /\ n' = n
  BY <1>2 DEF Length
<1> HIDE DEF d, e, m, n
<1>6. /\ d \in Nat /\ e \in Nat /\ m \in Nat /\ n \in Nat /\ d + m < MemSize /\ e + n < MemSize
      /\ before[d + m] = 0 /\ before[e + n] = 0
  BY <1>0, <1>1, <1>4 DEF FirstZero, Addr
<1>7. d + i \in Addr /\ e + i \in Addr
  BY <1>0, <1>1, <1>6 DEF Addr
<1>8. CASE mem[d + i] # 0 /\ mem[e + i] # 0 /\ Difference = 0 /\ i' = i + 1 /\ Go
  <2>1. i # m /\ i # n
    BY <1>1, <1>6, <1>8
  <2>2. i' \in Nat /\ i' <= m /\ i' <= n
    BY <2>1, <1>1, <1>6, <1>8
  <2>3. mem[d + i] \in 0..Byte - 1 /\ mem[e + i] \in 0..Byte - 1
    BY <1>0, <1>7
  <2>4. mem[d + i] = mem[e + i]
    BY <2>3, <1>3, <1>8, CharInjective
  <2>5. ASSUME NEW h \in 0..i' - 1 PROVE mem[d + h] = mem[e + h] /\ mem[d + h] # 0
    <3>1. h = i \/ h \in 0..i - 1
      BY <1>1, <1>8
    <3> QED
      BY <3>1, <2>4, <1>1, <1>8
  <2>6. done' = FALSE
    BY <1>0, <1>8 DEF Go
  <2>7. StrcmpLoop'
    <3>1. StrArgs'
      BY <1>1, <1>2 DEF StrArgs, Terminated
    <3>2. i' <= m' /\ i' <= n'
      BY <2>2, <1>5
    <3> QED
      BY <3>1, <3>2, <2>2, <2>5, <2>6, <1>1, <1>2 DEF StrcmpLoop, SameTo, NoZeroTo, d, e, m, n
  <2> QED
    BY <2>2, <2>6, <2>7, <1>0, <1>2 DEF IInv, Types, Idle, Loops, StrFns
<1>9. CASE /\ ~(mem[d + i] # 0 /\ mem[e + i] # 0 /\ Difference = 0)
           /\ Return(Difference) /\ UNCHANGED i
  <2>1. done' = TRUE /\ i' = i /\ ret' = Difference
    BY <1>9 DEF Return
  <2>2. Difference' = Difference
    BY <2>1, <1>2 DEF Difference, Char
  <2>3. ret' = Difference' /\ (mem[d + i] = 0 \/ mem[e + i] = 0 \/ ret' # 0)
    BY <2>1, <2>2, <1>9
  <2>4. StrcmpLoop'
    <3>1. StrArgs'
      BY <1>1, <1>2 DEF StrArgs, Terminated
    <3>2. i' <= m' /\ i' <= n'
      BY <2>1, <1>1, <1>5
    <3> QED
      BY <3>1, <3>2, <2>1, <2>3, <1>1, <1>2 DEF StrcmpLoop, SameTo, NoZeroTo, d, e, m, n
  <2> QED
    BY <2>1, <2>4, <1>0, <1>1, <1>2 DEF IInv, Types, Idle, Loops, StrFns
<1> QED
  BY <1>8, <1>9 DEF strcmp, d, e

LEMMA StrlenIInv ==
  ASSUME IInv, strlen
  PROVE  IInv'
<1> DEFINE d == call.dest
           m == Length(before, d)
<1>0. /\ mem \in [Addr -> 0..Byte - 1] /\ before \in [Addr -> 0..Byte - 1]
      /\ call.fn = "strlen" /\ done = FALSE /\ j \in Nat
  BY LibcConstants DEF strlen, In, IInv, Types
<1>1. d \in Addr /\ StrArgs /\ mem = before /\ i \in Nat /\ i <= m
  BY <1>0 DEF IInv, Loops, StrlenLoop, StrArgs
<1>2. call' = call /\ before' = before /\ j' = j /\ mem' = mem
  BY DEF strlen, memory
<1>3. m \in Nat /\ before[d + m] = 0
  BY <1>1, LengthOf DEF StrArgs, FirstZero
<1>4. m' = m /\ StrArgs'
  BY <1>1, <1>2 DEF Length, StrArgs, Terminated
<1> HIDE DEF d, m
<1>5. CASE mem[d + i] # 0 /\ i' = i + 1 /\ Go
  <2>1. i' \in Nat /\ i' <= m
    BY <1>1, <1>3, <1>5
  <2>2. done' = FALSE
    BY <1>0, <1>5 DEF Go
  <2>3. StrlenLoop'
    BY <2>1, <2>2, <1>1, <1>2, <1>4 DEF StrlenLoop, d, m
  <2> QED
    BY <2>1, <2>2, <2>3, <1>0, <1>2 DEF IInv, Types, Idle, Loops, StrFns
<1>6. CASE ~(mem[d + i] # 0) /\ Return(i) /\ UNCHANGED i
  <2>1. done' = TRUE /\ i' = i /\ ret' = i /\ mem[d + i] = 0
    BY <1>6 DEF Return
  <2>2. StrlenLoop'
    BY <2>1, <1>1, <1>2, <1>4 DEF StrlenLoop, d, m
  <2> QED
    BY <2>1, <2>2, <1>0, <1>1, <1>2 DEF IInv, Types, Idle, Loops, StrFns
<1> QED
  BY <1>5, <1>6 DEF strlen, d

-----------------------------------------------------------------------------
(* strcat *)

LEMMA StrcatIInv ==
  ASSUME IInv, strcat
  PROVE  IInv'
<1> DEFINE d == call.dest
           e == call.src
           m == Length(before, d)
           n == Length(before, e)
<1>0. /\ mem \in [Addr -> 0..Byte - 1] /\ before \in [Addr -> 0..Byte - 1]
      /\ call.fn = "strcat" /\ done = FALSE /\ MemSize \in Nat
  BY LibcConstants DEF strcat, In, IInv, Types
<1>1. /\ d \in Addr /\ e \in Addr /\ StrArgs
      /\ d + m + n < MemSize /\ (d + m + n < e \/ e + n < d)
      /\ i \in 0..m /\ j \in 0..n /\ (j > 0 => i = m)
      /\ Kept(d + m, d + m + j)
      /\ \A k \in 0..j - 1 : mem[d + m + k] = before[e + k]
  BY <1>0 DEF IInv, Loops, StrcatLoop, StrArgs
<1>2. call' = call /\ before' = before
  BY DEF strcat
<1>3. FirstZero(before, d, m) /\ FirstZero(before, e, n)
  BY <1>1, LengthOf DEF StrArgs
<1>4. m' = m /\ n' = n /\ d' = d /\ e' = e /\ StrArgs'
  BY <1>1, <1>2 DEF Length, StrArgs, Terminated
<1>5. \A a \in Addr : a < d + m \/ a >= d + m + j => mem[a] = before[a]
  BY <1>1 DEF Kept
<1> HIDE DEF d, e, m, n
<1>6. /\ d \in Nat /\ e \in Nat /\ m \in Nat /\ n \in Nat /\ e + n < MemSize
      /\ before[d + m] = 0 /\ before[e + n] = 0
      /\ \A h \in 0..m - 1 : before[d + h] # 0
      /\ \A h \in 0..n - 1 : before[e + h] # 0
  BY <1>0, <1>1, <1>3 DEF FirstZero, Addr
\* Towards the end of dest.
<1>7. CASE j = 0 /\ mem[d + i] # 0 /\ i' = i + 1 /\ Go /\ UNCHANGED <<mem, j>>
  <2>1. d + i \in Addr /\ (d + i < d + m \/ d + i >= d + m + j)
    BY <1>0, <1>1, <1>6, <1>7 DEF Addr
  <2>2. i # m
    BY <2>1, <1>5, <1>6, <1>7
  <2>3. i' \in 0..m /\ i' \in Nat /\ j' = 0 /\ j' \in Nat /\ mem' = mem
    BY <2>2, <1>1, <1>6, <1>7
  <2>4. done' = FALSE
    BY <1>0, <1>7 DEF Go
  <2>5. StrcatLoop'
    <3>1. Kept(d + m, d + m + j)'
      BY <2>3, <1>2, <1>4, <1>5, <1>7 DEF Kept
    <3>2. 0..j' - 1 = {} /\ ~(j' > 0)
      BY <2>3
    <3>3. j' \in 0..n'
      BY <2>3, <1>4, <1>6
    <3> QED
      BY <3>1, <3>2, <3>3, <2>3, <2>4, <1>1, <1>2, <1>4 DEF StrcatLoop, d, e, m, n
  <2> QED
    BY <2>3, <2>4, <2>5, <1>0, <1>2 DEF IInv, Types, Idle, Loops, StrFns
\* The copy.
<1>8. CASE /\ ~(j = 0 /\ mem[d + i] # 0)
           /\ mem' = [mem EXCEPT ![d + i + j] = mem[e + j]]
           /\ IF mem[e + j] # 0 THEN j' = j + 1 /\ Go ELSE Return(d) /\ UNCHANGED j
           /\ UNCHANGED i
  <2>1. i = m /\ i' = m /\ i \in Nat /\ j \in Nat /\ j <= n
    <3>1. ASSUME j = 0 PROVE i = m
      <4>1. d + i \in Addr /\ (i < m => d + i < d + m) /\ mem[d + i] = 0
        BY <3>1, <1>0, <1>1, <1>6, <1>8 DEF Addr
      <4>2. i < m => before[d + i] = 0
        BY <4>1, <1>5
      <4>3. i < m => i \in 0..m - 1
        BY <1>1, <1>6
      <4>4. ~(i < m)
        BY <4>2, <4>3, <1>6
      <4> QED
        BY <4>4, <1>1, <1>6
    <3>2. j # 0 => j > 0
      BY <1>1, <1>6
    <3> QED
      BY <3>1, <3>2, <1>1, <1>6, <1>8
  <2> DEFINE x == d + m + j
  <2>2. x \in Addr /\ e + j \in Addr /\ x = d + i + j /\ x \in Nat
    BY <2>1, <1>0, <1>1, <1>6 DEF Addr
  <2>3. mem[e + j] = before[e + j]
    <3>1. e + j < d + m \/ e + j >= d + m + j
      BY <2>1, <1>1, <1>6
    <3> QED
      BY <3>1, <2>2, <1>5
  <2> HIDE DEF x
  <2>4. /\ mem' \in [Addr -> 0..Byte - 1] /\ mem'[x] = before[e + j]
        /\ \A a \in Addr \ {x} : mem'[a] = mem[a]
    <3>1. mem[e + j] \in 0..Byte - 1 /\ mem' = [mem EXCEPT ![x] = mem[e + j]]
      BY <2>2, <1>0, <1>8
    <3> QED
      BY <3>1, <2>2, <2>3, <1>0, Stored
  <2>5. ASSUME NEW a \in Addr, a < d + m \/ a >= d + m + (j + 1) PROVE mem'[a] = before[a]
    <3>1. a # x /\ (a < d + m \/ a >= d + m + j) /\ a \in Nat
      BY <2>1, <2>5, <1>6, <1>0 DEF Addr, x
    <3> QED
      BY <3>1, <2>4, <1>5
  <2>6. ASSUME NEW k \in 0..j PROVE mem'[d + m + k] = before[e + k]
    <3>1. CASE k = j
      BY <3>1, <2>4 DEF x
    <3>2. CASE k # j
      <4>1. k \in 0..j - 1 /\ d + m + k \in Addr /\ d + m + k # x
        BY <3>2, <2>1, <2>6, <1>0, <1>1, <1>6 DEF Addr, x
      <4> QED
        BY <4>1, <2>4, <1>1
    <3> QED
      BY <3>1, <3>2
  <2>7. CASE mem[e + j] # 0 /\ j' = j + 1 /\ Go
    <3>1. done' = FALSE
      BY <2>7, <1>0 DEF Go
    <3>2. j # n
      BY <2>3, <2>7, <1>6
    <3>3. j' \in 0..n /\ j' \in Nat /\ j' - 1 = j
      BY <3>2, <2>1, <2>7, <1>6
    <3>4. Kept(d + m, d + m + j)'
      BY <2>5, <2>7, <1>2, <1>4 DEF Kept
    <3>5. \A k \in 0..j' - 1 : mem'[d + m + k] = before[e + k]
      BY <2>6, <3>3
    <3>6. m \in 0..m
      BY <1>6
    <3>7. StrcatLoop'
      BY <3>1, <3>3, <3>4, <3>5, <3>6, <2>1, <1>1, <1>2, <1>4 DEF StrcatLoop, d, e, m, n
    <3> QED
      BY <3>1, <3>3, <3>7, <2>1, <2>4, <1>0, <1>2 DEF IInv, Types, Idle, Loops, StrFns
  <2>8. CASE mem[e + j] = 0 /\ Return(d) /\ UNCHANGED j
    <3>1. done' = TRUE /\ j' = j
      BY <2>8 DEF Return
    <3>2. j = n
      <4>1. j < n => j \in 0..n - 1
        BY <2>1, <1>6
      <4>2. ~(j < n)
        BY <4>1, <2>3, <2>8, <1>6
      <4> QED
        BY <4>2, <2>1, <1>6
    <3>3. Kept(d + m, d + m + n + 1)'
      <4>1. d + m + n + 1 = d + m + (j + 1)
        BY <3>2, <1>6
      <4> QED
        BY <4>1, <2>5, <1>2, <1>4 DEF Kept
    <3>4. \A k \in 0..j' - 1 : mem'[d + m + k] = before[e + k]
      BY <3>1, <2>1, <2>6
    <3>5. mem'[d + m + n] = 0
      BY <3>2, <2>4, <1>6 DEF x
    <3>6. m \in 0..m /\ n \in 0..n
      BY <1>6
    <3>7. StrcatLoop'
      BY <3>1, <3>2, <3>3, <3>4, <3>5, <3>6, <2>1, <1>1, <1>2, <1>4 DEF StrcatLoop, d, e, m, n
    <3> QED
      BY <3>1, <3>7, <2>1, <2>4, <1>0, <1>2 DEF IInv, Types, Idle, Loops, StrFns
  <2> QED
    BY <2>7, <2>8, <1>8
<1> QED
  BY <1>7, <1>8 DEF strcat, d, e

-----------------------------------------------------------------------------
(* kprintf *)

\* The number of % directly before position k.
Run(f, k, r) ==
  /\ r \in 0..k - 1
  /\ \A h \in k - r..k - 1 : f[h] = "%"
  /\ k - r - 1 > 0 => f[k - r - 1] # "%"

LEMMA RunExists ==
  ASSUME NEW f, NEW k \in Nat \ {0}
  PROVE  \E r : Run(f, k, r)
<1> DEFINE S == {r \in 0..k - 1 : k - r - 1 = 0 \/ f[k - r - 1] # "%"}
<1>1. k - 1 \in S
  OBVIOUS
<1>2. PICK r \in S : \A q \in S : r <= q
  <2>1. S \in SUBSET Nat
    OBVIOUS
  <2> HIDE DEF S
  <2> QED
    BY <1>1, <2>1, Least
<1>3. ASSUME NEW h \in k - r..k - 1 PROVE f[h] = "%"
  <2> DEFINE q == k - h - 1
  <2>1. q \in 0..k - 1 /\ ~(r <= q) /\ k - q - 1 = h /\ h # 0
    BY <1>2
  <2>2. q \notin S
    <3> HIDE DEF S, q
    <3> QED
      BY <2>1, <1>2
  <2>3. ~(k - q - 1 = 0 \/ f[k - q - 1] # "%")
    BY <2>1, <2>2
  <2> HIDE DEF q
  <2> QED
    BY <2>1, <2>3
<1>4. Run(f, k, r)
  BY <1>2, <1>3 DEF Run
<1> QED
  BY <1>4

LEMMA EscapedRun ==
  ASSUME NEW f, NEW k \in Nat \ {0}, NEW r, Run(f, k, r)
  PROVE  Escaped(f, k) <=> r % 2 = 1
<1>1. /\ r \in 0..k - 1 /\ r \in Nat
      /\ \A h \in k - r..k - 1 : f[h] = "%"
      /\ k - r - 1 > 0 => f[k - r - 1] # "%"
  BY DEF Run
<1>2. ASSUME r % 2 = 1 PROVE Escaped(f, k)
  <2>1. r \in 1..k - 1
    BY <1>1, <1>2
  <2> QED
    BY <2>1, <1>1, <1>2 DEF Escaped
<1>3. ASSUME Escaped(f, k) PROVE r % 2 = 1
  <2>1. PICK n \in 1..k - 1 : /\ n % 2 = 1
                              /\ \A h \in k - n..k - 1 : f[h] = "%"
                              /\ k - n - 1 > 0 => f[k - n - 1] # "%"
    BY <1>3 DEF Escaped
  <2>2. ~(n < r)
    <3> SUFFICES ASSUME n < r PROVE FALSE
      OBVIOUS
    <3>1. k - n - 1 \in k - r..k - 1 /\ k - n - 1 > 0
      BY <1>1
    <3> QED
      BY <3>1, <2>1, <1>1
  <2>3. ~(r < n)
    <3> SUFFICES ASSUME r < n PROVE FALSE
      OBVIOUS
    <3>1. k - r - 1 \in k - n..k - 1 /\ k - r - 1 > 0
      BY <1>1
    <3> QED
      BY <3>1, <2>1, <1>1
  <2>4. n = r
    BY <2>2, <2>3, <1>1
  <2> QED
    BY <2>1, <2>4
<1> QED
  BY <1>2, <1>3

\* What fmt_flag keeps track of.
LEMMA EscapedNext ==
  ASSUME NEW f, NEW k \in Nat \ {0}
  PROVE  Escaped(f, k + 1) <=> f[k] = "%" /\ ~Escaped(f, k)
<1>1. PICK r : Run(f, k, r)
  BY RunExists
<1>2. /\ r \in 0..k - 1 /\ r \in Nat
      /\ \A h \in k - r..k - 1 : f[h] = "%"
      /\ k - r - 1 > 0 => f[k - r - 1] # "%"
  BY <1>1 DEF Run
<1>3. Escaped(f, k) <=> r % 2 = 1
  BY <1>1, EscapedRun
<1>4. k + 1 \in Nat \ {0} /\ (k + 1) - 1 = k
  OBVIOUS
<1>5. CASE f[k] = "%"
  <2>1. Run(f, k + 1, r + 1)
    <3>1. r + 1 \in 0..(k + 1) - 1
      BY <1>2
    <3>2. ASSUME NEW h \in (k + 1) - (r + 1)..(k + 1) - 1 PROVE f[h] = "%"
      <4>1. h = k \/ h \in k - r..k - 1
        BY <1>2
      <4> QED
        BY <4>1, <1>2, <1>5
    <3>3. (k + 1) - (r + 1) - 1 = k - r - 1
      BY <1>2
    <3> QED
      BY <3>1, <3>2, <3>3, <1>2 DEF Run
  <2>2. Escaped(f, k + 1) <=> (r + 1) % 2 = 1
    BY <2>1, <1>4, EscapedRun
  <2>3. (r + 1) % 2 = 1 <=> ~(r % 2 = 1)
    BY <1>2
  <2> QED
    BY <2>2, <2>3, <1>3, <1>5
<1>6. CASE f[k] # "%"
  <2>1. Run(f, k + 1, 0)
    <3>1. (k + 1) - 0..(k + 1) - 1 = {} /\ (k + 1) - 0 - 1 = k /\ 0 \in 0..(k + 1) - 1
      OBVIOUS
    <3> QED
      BY <3>1, <1>6 DEF Run
  <2>2. Escaped(f, k + 1) <=> 0 % 2 = 1
    BY <2>1, <1>4, EscapedRun
  <2>3. 0 % 2 = 0
    OBVIOUS
  <2> QED
    BY <2>2, <2>3, <1>6
<1> QED
  BY <1>5, <1>6

Visible(f, h) == IF Escaped(f, h) THEN f[h] \in Conversions \cup {"%"} ELSE f[h] # "%"

\* One more character is shown or not, and the places of the others stay.
LEMMA ShownNext ==
  ASSUME NEW f, NEW k \in Nat
  PROVE  /\ IsFiniteSet(Shown(f, k)) /\ Cardinality(Shown(f, k)) \in Nat
         /\ Visible(f, k + 1) =>
              /\ Shown(f, k + 1) = Shown(f, k) \cup {k + 1}
              /\ Cardinality(Shown(f, k + 1)) = Cardinality(Shown(f, k)) + 1
         /\ ~Visible(f, k + 1) => Shown(f, k + 1) = Shown(f, k)
         /\ \A h \in Shown(f, k) :
              /\ h \in 1..k
              /\ Cardinality(Shown(f, h)) \in 1..Cardinality(Shown(f, k))
<1>1. Shown(f, k) = {h \in 1..k : Visible(f, h)}
  BY DEF Shown, Visible
<1>2. Shown(f, k + 1) = {h \in 1..k + 1 : Visible(f, h)}
  BY DEF Shown, Visible
<1>3. ASSUME NEW q \in Nat PROVE IsFiniteSet(Shown(f, q)) /\ Cardinality(Shown(f, q)) \in Nat
  <2>1. IsFiniteSet(1..q) /\ Shown(f, q) \subseteq 1..q
    BY FS_Interval DEF Shown
  <2>2. IsFiniteSet(Shown(f, q))
    BY <2>1, FS_Subset
  <2> QED
    BY <2>2, FS_CardinalityType
<1>4. ASSUME Visible(f, k + 1)
      PROVE  /\ Shown(f, k + 1) = Shown(f, k) \cup {k + 1}
             /\ Cardinality(Shown(f, k + 1)) = Cardinality(Shown(f, k)) + 1
  <2>1. Shown(f, k + 1) = Shown(f, k) \cup {k + 1} /\ k + 1 \notin Shown(f, k)
    BY <1>1, <1>2, <1>4
  <2> QED
    BY <2>1, <1>3, FS_AddElement
<1>5. ASSUME ~Visible(f, k + 1) PROVE Shown(f, k + 1) = Shown(f, k)
  BY <1>1, <1>2, <1>5
<1>6. ASSUME NEW h \in Shown(f, k)
      PROVE  h \in 1..k /\ Cardinality(Shown(f, h)) \in 1..Cardinality(Shown(f, k))
  <2>1. h \in 1..k /\ h \in Nat /\ Visible(f, h)
    BY <1>1
  <2>2. Shown(f, h) \subseteq Shown(f, k) /\ h \in Shown(f, h)
    BY <2>1 DEF Shown, Visible
  <2>3. Cardinality(Shown(f, h)) <= Cardinality(Shown(f, k))
    BY <2>2, <1>3, FS_Subset
  <2>4. Cardinality(Shown(f, h)) # 0
    BY <2>1, <2>2, <1>3, FS_EmptySet
  <2> QED
    BY <2>1, <2>3, <2>4, <1>3
<1> QED
  BY <1>3, <1>4, <1>5, <1>6

LEMMA KprintfIInv ==
  ASSUME IInv, kprintf
  PROVE  IInv'
<1> DEFINE f == call.format
           c == f[i + 1]
           unit(k) == IF Escaped(f, k) THEN <<"%", f[k]>> ELSE <<f[k]>>
           Percents(k) == {h \in Shown(f, k) : f[h] = "%"}
<1>0. /\ mem \in [Addr -> 0..Byte - 1] /\ before \in [Addr -> 0..Byte - 1]
      /\ call.fn = "kprintf" /\ done = FALSE /\ j \in Nat
  BY DEF kprintf, In, IInv, Types
<1>1. /\ f \in Seq(Chars) /\ i \in 0..Len(f) /\ out \in Seq(Units) /\ i \in Nat
      /\ fmt_flag <=> Escaped(f, i + 1)
      /\ Len(out) = Cardinality(Shown(f, i))
      /\ \A k \in Shown(f, i) : out[Cardinality(Shown(f, k))] = unit(k)
      /\ printed = Cardinality(Percents(i))
  <2>1. KprintfLoop /\ i \in Nat
    BY <1>0 DEF IInv, Loops, Types
  <2> QED
    BY <2>1, Zenon DEF KprintfLoop
<1>2. call' = call /\ before' = before /\ j' = j /\ mem' = mem
  BY DEF kprintf, memory
<1>3. CASE i = Len(f) /\ Return(printed + i) /\ UNCHANGED <<i, fmt_flag, printed, out>>
  <2>1. /\ done' = TRUE /\ ret' = printed + i /\ i' = i /\ printed' = printed /\ out' = out
        /\ fmt_flag' = fmt_flag
    BY <1>3 DEF Return
  <2>2. printed' = Cardinality(Percents(i'))
    BY <2>1, <1>1
  <2>3. KprintfLoop'
    <3>1. fmt_flag' <=> Escaped(f, i' + 1)
      BY <2>1, <1>1, Zenon
    <3>2. /\ i' \in 0..Len(f) /\ out' \in Seq(Units) /\ Len(out') = Cardinality(Shown(f, i'))
          /\ \A k \in Shown(f, i') : out'[Cardinality(Shown(f, k))] = unit(k)
          /\ i' = Len(f) /\ ret' = printed' + i'
      BY <2>1, <1>1, <1>3
    <3> HIDE DEF unit
    <3> QED
      BY <2>1, <2>2, <3>1, <3>2, <1>1, <1>2 DEF KprintfLoop, unit
  <2> QED
    BY <2>1, <2>3, <1>0, <1>1, <1>2 DEF IInv, Types, Idle, Loops
<1>4. CASE /\ i < Len(f) /\ i' = i + 1 /\ Go
           /\ IF fmt_flag
              THEN /\ IF c = "%" \/ c \in Conversions THEN Put(<<"%", c>>) ELSE UNCHANGED out
                   /\ printed' = IF c = "%" THEN printed + 1 ELSE printed
                   /\ fmt_flag' = FALSE
              ELSE /\ fmt_flag' = (c = "%")
                   /\ IF c = "%" THEN UNCHANGED out ELSE Put(<<c>>)
                   /\ UNCHANGED printed
  <2> DEFINE V == Visible(f, i + 1)
  <2>1. i' \in 0..Len(f) /\ i' = i + 1 /\ i' \in Nat \ {0} /\ done' = FALSE /\ c \in Chars
    BY <1>0, <1>1, <1>4 DEF Go
  <2>2. Escaped(f, i' + 1) <=> c = "%" /\ ~Escaped(f, i + 1)
    BY <2>1, EscapedNext
  <2>3. fmt_flag' <=> Escaped(f, i' + 1)
    BY <2>2, <1>1, <1>4
  <2>4. (V /\ out' = Append(out, unit(i + 1))) \/ (~V /\ out' = out)
    BY <1>1, <1>4 DEF Visible, Put
  <2>5. /\ V /\ c = "%" => printed' = printed + 1
        /\ ~(V /\ c = "%") => printed' = printed
    BY <1>1, <1>4 DEF Visible
  <2>6. /\ IsFiniteSet(Shown(f, i)) /\ Cardinality(Shown(f, i)) \in Nat
        /\ V => /\ Shown(f, i') = Shown(f, i) \cup {i'}
                /\ Cardinality(Shown(f, i')) = Cardinality(Shown(f, i)) + 1
        /\ ~V => Shown(f, i') = Shown(f, i)
        /\ \A h \in Shown(f, i) :
             h \in 1..i /\ Cardinality(Shown(f, h)) \in 1..Cardinality(Shown(f, i))
    BY <2>1, <1>1, ShownNext
  <2>7. unit(i + 1) \in Units
    BY <2>1 DEF Units
  <2> HIDE DEF V, c, unit
  <2>8. out' \in Seq(Units) /\ Len(out') = Cardinality(Shown(f, i'))
    <3>1. CASE V
      <4>1. out' = Append(out, unit(i + 1))
        BY <3>1, <2>4
      <4> QED
        BY <3>1, <4>1, <2>6, <2>7, <1>1
    <3>2. CASE ~V
      BY <3>2, <2>4, <2>6, <1>1
    <3> QED
      BY <3>1, <3>2
  <2>9. ASSUME NEW k \in Shown(f, i') PROVE out'[Cardinality(Shown(f, k))] = unit(k)
    <3>1. CASE k \in Shown(f, i)
      <4>1. Cardinality(Shown(f, k)) \in 1..Len(out) /\ out[Cardinality(Shown(f, k))] = unit(k)
        BY <3>1, <2>6, <1>1
      <4> HIDE DEF f
      <4> QED
        BY <4>1, <2>4, <2>7, <1>1
    <3>2. CASE k \notin Shown(f, i)
      <4>1. V /\ k = i' /\ out' = Append(out, unit(i'))
        BY <3>2, <2>1, <2>4, <2>6, <2>9
      <4>2. Cardinality(Shown(f, k)) = Len(out) + 1
        BY <4>1, <2>6, <1>1
      <4> QED
        BY <4>1, <4>2, <2>7, <1>1
    <3> QED
      BY <3>1, <3>2
  <2>10. printed' = Cardinality(Percents(i'))
    <3>1. IsFiniteSet(Percents(i)) /\ i' \notin Percents(i)
      <4>1. Percents(i) \subseteq Shown(f, i)
        OBVIOUS
      <4>2. i' \notin Shown(f, i)
        BY <2>1, <2>6, <1>1
      <4> QED
        BY <4>1, <4>2, <2>6, FS_Subset
    <3>2. CASE V /\ c = "%"
      <4>1. Percents(i') = Percents(i) \cup {i'}
        BY <3>2, <2>1, <2>6 DEF c
      <4>2. Cardinality(Percents(i')) = Cardinality(Percents(i)) + 1
        <5> HIDE DEF Percents
        <5> QED
          BY <3>1, <4>1, FS_AddElement
      <4> QED
        BY <3>2, <4>2, <2>5, <1>1
    <3>3. CASE ~(V /\ c = "%")
      <4>1. Percents(i') = Percents(i)
        BY <3>3, <2>1, <2>6 DEF c
      <4> QED
        BY <3>3, <4>1, <2>5, <1>1
    <3> QED
      BY <3>2, <3>3
  <2>11. KprintfLoop'
    BY <2>1, <2>3, <2>8, <2>9, <2>10, <1>1, <1>2 DEF KprintfLoop, unit
  <2> QED
    BY <2>1, <2>11, <1>0, <1>2 DEF IInv, Types, Idle, Loops
<1> QED
  BY <1>3, <1>4 DEF kprintf

\* tty_printint and tty_printhex leave the memory alone.
LEMMA PrintIInv ==
  ASSUME IInv, tty_printint \/ tty_printhex
  PROVE  IInv'
<1>1. call' = call /\ before' = before /\ j' = j /\ mem' = mem
  BY DEF tty_printint, tty_printhex, memory
<1>2. call.fn \in {"tty_printint", "tty_printhex"}
  BY DEF tty_printint, tty_printhex, In
<1>3. i' \in Nat /\ done' \in BOOLEAN
  <2>1. i \in Nat /\ done \in BOOLEAN
    BY DEF IInv, Types
  <2>2. i' = i \/ i' = i + 1 \/ (i > 0 /\ i' = i - 1)
    BY Zenon DEF tty_printint, tty_printhex
  <2>3. done' = done \/ done' = TRUE
    BY Zenon DEF tty_printint, tty_printhex, Go, Return
  <2>4. i' \in Nat
    BY <2>1, <2>2
  <2>5. done' \in BOOLEAN
    BY <2>1, <2>3
  <2> QED
    BY <2>4, <2>5
<1> QED
  BY <1>1, <1>2, <1>3 DEF IInv, Types, Idle, Loops

-----------------------------------------------------------------------------
(* The theorems *)

LEMMA StutterIInv ==
  ASSUME IInv, UNCHANGED vars
  PROVE  IInv'
<1>1. /\ mem' = mem /\ before' = before /\ call' = call /\ done' = done /\ i' = i /\ j' = j
      /\ fmt_flag' = fmt_flag /\ printed' = printed /\ out' = out /\ ret' = ret
  BY DEF vars, memory, console
<1>2. Types' /\ Idle'
  BY <1>1 DEF IInv, Types, Idle
<1>3. MemArgs' <=> MemArgs
  BY <1>1 DEF MemArgs
<1>4. StrArgs' <=> StrArgs
  BY <1>1 DEF StrArgs, Terminated
<1>5. \A lo, hi : (Kept(lo, hi)' <=> Kept(lo, hi)) /\ (Moved(lo, hi)' <=> Moved(lo, hi))
  BY <1>1 DEF Kept, Moved
<1>6. \A k : (SameTo(k)' <=> SameTo(k)) /\ (NoZeroTo(k)' <=> NoZeroTo(k))
  BY <1>1 DEF SameTo, NoZeroTo
<1>7. /\ Difference' = Difference
      /\ Length(before, call.dest)' = Length(before, call.dest)
      /\ Length(before, call.src)' = Length(before, call.src)
  BY <1>1 DEF Difference, Char, Length
<1>8. ASSUME call.fn = "kprintf" PROVE KprintfLoop'
  <2>1. KprintfLoop
    BY <1>8 DEF IInv, Loops
  <2> DEFINE f == call.format
             unit(k) == IF Escaped(f, k) THEN <<"%", f[k]>> ELSE <<f[k]>>
             Percents(k) == {h \in Shown(f, k) : f[h] = "%"}
  <2>2. /\ f \in Seq(Chars) /\ i \in 0..Len(f) /\ out \in Seq(Units)
        /\ fmt_flag <=> Escaped(f, i + 1)
        /\ Len(out) = Cardinality(Shown(f, i))
        /\ \A k \in Shown(f, i) : out[Cardinality(Shown(f, k))] = unit(k)
        /\ printed = Cardinality(Percents(i))
        /\ done => i = Len(f) /\ ret = printed + i
    BY <2>1, Zenon DEF KprintfLoop
  <2>3. fmt_flag' <=> Escaped(f, i' + 1)
    BY <2>2, <1>1, Zenon
  <2>4. printed' = Cardinality(Percents(i'))
    BY <2>2, <1>1
  <2>5. /\ i' \in 0..Len(f) /\ out' \in Seq(Units) /\ Len(out') = Cardinality(Shown(f, i'))
        /\ \A k \in Shown(f, i') : out'[Cardinality(Shown(f, k))] = unit(k)
        /\ done' => i' = Len(f) /\ ret' = printed' + i'
    BY <2>2, <1>1
  <2> HIDE DEF unit
  <2> QED
    BY <2>2, <2>3, <2>4, <2>5, <1>1 DEF KprintfLoop, unit
<1>9. /\ call.fn = "memcpy" => MemcpyLoop'
      /\ call.fn = "memmove" => MemmoveLoop'
  BY <1>1, <1>3 DEF IInv, Loops, MemcpyLoop, MemmoveLoop, Kept, Moved
<1>10. /\ call.fn = "memset" => MemsetLoop'
       /\ call.fn = "memcmp" => MemcmpLoop'
  BY <1>1, <1>3, <1>7 DEF IInv, Loops, MemsetLoop, MemcmpLoop, Kept, SameTo
<1>11. /\ call.fn = "strcmp" => StrcmpLoop'
       /\ call.fn = "strlen" => StrlenLoop'
       /\ call.fn = "strcat" => StrcatLoop'
  BY <1>1, <1>4, <1>7 DEF IInv, Loops, StrcmpLoop, StrlenLoop, StrcatLoop, SameTo, NoZeroTo, Kept
<1> QED
  BY <1>1, <1>2, <1>8, <1>9, <1>10, <1>11 DEF IInv, Loops

LEMMA NextIInv == IInv /\ [Next]_vars => IInv'
BY StutterIInv, CallIInv, ReturnedIInv, MemcpyIInv, MemmoveIInv, MemsetIInv, MemcmpIInv,
   StrcmpIInv, StrlenIInv, StrcatIInv, PrintIInv, KprintfIInv
DEF Next, Body

\* Every loop keeps its invariant, whatever is called in whatever order.
THEOREM Invariant == Spec => []IInv
BY InitIInv, NextIInv, PTL DEF Spec

LEMMA StrcatText ==
  ASSUME IInv, Over("strcat")
  PROVE  /\ Terminated(mem, call.dest)
         /\ Text(mem, call.dest) = Text(before, call.dest) \o Text(before, call.src)
         /\ Text(mem, call.src) = Text(before, call.src)
<1> DEFINE d == call.dest
           e == call.src
           m == Length(before, d)
           n == Length(before, e)
<1>1. /\ d \in Addr /\ e \in Addr /\ StrArgs /\ MemSize \in Nat
      /\ d + m + n < MemSize /\ (d + m + n < e \/ e + n < d)
      /\ \A a \in Addr : a < d + m \/ a >= d + m + n + 1 => mem[a] = before[a]
      /\ \A k \in 0..n - 1 : mem[d + m + k] = before[e + k]
      /\ mem[d + m + n] = 0
      /\ mem \in [Addr -> 0..Byte - 1] /\ before \in [Addr -> 0..Byte - 1]
  BY LibcConstants DEF Over, IInv, Types, Loops, StrcatLoop, StrArgs, Kept
<1>2. FirstZero(before, d, m) /\ FirstZero(before, e, n)
  BY <1>1, LengthOf DEF StrArgs
<1> HIDE DEF d, e, m, n
<1>3. /\ d \in Nat /\ e \in Nat /\ m \in Nat /\ n \in Nat /\ e + n < MemSize
      /\ before[d + m] = 0 /\ before[e + n] = 0
      /\ \A h \in 0..m - 1 : before[d + h] # 0
      /\ \A h \in 0..n - 1 : before[e + h] # 0
  BY <1>1, <1>2 DEF FirstZero, Addr
<1>4. ASSUME NEW h \in 0..m - 1 PROVE mem[d + h] = before[d + h]
  <2>1. d + h \in Addr /\ d + h < d + m
    BY <1>1, <1>3 DEF Addr
  <2> QED
    BY <2>1, <1>1
<1>5. ASSUME NEW h \in 0..n PROVE mem[e + h] = before[e + h]
  <2>1. e + h \in Addr /\ (e + h < d + m \/ e + h >= d + m + n + 1)
    BY <1>1, <1>3 DEF Addr
  <2> QED
    BY <2>1, <1>1
<1>6. FirstZero(mem, d, m + n)
  <2>1. ASSUME NEW h \in 0..(m + n) - 1 PROVE mem[d + h] # 0
    <3>1. CASE h < m
      <4>1. h \in 0..m - 1
        BY <3>1, <1>3
      <4> QED
        BY <4>1, <1>3, <1>4
    <3>2. CASE h >= m
      <4>1. h - m \in 0..n - 1 /\ d + m + (h - m) = d + h
        BY <3>2, <1>3
      <4> QED
        BY <4>1, <1>1, <1>3
    <3> QED
      BY <3>1, <3>2, <1>3
  <2>2. m + n \in Nat /\ d + (m + n) \in Addr /\ d + (m + n) = d + m + n
    BY <1>1, <1>3 DEF Addr
  <2> QED
    BY <2>1, <2>2, <1>1 DEF FirstZero
<1>7. FirstZero(mem, e, n)
  <2>1. ASSUME NEW h \in 0..n - 1 PROVE mem[e + h] # 0
    <3>1. h \in 0..n
      BY <1>3
    <3> QED
      BY <3>1, <1>3, <1>5
  <2>2. n \in 0..n
    BY <1>3
  <2> QED
    BY <2>1, <2>2, <1>2, <1>3, <1>5 DEF FirstZero
<1>8. Length(mem, d) = m + n /\ Terminated(mem, d) /\ Length(mem, e) = n
  BY <1>1, <1>6, <1>7, LengthIs
<1> DEFINE T == Text(before, d)
           U == Text(before, e)
<1>9. /\ T = [k \in 1..m |-> before[d + k - 1]] /\ U = [k \in 1..n |-> before[e + k - 1]]
      /\ Text(mem, d) = [k \in 1..m + n |-> mem[d + k - 1]]
      /\ Text(mem, e) = [k \in 1..n |-> mem[e + k - 1]]
  BY <1>8 DEF Text, m, n
<1>10. Text(mem, e) = U
  <2>1. \A k \in 1..n : mem[e + k - 1] = before[e + k - 1]
    <3>1. ASSUME NEW k \in 1..n PROVE mem[e + k - 1] = before[e + k - 1]
      <4>1. k - 1 \in 0..n /\ e + (k - 1) = e + k - 1
        BY <1>3
      <4> QED
        BY <4>1, <1>5
    <3> QED
      BY <3>1
  <2> HIDE DEF U
  <2> QED
    BY <2>1, <1>9
<1>11. T \in Seq(0..Byte - 1) /\ U \in Seq(0..Byte - 1) /\ Len(T) = m /\ Len(U) = n
  <2>1. \A k \in 1..m : before[d + k - 1] \in 0..Byte - 1
    <3>1. \A k \in 1..m : d + k - 1 \in Addr
      BY <1>1, <1>3 DEF Addr
    <3> QED
      BY <3>1, <1>1
  <2>2. \A k \in 1..n : before[e + k - 1] \in 0..Byte - 1
    <3>1. \A k \in 1..n : e + k - 1 \in Addr
      BY <1>1, <1>3 DEF Addr
    <3> QED
      BY <3>1, <1>1
  <2> HIDE DEF T, U
  <2> QED
    BY <2>1, <2>2, <1>3, <1>9
<1>12. Text(mem, d) = T \o U
  <2>1. T \o U = [k \in 1..m + n |-> IF k <= m THEN T[k] ELSE U[k - m]]
    <3> HIDE DEF T, U
    <3> DEFINE W == T \o U
    <3>1. W \in Seq(0..Byte - 1) /\ Len(W) = m + n
      BY <1>3, <1>11
    <3>2. \A k \in 1..m + n : W[k] = IF k <= m THEN T[k] ELSE U[k - m]
      BY <1>3, <1>11
    <3>3. W = [k \in 1..Len(W) |-> W[k]]
      <4> HIDE DEF W
      <4> QED
        BY <3>1
    <3> HIDE DEF W
    <3>4. W = [k \in 1..m + n |-> IF k <= m THEN T[k] ELSE U[k - m]]
      BY <3>1, <3>2, <3>3
    <3> QED
      BY <3>4 DEF W
  <2>2. ASSUME NEW k \in 1..m + n
        PROVE  mem[d + k - 1] = IF k <= m THEN T[k] ELSE U[k - m]
    <3>1. CASE k <= m
      <4>1. k \in 1..m /\ k - 1 \in 0..m - 1 /\ d + (k - 1) = d + k - 1
        BY <3>1, <1>3
      <4>2. T[k] = before[d + k - 1]
        <5> HIDE DEF T
        <5> QED
          BY <4>1, <1>9
      <4> QED
        BY <4>1, <4>2, <3>1, <1>4
    <3>2. CASE ~(k <= m)
      <4>1. /\ k - m \in 1..n /\ (k - m) - 1 \in 0..n - 1
            /\ d + m + ((k - m) - 1) = d + k - 1 /\ e + ((k - m) - 1) = e + (k - m) - 1
        BY <3>2, <1>3
      <4>2. U[k - m] = before[e + (k - m) - 1]
        <5> HIDE DEF U
        <5> QED
          BY <4>1, <1>9
      <4>3. mem[d + k - 1] = before[e + (k - m) - 1]
        BY <4>1, <1>1
      <4> QED
        BY <4>2, <4>3, <3>2
    <3> QED
      BY <3>1, <3>2
  <2> HIDE DEF T, U
  <2> QED
    BY <2>1, <2>2, <1>9
<1> QED
  BY <1>8, <1>10, <1>12 DEF d, e, T, U

\* Whatever the arguments, and however the regions overlap where the function
\* allows it, the bytes end where they belong and no others are touched.
THEOREM Moves == Spec => []MovesExactly
<1>1. IInv => MovesExactly
  <2> SUFFICES ASSUME IInv PROVE MovesExactly
    OBVIOUS
  <2> DEFINE d == call.dest
             e == call.src
             n == call.n
             region == d..d + n - 1
  <2>1. ASSUME call.fn \in {"memcpy", "memmove", "memset"}
        PROVE  /\ \A a \in Addr \ region : mem[a] = before[a]
               /\ Over("memmove") \/ (Over("memcpy") /\ d \notin e + 1..e + n - 1)
                    => \A k \in 0..n - 1 : mem[d + k] = before[e + k]
               /\ Over("memset") => \A a \in region : mem[a] = e % Byte
    <3>1. MemArgs /\ i \in 0..n /\ MemSize \in Nat
      BY <2>1, LibcConstants DEF IInv, Loops, MemcpyLoop, MemmoveLoop, MemsetLoop
    <3>2. d \in Nat /\ n \in Nat /\ i \in Nat /\ i <= n
      BY <3>1 DEF MemArgs
    <3>3. Kept(d, d + i) \/ Kept(d + i, d + n)
      <4>1. CASE call.fn = "memmove"
        <5>1. d < e \/ d >= e
          BY <3>1 DEF MemArgs
        <5> QED
          BY <4>1, <5>1 DEF IInv, Loops, MemmoveLoop
      <4>2. CASE call.fn # "memmove"
        BY <2>1, <4>2 DEF IInv, Loops, MemcpyLoop, MemsetLoop
      <4> QED
        BY <4>1, <4>2
    <3>4. Over("memmove") \/ (Over("memcpy") /\ d \notin e + 1..e + n - 1)
            => \A k \in 0..n - 1 : mem[d + k] = before[e + k]
      <4>1. ASSUME Over("memmove") PROVE \A k \in 0..n - 1 : mem[d + k] = before[e + k]
        <5>1. d < e \/ d >= e
          BY <3>1 DEF MemArgs
        <5>2. Moved(0, n)
          BY <4>1, <5>1 DEF Over, IInv, Loops, MemmoveLoop
        <5> QED
          BY <5>2 DEF Moved
      <4>2. ASSUME Over("memcpy"), d \notin e + 1..e + n - 1
            PROVE  \A k \in 0..n - 1 : mem[d + k] = before[e + k]
        <5>1. Moved(0, n)
          BY <4>2 DEF Over, IInv, Loops, MemcpyLoop
        <5> QED
          BY <5>1 DEF Moved
      <4> QED
        BY <4>1, <4>2
    <3>5. Over("memset") => \A k \in 0..n - 1 : mem[d + k] = e % Byte
      BY DEF Over, IInv, Loops, MemsetLoop
    <3> HIDE DEF d, e, n
    <3>6. ASSUME NEW a \in Addr \ region PROVE mem[a] = before[a]
      <4>1. a \in Nat /\ (a < d \/ a >= d + n)
        BY <3>1, <3>2 DEF Addr
      <4>2. (a < d \/ a >= d + i) /\ (a < d + i \/ a >= d + n)
        BY <4>1, <3>2
      <4> QED
        BY <4>2, <3>3 DEF Kept
    <3>7. ASSUME Over("memset"), NEW a \in region PROVE mem[a] = e % Byte
      <4>1. a - d \in 0..n - 1 /\ d + (a - d) = a
        BY <3>2
      <4> QED
        BY <4>1, <3>5, <3>7
    <3> QED
      BY <3>4, <3>6, <3>7
  <2> QED
    BY <2>1, StrcatText DEF MovesExactly
<1> QED
  BY <1>1, Invariant, PTL

\* memcmp, strcmp and strlen answer for the whole region or string.
THEOREM Compares == Spec => []ComparesEqual
<1>1. IInv => ComparesEqual
  <2> SUFFICES ASSUME IInv PROVE ComparesEqual
    OBVIOUS
  <2> DEFINE d == call.dest
             e == call.src
  <2>0. /\ mem \in [Addr -> 0..Byte - 1] /\ MemSize \in Nat
        /\ Difference = Char(mem[d + i]) - Char(mem[e + i])
    BY LibcConstants DEF IInv, Types, Difference
  <2>1. ASSUME Over("memcmp")
        PROVE  ret = 0 <=> \A k \in 0..call.n - 1 : mem[d + k] = mem[e + k]
    <3> DEFINE n == call.n
    <3>1. /\ MemArgs /\ i \in 0..n /\ SameTo(i)
          /\ (i = n /\ ret = 0) \/ (i < n /\ ret = Difference /\ ret # 0)
      BY <2>1 DEF Over, IInv, Loops, MemcmpLoop
    <3>2. CASE i = n /\ ret = 0
      BY <3>1, <3>2 DEF SameTo
    <3>3. CASE i < n /\ ret = Difference /\ ret # 0
      <4>1. /\ d \in Nat /\ e \in Nat /\ n \in Nat /\ d + n <= MemSize /\ e + n <= MemSize
        BY <2>1, <3>1 DEF MemArgs, Over
      <4> HIDE DEF d, e, n
      <4>2. i \in 0..n - 1 /\ d + i \in Addr /\ e + i \in Addr
        BY <4>1, <3>1, <3>3, <2>0 DEF Addr
      <4>3. mem[d + i] # mem[e + i]
        BY <4>2, <3>3, <2>0, CharInjective
      <4>4. ~\A k \in 0..n - 1 : mem[d + k] = mem[e + k]
        BY <4>2, <4>3
      <4> QED
        BY <4>4, <3>3 DEF n
    <3> QED
      BY <3>1, <3>2, <3>3
  <2>2. ASSUME Over("strcmp") PROVE ret = 0 <=> Text(mem, d) = Text(mem, e)
    <3> DEFINE m == Length(mem, d)
               n == Length(mem, e)
    <3>1. /\ d \in Addr /\ e \in Addr /\ Terminated(mem, d) /\ Terminated(mem, e)
          /\ i \in Nat /\ i <= m /\ i <= n
          /\ \A h \in 0..i - 1 : mem[d + h] = mem[e + h] /\ mem[d + h] # 0
          /\ ret = Difference /\ (mem[d + i] = 0 \/ mem[e + i] = 0 \/ ret # 0)
      BY <2>2 DEF Over, IInv, Loops, StrcmpLoop, StrArgs, SameTo, NoZeroTo
    <3>2. FirstZero(mem, d, m) /\ FirstZero(mem, e, n)
      BY <3>1, LengthOf
    <3>3. /\ Text(mem, d) = [k \in 1..m |-> mem[d + k - 1]]
          /\ Text(mem, e) = [k \in 1..n |-> mem[e + k - 1]]
      BY DEF Text
    <3> HIDE DEF d, e, m, n
    <3>4. /\ d \in Nat /\ e \in Nat /\ m \in Nat /\ n \in Nat
          /\ d + m \in Addr /\ e + n \in Addr /\ mem[d + m] = 0 /\ mem[e + n] = 0
          /\ \A h \in 0..m - 1 : mem[d + h] # 0
          /\ \A h \in 0..n - 1 : mem[e + h] # 0
      BY <2>0, <3>1, <3>2 DEF FirstZero, Addr
    <3>5. d + i \in Addr /\ e + i \in Addr
      BY <2>0, <3>1, <3>4 DEF Addr
    <3>6. ret = 0 <=> mem[d + i] = mem[e + i]
      BY <2>0, <3>1, <3>5, CharInjective
    <3>7. (i < m => mem[d + i] # 0) /\ (i < n => mem[e + i] # 0)
      <4>1. (i < m => i \in 0..m - 1) /\ (i < n => i \in 0..n - 1)
        BY <3>1, <3>4
      <4> QED
        BY <4>1, <3>4
    <3>8. CASE ret = 0
      <4>1. mem[d + i] = 0 /\ mem[e + i] = 0
        BY <3>1, <3>6, <3>8
      <4>2. m = i /\ n = i
        BY <4>1, <3>1, <3>4, <3>7
      <4>3. \A k \in 1..i : mem[d + k - 1] = mem[e + k - 1]
        <5>1. ASSUME NEW k \in 1..i PROVE mem[d + k - 1] = mem[e + k - 1]
          <6>1. k - 1 \in 0..i - 1 /\ d + (k - 1) = d + k - 1 /\ e + (k - 1) = e + k - 1
            BY <3>1, <3>4
          <6> QED
            BY <6>1, <3>1
        <5> QED
          BY <5>1
      <4> QED
        BY <4>2, <4>3, <3>3, <3>8
    <3>9. CASE ret # 0
      <4> SUFFICES ASSUME Text(mem, d) = Text(mem, e) PROVE FALSE
        BY <3>9
      <4>1. m = n
        <5>1. 1..m = 1..n
          BY <3>3
        <5>2. (m < n => n \in 1..n /\ n \notin 1..m) /\ (n < m => m \in 1..m /\ m \notin 1..n)
          BY <3>4
        <5> QED
          BY <5>1, <5>2, <3>4
      <4>2. CASE i < m
        <5>1. i + 1 \in 1..m /\ i + 1 \in 1..n /\ d + (i + 1) - 1 = d + i /\ e + (i + 1) - 1 = e + i
          BY <4>1, <4>2, <3>1, <3>4
        <5>2. Text(mem, d)[i + 1] = mem[d + (i + 1) - 1]
          BY <5>1, <3>3
        <5>3. Text(mem, e)[i + 1] = mem[e + (i + 1) - 1]
          BY <5>1, <3>3
        <5>4. mem[d + i] = mem[e + i]
          BY <5>1, <5>2, <5>3
        <5> QED
          BY <5>4, <3>6, <3>9
      <4>3. CASE ~(i < m)
        <5>1. i = m /\ i = n
          BY <4>1, <4>3, <3>1, <3>4
        <5> QED
          BY <5>1, <3>4, <3>6, <3>9
      <4> QED
        BY <4>2, <4>3
    <3> QED
      BY <3>8, <3>9
  <2>3. ASSUME Over("strlen") PROVE ret = Length(mem, d)
    <3> DEFINE m == Length(mem, d)
    <3>1. d \in Addr /\ Terminated(mem, d) /\ i \in Nat /\ i <= m /\ ret = i /\ mem[d + i] = 0
      BY <2>3 DEF Over, IInv, Loops, StrlenLoop, StrArgs
    <3>2. FirstZero(mem, d, m)
      BY <3>1, LengthOf
    <3> HIDE DEF m, d
    <3>3. m \in Nat /\ \A h \in 0..m - 1 : mem[d + h] # 0
      BY <3>2 DEF FirstZero
    <3>4. ~(i < m)
      <4>1. i < m => i \in 0..m - 1
        BY <3>1, <3>3
      <4> QED
        BY <4>1, <3>1, <3>3
    <3>5. ret = m
      BY <3>1, <3>3, <3>4
    <3> QED
      BY <3>5 DEF m, d
  <2> QED
    BY <2>1, <2>2, <2>3 DEF ComparesEqual
<1> QED
  BY <1>1, Invariant, PTL

\* kprintf shows what the format says, in order, and counts it.
THEOREM Formats == Spec => []ReadsFormat
<1>1. IInv => ReadsFormat
  <2> SUFFICES ASSUME IInv, Over("kprintf") PROVE ReadsFormat
    BY DEF ReadsFormat
  <2> DEFINE f == call.format
             shown == { k \in DOMAIN f : IF Escaped(f, k) THEN f[k] \in Conversions \cup {"%"}
                                         ELSE f[k] # "%" }
             unit(k) == IF Escaped(f, k) THEN <<"%", f[k]>> ELSE <<f[k]>>
  <2>1. KprintfLoop /\ done
    BY DEF Over, IInv, Loops
  <2>2. /\ f \in Seq(Chars) /\ i = Len(f) /\ ret = printed + i
        /\ Len(out) = Cardinality(Shown(f, i))
        /\ \A k \in Shown(f, i) : out[Cardinality(Shown(f, k))] = unit(k)
        /\ printed = Cardinality({k \in Shown(f, i) : f[k] = "%"})
    BY <2>1, Zenon DEF KprintfLoop
  <2>3. Len(f) \in Nat /\ DOMAIN f = 1..Len(f)
    BY <2>2
  <2>4. shown = Shown(f, i)
    BY <2>2, <2>3 DEF Shown
  <2>5. ASSUME NEW k \in shown PROVE { h \in shown : h <= k } = Shown(f, k)
    <3>1. k \in 1..Len(f)
      BY <2>3
    <3>2. ASSUME NEW h PROVE h \in { g \in shown : g <= k } <=> h \in Shown(f, k)
      <4>1. h \in 1..Len(f) /\ h <= k <=> h \in 1..k
        BY <3>1, <2>3
      <4> QED
        BY <4>1, <2>3 DEF Shown
    <3> HIDE DEF shown
    <3> QED
      BY <3>2
  <2>6. \A k \in shown : out[Cardinality({ h \in shown : h <= k })] = unit(k)
    <3> HIDE DEF shown, unit
    <3> QED
      BY <2>2, <2>4, <2>5
  <2>7. Len(out) = Cardinality(shown)
    BY <2>2, <2>4
  <2>8. ret = Len(f) + Cardinality({ k \in shown : f[k] = "%" })
    <3>1. printed = Cardinality({ k \in shown : f[k] = "%" })
      <4> HIDE DEF shown
      <4> QED
        BY <2>2, <2>4
    <3>2. printed \in Nat
      <4>1. IsFiniteSet(Shown(f, i))
        BY <2>2, <2>3, ShownNext
      <4>2. IsFiniteSet({k \in Shown(f, i) : f[k] = "%"})
        BY <4>1, FS_Subset
      <4> QED
        BY <4>2, <2>2, FS_CardinalityType
    <3> HIDE DEF shown
    <3> QED
      BY <3>1, <3>2, <2>2, <2>3
  <2> QED
    BY <2>6, <2>7, <2>8, Zenon DEF ReadsFormat
<1> QED
  BY <1>1, Invariant, PTL
-----------------------------------------------------------------------------
(* Numbers and their digits *)

\* Two functions that go on from equal values alike are equal.
Alike(g, h, n) == g[0] = h[0] /\ \A k \in 1..n : g[k - 1] = h[k - 1] => g[k] = h[k]

LEMMA Agree ==
  ASSUME NEW n \in Nat, NEW g, NEW h, Alike(g, h, n)
  PROVE  g[n] = h[n]
<1> DEFINE S == {k \in 0..n : g[k] # h[k]}
<1> SUFFICES ASSUME S # {} PROVE FALSE
  <2>1. S = {} => \A k \in 0..n : g[k] = h[k]
    OBVIOUS
  <2>2. n \in 0..n
    OBVIOUS
  <2> HIDE DEF S
  <2> QED
    BY <2>1, <2>2
<1>1. PICK k \in S : \A m \in S : k <= m
  <2>1. S \in SUBSET Nat
    OBVIOUS
  <2> HIDE DEF S
  <2> QED
    BY <2>1, Least
<1>2. k \in 0..n /\ g[k] # h[k] /\ k # 0
  BY <1>1 DEF Alike
<1>3. k \in 1..n /\ k - 1 \in 0..n /\ ~(k <= k - 1)
  BY <1>2
<1>4. g[k - 1] = h[k - 1]
  BY <1>1, <1>3
<1> QED
  BY <1>2, <1>3, <1>4 DEF Alike

\* f begins with a; each value is r times the one before plus c's.
Horner(f, a, r, c, n) ==
  /\ f \in [0..n -> Nat]
  /\ f[0] = a
  /\ \A k \in 1..n : f[k] = f[k - 1] * r + c[k]

Given(c, n) == \A k \in 1..n : c[k] \in Nat

LEMMA HornerBegins == ASSUME NEW a \in Nat, NEW r, NEW c PROVE \E f : Horner(f, a, r, c, 0) /\ f[0] = a
<1>1. PICK n \in Nat : n = 0
  OBVIOUS
<1>2. PICK f : f = [k \in 0..n |-> a]
  OBVIOUS
<1>3. f \in [0..n -> Nat] /\ f[0] = a /\ \A k \in 1..n : FALSE
  BY <1>1, <1>2
<1> QED
  BY <1>1, <1>3 DEF Horner

LEMMA HornerGoesOn ==
  ASSUME NEW a, NEW r \in Nat, NEW c, NEW n \in Nat, NEW f, Horner(f, a, r, c, n), c[n + 1] \in Nat
  PROVE  \E g : Horner(g, a, r, c, n + 1)
<1>1. PICK d \in Nat : d = c[n + 1]
  OBVIOUS
<1>2. f \in [0..n -> Nat] /\ n \in 0..n /\ 0 \in 0..n
  BY DEF Horner
<1>3. PICK v \in Nat : v = f[n]
  BY <1>2
<1>4. PICK e \in Nat : e = v * r + d
  <2>1. v * r \in Nat
    OBVIOUS
  <2> QED
    BY <2>1
<1>5. PICK g : g = [k \in 0..n + 1 |-> IF k = n + 1 THEN e ELSE f[k]]
  OBVIOUS
<1>6. \A k \in 0..n + 1 : k = n + 1 \/ k \in 0..n
  OBVIOUS
<1>7. g \in [0..n + 1 -> Nat] /\ g[n + 1] = e /\ \A k \in 0..n : g[k] = f[k]
  BY <1>2, <1>5, <1>6
<1>8. ASSUME NEW k \in 1..n + 1 PROVE g[k] = g[k - 1] * r + c[k]
  <2>1. CASE k = n + 1
    <3>1. k - 1 = n
      BY <2>1
    <3>2. g[k - 1] = v
      BY <1>2, <1>3, <1>7, <3>1
    <3> QED
      BY <1>1, <1>4, <1>7, <2>1, <3>2
  <2>2. CASE k # n + 1
    <3>1. k \in 1..n /\ k \in 0..n /\ k - 1 \in 0..n
      BY <2>2
    <3>2. f[k] = f[k - 1] * r + c[k]
      BY <3>1 DEF Horner
    <3>3. g[k] = f[k] /\ g[k - 1] = f[k - 1]
      BY <1>7, <3>1
    <3> QED
      BY <3>2, <3>3
  <2> QED
    BY <2>1, <2>2
<1>9. g[0] = a
  <2>1. f[0] = a
    BY DEF Horner
  <2> QED
    BY <1>2, <1>7, <2>1
<1> QED
  BY <1>7, <1>8, <1>9 DEF Horner

\* There is such a function: there is no least length without one.
LEMMA HornerExists ==
  ASSUME NEW a \in Nat, NEW r \in Nat, NEW c, NEW n \in Nat, Given(c, n)
  PROVE  \E f : Horner(f, a, r, c, n)
<1> DEFINE S == {m \in 0..n : ~\E f : Horner(f, a, r, c, m)}
<1> SUFFICES ASSUME S # {} PROVE FALSE
  <2>1. n \in 0..n
    OBVIOUS
  <2> QED
    BY <2>1
<1>1. PICK m \in S : \A h \in S : m <= h
  <2>1. S \in SUBSET Nat
    OBVIOUS
  <2> HIDE DEF S
  <2> QED
    BY <2>1, Least
<1>2. m \in 0..n /\ ~\E f : Horner(f, a, r, c, m)
  BY <1>1
<1>3. m # 0
  BY <1>2, HornerBegins
<1>4. PICK h \in Nat : m = h + 1
  <2>1. m - 1 \in Nat /\ m = (m - 1) + 1
    BY <1>2, <1>3
  <2> QED
    BY <2>1
<1>5. h \in 0..n /\ ~(m <= h) /\ m \in 1..n
  BY <1>2, <1>4
<1>6. h \notin S
  <2> HIDE DEF S
  <2> QED
    BY <1>1, <1>5
<1>7. PICK f : Horner(f, a, r, c, h)
  BY <1>5, <1>6
<1>8. c[h + 1] \in Nat
  BY <1>4, <1>5 DEF Given
<1> HIDE DEF S
<1> QED
  BY <1>2, <1>4, <1>7, <1>8, HornerGoesOn

LEMMA ValueIs ==
  ASSUME NEW ds, NEW n \in Nat, n = Len(ds), NEW r, NEW g, Horner(g, 0, r, ds, n)
  PROVE  Value(ds, r) = g[n]
<1> DEFINE Solves(f) == f = [k \in 0..n |-> IF k = 0 THEN 0 ELSE f[k - 1] * r + ds[k]]
<1>1. Value(ds, r) = (CHOOSE f : Solves(f))[n]
  BY Zenon DEF Value
<1>2. g[0] = 0 /\ \A k \in 1..n : g[k] = g[k - 1] * r + ds[k]
  BY DEF Horner
<1>3. \A k \in 0..n : k = 0 \/ k \in 1..n
  OBVIOUS
<1>4. \A k \in 1..n : k # 0
  OBVIOUS
<1>5. Solves(g)
  <2>1. g = [k \in 0..n |-> g[k]]
    BY DEF Horner
  <2>2. \A k \in 0..n : g[k] = IF k = 0 THEN 0 ELSE g[k - 1] * r + ds[k]
    BY <1>2, <1>3, <1>4
  <2> QED
    BY <2>1, <2>2
<1>6. PICK f : f = CHOOSE w : Solves(w)
  OBVIOUS
<1>7. Solves(f)
  <2> HIDE DEF Solves
  <2> QED
    BY <1>5, <1>6
<1>8. \A k \in 0..n : f[k] = IF k = 0 THEN 0 ELSE f[k - 1] * r + ds[k]
  BY <1>7
<1>9. f[0] = 0 /\ \A k \in 1..n : f[k] = f[k - 1] * r + ds[k]
  <2>1. 0 \in 0..n /\ \A k \in 1..n : k \in 0..n
    OBVIOUS
  <2> HIDE DEF Solves
  <2> QED
    BY <1>4, <1>8, <2>1
<1> HIDE DEF Solves
<1>10. Alike(f, g, n)
  BY <1>2, <1>9 DEF Alike
<1> QED
  BY <1>1, <1>6, <1>10, Agree

LEMMA ValueEmpty == ASSUME NEW r PROVE Value(<<>>, r) = 0
<1>1. PICK ds : ds = <<>>
  OBVIOUS
<1>2. 0 = Len(ds) /\ 0 \in Nat
  BY <1>1
<1>3. PICK f : Horner(f, 0, r, ds, 0) /\ f[0] = 0
  BY HornerBegins
<1> QED
  BY <1>1, <1>2, <1>3, ValueIs

\* A digit more.
LEMMA ValueAppend ==
  ASSUME NEW ds \in Seq(Nat), NEW d \in Nat, NEW r \in Nat
  PROVE  Value(ds, r) \in Nat /\ Value(Append(ds, d), r) = Value(ds, r) * r + d
<1>1. PICK n \in Nat : n = Len(ds)
  OBVIOUS
<1>2. PICK more \in Seq(Nat) : more = Append(ds, d)
  <2>1. Append(ds, d) \in Seq(Nat)
    OBVIOUS
  <2> QED
    BY <2>1
<1>3. n + 1 = Len(more) /\ more[n + 1] = d /\ (\A k \in 1..n : more[k] = ds[k]) /\ n + 1 \in Nat
  BY <1>1, <1>2
<1>4. Given(more, n + 1)
  BY <1>2, <1>3 DEF Given
<1>5. PICK g : Horner(g, 0, r, more, n + 1)
  BY <1>3, <1>4, HornerExists
<1>6. PICK f : f = [k \in 0..n |-> g[k]]
  OBVIOUS
<1>7. f \in [0..n -> Nat] /\ (\A k \in 0..n : f[k] = g[k])
  <2>1. g \in [0..n + 1 -> Nat] /\ \A k \in 0..n : k \in 0..n + 1
    BY <1>5 DEF Horner
  <2> QED
    BY <1>6, <2>1
<1>8. Horner(f, 0, r, ds, n)
  <2>1. ASSUME NEW k \in 1..n PROVE f[k] = f[k - 1] * r + ds[k]
    <3>1. k \in 1..n + 1 /\ k \in 0..n /\ k - 1 \in 0..n
      OBVIOUS
    <3>2. g[k] = g[k - 1] * r + more[k]
      BY <1>5, <3>1 DEF Horner
    <3> QED
      BY <1>3, <1>7, <3>1, <3>2
  <2>2. f[0] = 0
    <3>1. 0 \in 0..n
      OBVIOUS
    <3> QED
      BY <1>5, <1>7, <3>1 DEF Horner
  <2> QED
    BY <1>7, <2>1, <2>2 DEF Horner
<1>9. Value(ds, r) = f[n] /\ Value(more, r) = g[n + 1]
  BY <1>1, <1>3, <1>5, <1>8, ValueIs
<1>10. n \in 0..n /\ n + 1 \in 1..n + 1 /\ (n + 1) - 1 = n
  OBVIOUS
<1>11. g[n + 1] = g[n] * r + d
  BY <1>3, <1>5, <1>10 DEF Horner
<1> QED
  BY <1>2, <1>7, <1>9, <1>10, <1>11

LEMMA PowerIs ==
  ASSUME NEW b \in Nat, NEW n \in Nat, NEW c, \A k \in 1..n : c[k] = 0, NEW g, Horner(g, 1, b, c, n)
  PROVE  Power(b, n) = g[n]
<1> DEFINE Solves(f) == f = [k \in 0..n |-> IF k = 0 THEN 1 ELSE f[k - 1] * b]
<1>1. Power(b, n) = (CHOOSE f : Solves(f))[n]
  BY Zenon DEF Power
<1>2. g[0] = 1 /\ \A k \in 1..n : g[k] = g[k - 1] * b
  <2>1. ASSUME NEW k \in 1..n PROVE g[k] = g[k - 1] * b
    <3>1. g[k] = g[k - 1] * b + c[k] /\ c[k] = 0 /\ g \in [0..n -> Nat]
      BY DEF Horner
    <3>2. k - 1 \in 0..n
      OBVIOUS
    <3>3. PICK v \in Nat : v = g[k - 1]
      BY <3>1, <3>2
    <3>4. v * b \in Nat
      BY <3>3
    <3>5. v * b + 0 = v * b
      BY <3>4
    <3> QED
      BY <3>1, <3>3, <3>5
  <2> QED
    BY <2>1 DEF Horner
<1>3. \A k \in 0..n : k = 0 \/ k \in 1..n
  OBVIOUS
<1>4. \A k \in 1..n : k # 0
  OBVIOUS
<1>5. Solves(g)
  <2>1. g = [k \in 0..n |-> g[k]]
    BY DEF Horner
  <2>2. \A k \in 0..n : g[k] = IF k = 0 THEN 1 ELSE g[k - 1] * b
    BY <1>2, <1>3, <1>4
  <2> QED
    BY <2>1, <2>2
<1>6. PICK f : f = CHOOSE w : Solves(w)
  OBVIOUS
<1>7. Solves(f)
  <2> HIDE DEF Solves
  <2> QED
    BY <1>5, <1>6
<1>8. \A k \in 0..n : f[k] = IF k = 0 THEN 1 ELSE f[k - 1] * b
  BY <1>7
<1>9. f[0] = 1 /\ \A k \in 1..n : f[k] = f[k - 1] * b
  <2>1. 0 \in 0..n /\ \A k \in 1..n : k \in 0..n
    OBVIOUS
  <2> HIDE DEF Solves
  <2> QED
    BY <1>4, <1>8, <2>1
<1> HIDE DEF Solves
<1>10. Alike(f, g, n)
  BY <1>2, <1>9 DEF Alike
<1> QED
  BY <1>1, <1>6, <1>10, Agree

LEMMA PowerZero == ASSUME NEW b \in Nat PROVE Power(b, 0) = 1
<1>1. PICK c, f : Horner(f, 1, b, c, 0) /\ f[0] = 1
  BY HornerBegins
<1>2. \A k \in 1..0 : c[k] = 0
  OBVIOUS
<1> QED
  BY <1>1, <1>2, PowerIs

LEMMA PowerNext ==
  ASSUME NEW b \in Nat, NEW n \in Nat
  PROVE  Power(b, n) \in Nat /\ Power(b, n + 1) = Power(b, n) * b
<1>1. PICK m \in Nat : m = n + 1
  OBVIOUS
<1>2. PICK c : c = [k \in 1..m |-> 0]
  OBVIOUS
<1>3. \A k \in 1..m : c[k] = 0
  BY <1>2
<1>4. Given(c, m)
  BY <1>3 DEF Given
<1>5. PICK g : Horner(g, 1, b, c, m)
  BY <1>4, HornerExists
<1>6. PICK f : f = [k \in 0..n |-> g[k]]
  OBVIOUS
<1>7. f \in [0..n -> Nat] /\ (\A k \in 0..n : f[k] = g[k])
  <2>1. g \in [0..m -> Nat] /\ \A k \in 0..n : k \in 0..m
    BY <1>1, <1>5 DEF Horner
  <2> QED
    BY <1>6, <2>1
<1>8. Horner(f, 1, b, c, n)
  <2>1. ASSUME NEW k \in 1..n PROVE f[k] = f[k - 1] * b + c[k]
    <3>1. k \in 1..m /\ k \in 0..n /\ k - 1 \in 0..n
      BY <1>1
    <3>2. g[k] = g[k - 1] * b + c[k]
      BY <1>5, <3>1 DEF Horner
    <3> QED
      BY <1>7, <3>1, <3>2
  <2>2. f[0] = 1
    <3>1. 0 \in 0..n
      OBVIOUS
    <3> QED
      BY <1>5, <1>7, <3>1 DEF Horner
  <2> QED
    BY <1>7, <2>1, <2>2 DEF Horner
<1>9. Power(b, n) = f[n] /\ Power(b, m) = g[m]
  <2>1. \A k \in 1..n : c[k] = 0
    <3>1. \A k \in 1..n : k \in 1..m
      BY <1>1
    <3> QED
      BY <1>3, <3>1
  <2> QED
    BY <1>3, <1>5, <1>8, <2>1, PowerIs
<1>10. n \in 0..n /\ m \in 1..m /\ m - 1 = n
  BY <1>1
<1>11. PICK v \in Nat : v = f[n] /\ v = g[n]
  BY <1>7, <1>10
<1>12. g[m] = v * b + 0
  BY <1>3, <1>5, <1>10, <1>11 DEF Horner
<1>13. v * b \in Nat
  OBVIOUS
<1>14. g[m] = v * b
  BY <1>12, <1>13
<1> QED
  BY <1>1, <1>9, <1>11, <1>14

LEMMA DividedInt ==
  ASSUME NEW a \in Int, NEW b \in Int, b > 0 PROVE a = (a \div b) * b + (a % b)
OBVIOUS

LEMMA Divided ==
  ASSUME NEW a \in Nat, NEW b \in Nat \ {0}
  PROVE  a \div b \in Nat /\ a % b \in 0..b - 1 /\ a = (a \div b) * b + (a % b)
<1>1. a \div b \in Int /\ a % b \in 0..b - 1
  OBVIOUS
<1>2. a = (a \div b) * b + (a % b)
  <2>1. a \in Int /\ b \in Int /\ b > 0
    OBVIOUS
  <2> QED
    BY <2>1, DividedInt
<1>3. PICK q \in Int, x \in 0..b - 1 : q = a \div b /\ x = a % b
  BY <1>1
<1>4. a = q * b + x
  BY <1>2, <1>3
<1>5. q >= 0
  <2> SUFFICES ASSUME q <= -1 PROVE FALSE
    OBVIOUS
  <2>1. q * b <= (-1) * b
    OBVIOUS
  <2> QED
    BY <1>4, <2>1
<1>6. a \div b \in Nat
  BY <1>3, <1>5
<1> QED
  BY <1>1, <1>2, <1>6

LEMMA Smaller ==
  ASSUME NEW a \in Nat, NEW b \in Nat \ {0, 1}, NEW p \in Nat, a < p * b
  PROVE  a \div b < p
<1>1. PICK q \in Nat, x \in 0..b - 1 : q = a \div b /\ a = q * b + x
  BY Divided
<1>2. q * b < p * b
  <2>1. q * b \in Nat /\ p * b \in Nat
    OBVIOUS
  <2> QED
    BY <1>1, <2>1
<1>3. q < p
  <2> SUFFICES ASSUME p <= q PROVE FALSE
    OBVIOUS
  <2>1. p * b <= q * b
    OBVIOUS
  <2> QED
    BY <1>2, <2>1
<1> QED
  BY <1>1, <1>3

\* Quotient and remainder are the only ones.
LEMMA RemainderIs ==
  ASSUME NEW a \in Nat, NEW w \in Nat \ {0}, NEW q \in Nat, NEW y \in 0..w - 1, a = q * w + y
  PROVE  a % w = y
<1>0. a \div w \in Nat /\ a % w \in 0..w - 1 /\ a = (a \div w) * w + (a % w)
  BY Divided
<1>1. PICK p \in Nat, x \in 0..w - 1 : x = a % w /\ a = p * w + x
  BY <1>0
<1>2. p = q
  <2>1. ~(p < q)
    <3> SUFFICES ASSUME p < q PROVE FALSE
      OBVIOUS
    <3>1. PICK e \in Nat : q = p + 1 + e
      <4>1. q - p - 1 \in Nat /\ q = p + 1 + (q - p - 1)
        OBVIOUS
      <4> QED
        BY <4>1
    <3>2. q * w = p * w + w + e * w
      BY <3>1
    <3>3. p * w \in Nat /\ e * w \in Nat
      OBVIOUS
    <3> QED
      BY <1>1, <3>2, <3>3
  <2>2. ~(q < p)
    <3> SUFFICES ASSUME q < p PROVE FALSE
      OBVIOUS
    <3>1. PICK e \in Nat : p = q + 1 + e
      <4>1. p - q - 1 \in Nat /\ p = q + 1 + (p - q - 1)
        OBVIOUS
      <4> QED
        BY <4>1
    <3>2. p * w = q * w + w + e * w
      BY <3>1
    <3>3. q * w \in Nat /\ e * w \in Nat
      OBVIOUS
    <3> QED
      BY <1>1, <3>2, <3>3
  <2> QED
    BY <2>1, <2>2
<1>3. p * w \in Nat /\ p * w = q * w
  BY <1>2
<1> QED
  BY <1>1, <1>3

\* v is printed of m and n is left, in a word of w values, of which t begin with
\* a given digit: taking the first digit off.
Leaves(v, n, m, w, t, h) == w = t * h /\ n \in 0..w - 1 /\ v * w + n = m
Shifts(d, x, n, w, t, h) == d = n \div t /\ x = (n * h) % w
Takes(d, x, v, m, w, h)  == d \in 0..h - 1 /\ x \in 0..w - 1 /\ (v * h + d) * w + x = m * h

LEMMA FirstDigit ==
  ASSUME NEW t \in Nat \ {0}, NEW h \in Nat \ {0}, NEW w \in Nat, NEW n \in Nat,
         NEW v \in Nat, NEW m \in Nat, Leaves(v, n, m, w, t, h),
         NEW digit, NEW rest, Shifts(digit, rest, n, w, t, h)
  PROVE  Takes(digit, rest, v, m, w, h)
<1>0. w = t * h /\ n \in 0..w - 1 /\ v * w + n = m
  BY DEF Leaves
<1>1. PICK d \in Nat, x \in 0..t - 1 : d = n \div t /\ n = d * t + x
  BY Divided
<1>2. d < h
  <2> SUFFICES ASSUME h <= d PROVE FALSE
    OBVIOUS
  <2>1. h * t <= d * t
    OBVIOUS
  <2>2. d * t \in Nat /\ h * t = w
    BY <1>0
  <2> QED
    BY <1>0, <1>1, <2>1, <2>2
<1>3. x * h \in 0..w - 1
  <2>1. x + 1 <= t
    OBVIOUS
  <2>2. (x + 1) * h <= t * h
    BY <2>1
  <2>3. (x + 1) * h = x * h + h /\ x * h \in Nat
    OBVIOUS
  <2> QED
    BY <1>0, <2>2, <2>3
<1>4. n * h = d * w + x * h
  <2>1. n * h = (d * t) * h + x * h
    BY <1>1
  <2>2. (d * t) * h = d * (t * h)
    OBVIOUS
  <2> QED
    BY <1>0, <2>1, <2>2
<1>5. (n * h) % w = x * h
  <2>1. PICK a \in Nat, y \in 0..w - 1 : a = n * h /\ y = x * h
    BY <1>3
  <2>2. a = d * w + y
    BY <1>4, <2>1
  <2>3. w \in Nat \ {0}
    BY <1>0
  <2>4. a % w = y
    BY <2>2, <2>3, RemainderIs
  <2> QED
    BY <2>1, <2>4
<1>6. (v * h + d) * w + x * h = m * h
  <2>1. (v * h + d) * w = (v * w) * h + d * w
    OBVIOUS
  <2>2. m * h = (v * w) * h + n * h
    BY <1>0
  <2> QED
    BY <1>4, <2>1, <2>2
<1>7. digit = d /\ rest = x * h /\ d \in 0..h - 1
  BY <1>1, <1>2, <1>5 DEF Shifts
<1> QED
  BY <1>3, <1>6, <1>7 DEF Takes

-----------------------------------------------------------------------------
(* tty_printint and tty_printhex *)

\* q[k] is what k divisions leave of the number, ds[k] the digit the k-th gives.
Quotients(q, ds, n) ==
  /\ q \in [0..n -> Nat]
  /\ \A k \in 1..n : q[k - 1] = q[k] * Radix + ds[k]

\* Dividing, i goes up and q[i] is left of the number; printing, i comes down and
\* q[i] has been printed.
PrintintLoop ==
  /\ call.num \in Nums /\ s \in Seq(Nat) /\ out \in Seq(Nat) /\ Len(s) <= BufferSize
  /\ call.num = 0 => i = 0 /\ num = 0 /\ out = IF done THEN <<0>> ELSE <<>>
  /\ call.num > 0 =>
       /\ num \in Nat /\ num < Power(Radix, BufferSize - Len(s)) /\ i <= Len(s)
       /\ \E q : /\ Quotients(q, s, Len(s)) /\ q[0] = call.num
                 /\ q[i] = num + Value(out, Radix)
       /\ out = <<>> => i = Len(s)
       /\ out # <<>> => num = 0 /\ out[1] # 0
       /\ num = 0 => s # <<>> /\ s[Len(s)] # 0
       /\ done => num = 0 /\ i = 0

\* What is printed and what is left are the number, shifted.
PrinthexLoop ==
  /\ call.num \in Nums /\ out \in Seq(Nat)
  /\ call.num = 0 => i = 0 /\ out = IF done THEN <<0>> ELSE <<>>
  /\ call.num > 0 =>
       /\ i = Len(out) /\ i <= HexDigits /\ num \in Nums
       /\ Value(out, HexRadix) * Power(HexRadix, HexDigits) + num
            = call.num * Power(HexRadix, i)
       /\ done => i = HexDigits

Prints ==
  /\ call.fn = "tty_printint" => PrintintLoop
  /\ call.fn = "tty_printhex" => PrinthexLoop
  /\ call.fn # "tty_printint" => s = <<>>

LEMMA Words ==
  /\ Power(HexRadix, HexDigits) \in Nat /\ Power(HexRadix, HexDigits - 1) \in Nat
  /\ Power(HexRadix, HexDigits) = Power(HexRadix, HexDigits - 1) * HexRadix
  /\ Nums \subseteq Nat
<1>1. PICK h \in Nat, d \in Nat : h = HexRadix /\ d + 1 = HexDigits /\ d = HexDigits - 1
  <2>1. HexRadix \in Nat /\ HexDigits - 1 \in Nat /\ (HexDigits - 1) + 1 = HexDigits
    BY LibcConstants
  <2> QED
    BY <2>1
<1>2. Power(h, d) \in Nat /\ Power(h, d + 1) = Power(h, d) * h
  BY PowerNext
<1>3. Power(h, d) * h \in Nat
  BY <1>2
<1> QED
  BY <1>1, <1>2, <1>3 DEF Nums

LEMMA Argument ==
  ASSUME PrintintLoop \/ PrinthexLoop
  PROVE  call.num \in Nums /\ call.num \in Nat /\ (call.num # 0 => call.num > 0)
<1>1. call.num \in Nums
  BY DEF PrintintLoop, PrinthexLoop
<1>2. PICK c \in Nat : c = call.num
  BY <1>1, Words
<1>3. c # 0 => c > 0
  OBVIOUS
<1> QED
  BY <1>1, <1>2, <1>3

LEMMA InitPrints == Init => Prints
BY DEF Init, None, Prints

LEMMA CallPrints == ASSUME IInv, Prints, Call PROVE Prints'
<1>1. call.fn = "none" /\ out = <<>> /\ ~done /\ s = <<>>
  <2>1. call = None
    BY DEF Call
  <2>2. call.fn = "none"
    BY <2>1 DEF None
  <2> QED
    BY <2>2 DEF IInv, Idle, Prints
<1>2. UNCHANGED <<done, s, out>>
  BY DEF Call
<1>3. PICK c \in MemCalls \cup StrCalls \cup (IF \A k \in Addr : mem[k] = 0 THEN PrintCalls ELSE {}) :
        /\ call' = c
        /\ i' = IF c.fn = "memmove" /\ c.dest >= c.src THEN c.n ELSE 0
        /\ num' = IF c.fn \in {"tty_printint", "tty_printhex"} THEN c.num ELSE 0
  BY DEF Call
<1>4. c.fn \in {"tty_printint", "tty_printhex"} => c.num \in Nums
  <2>1. c \in MemCalls \cup StrCalls => c.fn \notin {"tty_printint", "tty_printhex"}
    BY DEF MemCalls, StrCalls, Regions
  <2>2. c \in PrintCalls /\ c.fn \in {"tty_printint", "tty_printhex"} => c.num \in Nums
    BY DEF PrintCalls
  <2>3. c \in MemCalls \cup StrCalls \/ c \in PrintCalls
    BY <1>3
  <2> QED
    BY <2>1, <2>2, <2>3
<1>5. PICK nil \in Seq(Nat) : nil = <<>> /\ Len(nil) = 0
  <2>1. <<>> \in Seq(Nat) /\ Len(<<>>) = 0
    OBVIOUS
  <2> QED
    BY <2>1
<1>6. s' = nil /\ out' = nil /\ ~done'
  BY <1>1, <1>2, <1>5
<1>7. ASSUME c.fn = "tty_printint" PROVE PrintintLoop'
  <2>1. PICK n \in Nat : n = call'.num /\ n = num' /\ n \in Nums
    BY <1>3, <1>4, <1>7, Words
  <2>2. i' = 0
    BY <1>3, <1>7
  <2>3. BufferSize \in Nat /\ BufferSize - 0 = BufferSize /\ n < Power(Radix, BufferSize)
    <3>1. PICK r \in Nat, b \in Nat : r = Radix /\ b = BufferSize
      BY LibcConstants
    <3>2. Power(r, b) \in Nat
      BY PowerNext
    <3>3. n < Power(HexRadix, HexDigits)
      BY <2>1, Words DEF Nums
    <3> QED
      BY <3>1, <3>2, <3>3, Words, LibcConstants
  <2>4. n = 0 => PrintintLoop'
    BY <1>5, <1>6, <2>1, <2>2, <2>3 DEF PrintintLoop
  <2>5. ASSUME n > 0 PROVE PrintintLoop'
    <3>1. PICK q : q = [k \in 0..0 |-> n]
      OBVIOUS
    <3>2. Quotients(q, nil, 0) /\ q[0] = n
      BY <3>1 DEF Quotients
    <3>3. Value(nil, Radix) = 0 /\ n + 0 = n
      BY <1>5, ValueEmpty
    <3> QED
      BY <1>5, <1>6, <2>1, <2>2, <2>3, <2>5, <3>2, <3>3 DEF PrintintLoop
  <2> QED
    BY <2>1, <2>4, <2>5
<1>8. ASSUME c.fn = "tty_printhex" PROVE PrinthexLoop'
  <2>1. PICK n \in Nat : n = call'.num /\ n = num' /\ n \in Nums
    BY <1>3, <1>4, <1>8, Words
  <2>2. i' = 0
    BY <1>3, <1>8
  <2>3. Power(HexRadix, 0) = 1
    BY LibcConstants, PowerZero
  <2>4. Value(nil, HexRadix) = 0
    BY <1>5, ValueEmpty
  <2>5. 0 * Power(HexRadix, HexDigits) + n = n * 1
    BY Words
  <2>6. Value(nil, HexRadix) * Power(HexRadix, HexDigits) + n = n * Power(HexRadix, 0)
    BY <2>3, <2>4, <2>5
  <2>7. 0 <= HexDigits
    BY LibcConstants
  <2> QED
    BY <1>5, <1>6, <2>1, <2>2, <2>6, <2>7 DEF PrinthexLoop
<1> QED
  BY <1>1, <1>2, <1>3, <1>7, <1>8 DEF Prints

LEMMA ReturnedPrints == ASSUME Returned PROVE Prints'
BY DEF Returned, None, Prints

\* A division: a digit more, and a quotient more.
LEMMA DividePrints ==
  ASSUME PrintintLoop, i \in Nat, ~done, num > 0, s' = Append(s, num % Radix), num' = num \div Radix,
         i' = i + 1, UNCHANGED <<call, done, out>>
  PROVE  PrintintLoop'
<1>1. PICK r \in Nat \ {0, 1}, b \in Nat : r = Radix /\ b = BufferSize
  BY LibcConstants
<1>2. PICK ds \in Seq(Nat), n \in Nat : ds = s /\ n = Len(s) /\ n <= b
  BY <1>1 DEF PrintintLoop
<1>3. call.num \in Nums /\ call.num \in Nat /\ call.num > 0
  <2>1. call.num # 0
    BY DEF PrintintLoop
  <2> QED
    BY <2>1, Argument
<1>4. PICK m \in Nat : m = num /\ m > 0 /\ m < Power(r, b - n)
  BY <1>1, <1>2, <1>3 DEF PrintintLoop
<1>5. out = <<>> /\ i = n /\ Value(out, Radix) = 0
  BY <1>2, <1>3, ValueEmpty DEF PrintintLoop
<1>6. PICK e \in Nat, d \in Nat : e = m \div r /\ d = m % r /\ m = e * r + d
  <2>1. m \div r \in Nat /\ m % r \in 0..r - 1 /\ m = (m \div r) * r + (m % r)
    BY Divided
  <2>2. m % r \in Nat
    BY <2>1
  <2> QED
    BY <2>1, <2>2
<1>7. n < b
  <2> SUFFICES ASSUME n = b PROVE FALSE
    BY <1>2
  <2>1. b - n = 0 /\ Power(r, 0) = 1
    BY PowerZero
  <2> QED
    BY <1>4, <2>1
<1>8. e < Power(r, b - (n + 1))
  <2>1. PICK p \in Nat : p = b - (n + 1) /\ p + 1 = b - n
    BY <1>7
  <2>2. Power(r, p) \in Nat /\ Power(r, p + 1) = Power(r, p) * r
    BY PowerNext
  <2>3. PICK v \in Nat : v = Power(r, p) /\ m < v * r
    BY <1>4, <2>1, <2>2
  <2>4. m \div r < v
    BY <2>3, Smaller
  <2> QED
    BY <1>6, <2>1, <2>3, <2>4
<1>9. PICK q : Quotients(q, ds, n) /\ q[0] = call.num /\ q[n] = m + 0
  BY <1>2, <1>3, <1>4, <1>5 DEF PrintintLoop
<1>10. PICK more \in Seq(Nat) : more = Append(ds, d)
  <2>1. Append(ds, d) \in Seq(Nat)
    OBVIOUS
  <2> QED
    BY <2>1
<1>11. Len(more) = n + 1 /\ more[n + 1] = d /\ (\A k \in 1..n : more[k] = ds[k]) /\ more # <<>>
  BY <1>2, <1>10
<1>12. PICK g : g = [k \in 0..n + 1 |-> IF k = n + 1 THEN e ELSE q[k]]
  OBVIOUS
<1>13. g \in [0..n + 1 -> Nat] /\ g[n + 1] = e /\ (\A k \in 0..n : g[k] = q[k])
  <2>1. \A k \in 0..n + 1 : k = n + 1 \/ k \in 0..n
    OBVIOUS
  <2> QED
    BY <1>9, <1>12, <2>1 DEF Quotients
<1>14. Quotients(g, more, n + 1)
  <2>1. ASSUME NEW k \in 1..n + 1 PROVE g[k - 1] = g[k] * Radix + more[k]
    <3>1. CASE k = n + 1
      <4>1. k - 1 = n /\ n \in 0..n /\ m + 0 = m
        BY <3>1
      <4>2. g[k - 1] = m
        BY <1>9, <1>13, <4>1
      <4> QED
        BY <1>1, <1>6, <1>11, <1>13, <3>1, <4>2
    <3>2. CASE k # n + 1
      <4>1. k \in 1..n /\ k \in 0..n /\ k - 1 \in 0..n
        BY <3>2
      <4>2. q[k - 1] = q[k] * Radix + ds[k]
        BY <1>9, <4>1 DEF Quotients
      <4> QED
        BY <1>11, <1>13, <4>1, <4>2
    <3> QED
      BY <3>1, <3>2
  <2> QED
    BY <1>13, <2>1 DEF Quotients
<1>15. s' = more /\ num' = e /\ i' = n + 1
  BY <1>1, <1>2, <1>4, <1>5, <1>6, <1>10
<1>16. g[0] = call.num /\ g[n + 1] = e + 0
  <2>1. 0 \in 0..n /\ e + 0 = e
    OBVIOUS
  <2> QED
    BY <1>9, <1>13, <2>1
<1>17. e = 0 => d # 0
  <2>1. 0 * r = 0
    OBVIOUS
  <2> QED
    BY <1>4, <1>6, <2>1
<1>18. n + 1 <= b /\ n + 1 <= n + 1
  BY <1>7
<1>19. /\ num' \in Nat /\ num' < Power(Radix, BufferSize - Len(s')) /\ i' <= Len(s')
       /\ Quotients(g, s', Len(s')) /\ g[0] = call'.num /\ g[i'] = num' + Value(out', Radix)
  BY <1>1, <1>5, <1>8, <1>11, <1>14, <1>15, <1>16, <1>18
<1>20. /\ out' = <<>> /\ i' = Len(s') /\ ~done' /\ (num' = 0 => s' # <<>> /\ s'[Len(s')] # 0)
  BY <1>5, <1>11, <1>15, <1>17
<1>21. /\ call'.num \in Nums /\ s' \in Seq(Nat) /\ out' \in Seq(Nat)
       /\ Len(s') <= BufferSize /\ call'.num # 0
  <2>1. Len(s') <= BufferSize /\ s' \in Seq(Nat)
    BY <1>1, <1>11, <1>15, <1>18
  <2>2. out' \in Seq(Nat) /\ call'.num \in Nums
    BY <1>3 DEF PrintintLoop
  <2>3. call'.num # 0
    BY <1>3
  <2> QED
    BY <2>1, <2>2, <2>3
<1> QED
  BY <1>19, <1>20, <1>21 DEF PrintintLoop

\* A digit is printed: the last one found first.
LEMMA DigitPrints ==
  ASSUME PrintintLoop, i \in Nat, ~done, num = 0, i > 0, out' = Append(out, s[i]), i' = i - 1,
         UNCHANGED <<call, done, num, s>>
  PROVE  PrintintLoop'
<1>1. PICK r \in Nat : r = Radix
  BY LibcConstants
<1>2. PICK ds \in Seq(Nat), os \in Seq(Nat), n \in Nat : ds = s /\ os = out /\ n = Len(s)
  BY DEF PrintintLoop
<1>3. call.num \in Nums /\ call.num \in Nat /\ call.num > 0 /\ i \in 1..n
  <2>1. call.num # 0
    BY DEF PrintintLoop
  <2>2. call.num \in Nums /\ call.num \in Nat /\ call.num > 0
    BY <2>1, Argument
  <2>3. i <= n
    BY <1>2, <2>2 DEF PrintintLoop
  <2> QED
    BY <2>2, <2>3
<1>4. PICK d \in Nat : d = ds[i]
  BY <1>2, <1>3
<1>5. PICK q : Quotients(q, ds, n) /\ q[0] = call.num /\ q[i] = 0 + Value(os, r)
  BY <1>1, <1>2, <1>3 DEF PrintintLoop
<1>6. Value(os, r) \in Nat /\ Value(Append(os, d), r) = Value(os, r) * r + d
  BY ValueAppend
<1>7. PICK v \in Nat : v = Value(os, r) /\ q[i] = v
  BY <1>5, <1>6
<1>8. q[i - 1] = v * r + d
  BY <1>1, <1>3, <1>4, <1>5, <1>7 DEF Quotients
<1>9. out' = Append(os, d) /\ out' \in Seq(Nat)
  <2>1. Append(os, d) \in Seq(Nat)
    OBVIOUS
  <2> QED
    BY <1>2, <1>4, <2>1
<1>10. PICK w \in Nat : w = Value(out', Radix) /\ q[i'] = w
  <2>1. v * r \in Nat
    OBVIOUS
  <2>2. PICK w \in Nat : w = v * r + d
    <3>1. PICK p \in Nat : p = v * r
      BY <2>1
    <3>2. p + d \in Nat
      OBVIOUS
    <3> QED
      BY <3>1, <3>2
  <2> QED
    BY <1>1, <1>6, <1>7, <1>8, <1>9, <2>2
<1>11. out' # <<>> /\ out'[1] # 0
  <2>1. /\ Append(os, d) # <<>>
        /\ os = <<>> => Append(os, d)[1] = d
        /\ os # <<>> => Append(os, d)[1] = os[1]
    <3>1. PICK m \in Nat : m = Len(os)
      OBVIOUS
    <3>2. PICK more : more = Append(os, d)
      OBVIOUS
    <3>3. Len(more) = m + 1 /\ more[m + 1] = d /\ \A k \in 1..m : more[k] = os[k]
      BY <3>1, <3>2
    <3>4. more # <<>>
      BY <3>2
    <3>5. os = <<>> => m = 0
      BY <3>1
    <3>6. os # <<>> => 1 \in 1..m
      BY <3>1
    <3>7. m = 0 => m + 1 = 1
      OBVIOUS
    <3> QED
      BY <3>2, <3>3, <3>4, <3>5, <3>6, <3>7
  <2>2. os = <<>> => d # 0
    BY <1>2, <1>3, <1>4 DEF PrintintLoop
  <2>3. os # <<>> => os[1] # 0
    BY <1>2, <1>3 DEF PrintintLoop
  <2> QED
    BY <1>9, <2>1, <2>2, <2>3
<1>12. i' <= n
  BY <1>3
<1>13. num' = 0 /\ q[i'] = num' + Value(out', Radix)
  BY <1>10
<1>14. /\ Quotients(q, s', Len(s')) /\ q[0] = call'.num /\ i' <= Len(s')
       /\ call'.num \in Nums /\ call'.num # 0
  <2>1. call'.num = call.num /\ s' = ds /\ Len(ds) = n
    BY <1>2
  <2>2. call.num # 0
    BY <1>3
  <2> QED
    BY <1>3, <1>5, <1>12, <2>1, <2>2
<1>15. /\ num' \in Nat /\ num' < Power(Radix, BufferSize - Len(s')) /\ ~done'
       /\ s' \in Seq(Nat) /\ Len(s') <= BufferSize /\ s' # <<>> /\ s'[Len(s')] # 0
  BY <1>3 DEF PrintintLoop
<1> QED
  BY <1>9, <1>11, <1>13, <1>14, <1>15 DEF PrintintLoop

LEMMA PrintintPrints == ASSUME IInv, Prints, tty_printint PROVE Prints'
<1>1. call.fn = "tty_printint" /\ call' = call /\ PrintintLoop /\ ~done /\ i \in Nat
  BY DEF tty_printint, In, memory, Prints, IInv, Types
<1>2. CASE call.num = 0 /\ Put(0) /\ Return(0) /\ UNCHANGED <<num, s, i>>
  <2>1. out = <<>> /\ call.num = 0 /\ i = 0 /\ num = 0
    BY <1>1, <1>2 DEF PrintintLoop
  <2>2. out' = <<0>> /\ done' /\ <<0>> \in Seq(Nat)
    <3>1. Append(<<>>, 0) = <<0>> /\ <<0>> \in Seq(Nat)
      OBVIOUS
    <3> QED
      BY <1>2, <2>1, <3>1 DEF Put, Return
  <2>3. PrintintLoop'
    BY <1>1, <1>2, <2>1, <2>2 DEF PrintintLoop
  <2> QED
    BY <1>1, <2>3 DEF Prints
<1>3. CASE /\ num > 0 /\ s' = Append(s, num % Radix) /\ num' = num \div Radix /\ i' = i + 1
           /\ Go /\ UNCHANGED out
  <2>1. PrintintLoop'
    BY <1>1, <1>3, DividePrints DEF Go
  <2> QED
    BY <1>1, <2>1 DEF Prints
<1>4. CASE num = 0 /\ i > 0 /\ Put(s[i]) /\ i' = i - 1 /\ Go /\ UNCHANGED <<num, s>>
  <2>1. PrintintLoop'
    BY <1>1, <1>4, DigitPrints DEF Go, Put
  <2> QED
    BY <1>1, <2>1 DEF Prints
<1>5. CASE call.num > 0 /\ num = 0 /\ i = 0 /\ Return(0) /\ UNCHANGED <<num, s, i, out>>
  <2>1. PICK q : Quotients(q, s, Len(s)) /\ q[0] = call.num /\ q[i] = num + Value(out, Radix)
    BY <1>1, <1>5 DEF PrintintLoop
  <2>2. call.num # 0
    BY <1>1, <1>5, Argument
  <2>3. PrintintLoop'
    BY <1>1, <1>5, <2>1, <2>2 DEF PrintintLoop, Return
  <2> QED
    BY <1>1, <2>3 DEF Prints
<1> QED
  BY <1>2, <1>3, <1>4, <1>5 DEF tty_printint

\* The first digit of what is left is printed and shifted out.
LEMMA ShiftPrints ==
  ASSUME PrinthexLoop, i \in Nat, ~done, call.num > 0, i < HexDigits,
         out' = Append(out, num \div Power(HexRadix, HexDigits - 1)),
         num' = (num * HexRadix) % Power(HexRadix, HexDigits),
         i' = i + 1, UNCHANGED <<call, done>>
  PROVE  PrinthexLoop'
<1>1. PICK h \in Nat \ {0}, w \in Nat, t \in Nat :
        h = HexRadix /\ w = Power(HexRadix, HexDigits) /\ t = Power(HexRadix, HexDigits - 1)
  BY Words, LibcConstants
<1>2. PICK m \in Nat, n \in 0..w - 1 : m = call.num /\ n = num
  BY <1>1, Words DEF PrinthexLoop, Nums
<1>3. PICK os \in Seq(Nat) : os = out /\ Len(os) = i
  BY DEF PrinthexLoop
<1>4. w = t * h /\ t # 0
  <2>1. w = t * h /\ 0 * h = 0
    BY <1>1, Words
  <2>2. w # 0
    BY <1>2
  <2> QED
    BY <2>1, <2>2
<1>5. Power(h, i) \in Nat /\ Power(h, i + 1) = Power(h, i) * h
  BY PowerNext
<1>6. PICK p \in Nat : p = Power(h, i)
  BY <1>5
<1>7. PICK d, x : d = n \div t /\ x = (n * h) % w
  OBVIOUS
<1>8. Value(os, h) \in Nat /\ (d \in Nat => Value(Append(os, d), h) = Value(os, h) * h + d)
  <2>1. Value(os, h) \in Nat
    BY ValueAppend
  <2> QED
    BY <2>1, ValueAppend
<1>9. PICK v \in Nat : v = Value(os, h)
  BY <1>8
<1>10. PICK mp \in Nat : mp = m * p /\ v * w + n = mp
  <2>1. m * p \in Nat
    OBVIOUS
  <2>2. v * w + n = m * p
    BY <1>1, <1>2, <1>3, <1>6, <1>9 DEF PrinthexLoop
  <2> QED
    BY <2>1, <2>2
<1>11. d \in 0..h - 1 /\ x \in 0..w - 1 /\ (v * h + d) * w + x = mp * h
  <2>1. t \in Nat \ {0}
    BY <1>4
  <2>2. Leaves(v, n, mp, w, t, h) /\ n \in Nat
    BY <1>4, <1>10 DEF Leaves
  <2>3. Shifts(d, x, n, w, t, h)
    BY <1>7 DEF Shifts
  <2>4. Takes(d, x, v, mp, w, h)
    BY <2>1, <2>2, <2>3, FirstDigit
  <2> QED
    BY <2>4 DEF Takes
<1>12. mp * h = m * (p * h)
  BY <1>10
<1>13. d \in Nat
  BY <1>11
<1>14. out' = Append(os, d) /\ num' = x
  BY <1>1, <1>2, <1>3, <1>7
<1>15. out' \in Seq(Nat) /\ Len(out') = i'
  <2>1. Append(os, d) \in Seq(Nat) /\ Len(Append(os, d)) = i + 1
    BY <1>3, <1>13
  <2> QED
    BY <1>14, <2>1
<1>16. Value(out', HexRadix) * Power(HexRadix, HexDigits) + num' = call'.num * Power(HexRadix, i')
  <2>1. Value(out', HexRadix) = v * h + d
    BY <1>1, <1>8, <1>9, <1>13, <1>14
  <2>2. Power(HexRadix, i') = p * h
    BY <1>1, <1>5, <1>6
  <2>3. (v * h + d) * w + num' = m * (p * h)
    BY <1>11, <1>12, <1>14
  <2> QED
    BY <1>1, <1>2, <2>1, <2>2, <2>3
<1>17. i' <= HexDigits /\ num' \in Nums /\ call'.num # 0
  <2>1. num' \in Nums
    BY <1>1, <1>11, <1>14 DEF Nums
  <2>2. i' <= HexDigits
    BY LibcConstants
  <2>3. call'.num # 0
    BY <1>2
  <2> QED
    BY <2>1, <2>2, <2>3
<1> QED
  BY <1>15, <1>16, <1>17 DEF PrinthexLoop

LEMMA PrinthexPrints == ASSUME IInv, Prints, tty_printhex PROVE Prints'
<1>1. /\ call.fn = "tty_printhex" /\ call' = call /\ PrinthexLoop /\ ~done /\ i \in Nat
      /\ s = <<>> /\ s' = s
  BY DEF tty_printhex, In, memory, Prints, IInv, Types
<1>2. CASE call.num = 0 /\ Put(0) /\ Return(0) /\ UNCHANGED <<num, i>>
  <2>1. out = <<>> /\ i = 0
    BY <1>1, <1>2 DEF PrinthexLoop
  <2>2. out' = <<0>> /\ done' /\ <<0>> \in Seq(Nat)
    <3>1. Append(<<>>, 0) = <<0>> /\ <<0>> \in Seq(Nat)
      OBVIOUS
    <3> QED
      BY <1>2, <2>1, <3>1 DEF Put, Return
  <2>3. PrinthexLoop'
    BY <1>1, <1>2, <2>1, <2>2 DEF PrinthexLoop
  <2> QED
    BY <1>1, <2>3 DEF Prints
<1>3. CASE /\ call.num > 0 /\ i < HexDigits /\ Put(num \div Power(HexRadix, HexDigits - 1))
           /\ num' = (num * HexRadix) % Power(HexRadix, HexDigits) /\ i' = i + 1 /\ Go
  <2>1. PrinthexLoop'
    BY <1>1, <1>3, ShiftPrints DEF Go, Put
  <2> QED
    BY <1>1, <2>1 DEF Prints
<1>4. CASE i = HexDigits /\ Return(0) /\ UNCHANGED <<num, i, out>>
  <2>1. call.num # 0
    BY <1>1, <1>4, LibcConstants DEF PrinthexLoop
  <2>2. PrinthexLoop'
    BY <1>1, <1>4, <2>1 DEF PrinthexLoop, Return
  <2> QED
    BY <1>1, <2>2 DEF Prints
<1> QED
  BY <1>2, <1>3, <1>4 DEF tty_printhex

LEMMA OthersPrints ==
  ASSUME Prints,
         \/ UNCHANGED vars \/ memcpy \/ memmove \/ memset \/ memcmp
         \/ strcmp \/ strlen \/ strcat \/ kprintf
  PROVE  Prints'
<1>1. CASE UNCHANGED vars
  <2>1. UNCHANGED <<call, done, i, num, s, out>>
    BY <1>1 DEF vars, memory, console
  <2>2. PrintintLoop => PrintintLoop'
    <3> SUFFICES ASSUME PrintintLoop PROVE PrintintLoop'
      OBVIOUS
    <3>1. CASE call.num > 0
      <4>1. PICK q : Quotients(q, s, Len(s)) /\ q[0] = call.num /\ q[i] = num + Value(out, Radix)
        BY <3>1 DEF PrintintLoop
      <4> QED
        BY <2>1, <3>1, <4>1 DEF PrintintLoop
    <3>2. CASE ~(call.num > 0)
      BY <2>1, <3>2 DEF PrintintLoop
    <3> QED
      BY <3>1, <3>2
  <2>3. PrinthexLoop => PrinthexLoop'
    BY <2>1 DEF PrinthexLoop
  <2> QED
    BY <2>1, <2>2, <2>3 DEF Prints
<1>2. CASE ~UNCHANGED vars
  <2>1. call' = call /\ s' = s /\ call.fn \notin {"tty_printint", "tty_printhex"}
    BY <1>2 DEF memcpy, memmove, memset, memcmp, strcmp, strlen, strcat, kprintf, In, memory, console
  <2> QED
    BY <2>1 DEF Prints
<1> QED
  BY <1>1, <1>2

LEMMA NextPrints == IInv /\ Prints /\ [Next]_vars => Prints'
BY CallPrints, ReturnedPrints, PrintintPrints, PrinthexPrints, OthersPrints DEF Next, Body

LEMMA FitsBuffer == ASSUME Prints PROVE Len(s) <= BufferSize
<1>1. s = <<>> => Len(s) = 0
  OBVIOUS
<1>2. BufferSize \in Nat
  BY LibcConstants
<1>3. call.fn = "tty_printint" => Len(s) <= BufferSize
  BY DEF Prints, PrintintLoop
<1> QED
  BY <1>1, <1>2, <1>3 DEF Prints

\* Decimal and hexadecimal, in any radix and any width of word: the digits
\* printed denote the number, and tty_printint's array is never overrun.
THEOREM PrintsAll == Spec => []PrintsNumber
<1>1. IInv /\ Prints => PrintsNumber
  <2> SUFFICES ASSUME IInv, Prints PROVE PrintsNumber
    OBVIOUS
  <2>1. Len(s) <= BufferSize
    BY FitsBuffer
  <2>2. Value(<<0>>, Radix) = 0 /\ Value(<<0>>, HexRadix) = 0 /\ Len(<<0>>) = 1
    <3>1. ASSUME NEW r \in Nat PROVE Value(<<0>>, r) = 0
      <4>1. <<>> \in Seq(Nat) /\ 0 \in Nat /\ Append(<<>>, 0) = <<0>>
        OBVIOUS
      <4>2. PICK nil \in Seq(Nat) : nil = <<>>
        BY <4>1
      <4>3. Value(Append(nil, 0), r) = Value(nil, r) * r + 0
        BY <4>1, ValueAppend
      <4>4. Value(nil, r) = 0 /\ 0 * r + 0 = 0
        BY <4>2, ValueEmpty
      <4> QED
        BY <4>1, <4>2, <4>3, <4>4
    <3>2. Radix \in Nat /\ HexRadix \in Nat
      BY LibcConstants
    <3> QED
      BY <3>1, <3>2
  <2>3. ASSUME Over("tty_printint") PROVE Value(out, Radix) = call.num /\ (Len(out) > 1 => out[1] # 0)
    <3>1. PrintintLoop /\ done
      BY <2>3 DEF Over, Prints
    <3>2. CASE call.num = 0
      <4>1. out = <<0>>
        BY <3>1, <3>2 DEF PrintintLoop
      <4> QED
        BY <2>2, <3>2, <4>1
    <3>3. CASE call.num # 0
      <4>1. call.num > 0
        BY <3>1, <3>3, Argument
      <4>2. /\ num = 0 /\ i = 0 /\ (out # <<>> => out[1] # 0) /\ out \in Seq(Nat)
            /\ \E q : q[0] = call.num /\ q[i] = num + Value(out, Radix)
        BY <3>1, <4>1 DEF PrintintLoop
      <4>3. call.num = 0 + Value(out, Radix)
        BY <4>2
      <4>4. Value(out, Radix) \in Nat
        <5>1. PICK os \in Seq(Nat), r \in Nat : os = out /\ r = Radix
          BY <4>2, LibcConstants
        <5>2. Value(os, r) \in Nat
          BY ValueAppend
        <5> QED
          BY <5>1, <5>2
      <4>5. Len(out) > 1 => out # <<>>
        BY <4>2
      <4> QED
        BY <4>2, <4>3, <4>4, <4>5
    <3> QED
      BY <3>2, <3>3
  <2>4. ASSUME Over("tty_printhex")
        PROVE  Value(out, HexRadix) = call.num /\ Len(out) = IF call.num = 0 THEN 1 ELSE HexDigits
    <3>1. PrinthexLoop /\ done
      BY <2>4 DEF Over, Prints
    <3>2. CASE call.num = 0
      <4>1. out = <<0>>
        BY <3>1, <3>2 DEF PrinthexLoop
      <4> QED
        BY <2>2, <3>2, <4>1
    <3>3. CASE call.num # 0
      <4>1. call.num > 0
        BY <3>1, <3>3, Argument
      <4>6. PICK w \in Nat : w = Power(HexRadix, HexDigits)
        BY Words
      <4>2. PICK m \in Nat, n \in 0..w - 1 : m = call.num /\ n = num
        BY <3>1, <4>1, <4>6, Words DEF PrinthexLoop, Nums
      <4>3. PICK v \in Nat : v = Value(out, HexRadix)
        <5>1. PICK os \in Seq(Nat), h \in Nat : os = out /\ h = HexRadix
          BY <3>1, LibcConstants DEF PrinthexLoop
        <5>2. Value(os, h) \in Nat
          BY ValueAppend
        <5> QED
          BY <5>1, <5>2
      <4>4. v * w + n = m * w /\ Len(out) = HexDigits
        BY <3>1, <4>1, <4>6, <4>2, <4>3 DEF PrinthexLoop
      <4>5. v = m
        <5>1. ~(m < v)
          <6> SUFFICES ASSUME m < v PROVE FALSE
            OBVIOUS
          <6>1. (m + 1) * w <= v * w
            BY <4>2
          <6>2. (m + 1) * w = m * w + w /\ m * w \in Nat
            OBVIOUS
          <6> QED
            BY <4>2, <4>4, <6>1, <6>2
        <5>2. ~(v < m)
          <6> SUFFICES ASSUME v < m PROVE FALSE
            OBVIOUS
          <6>1. (v + 1) * w <= m * w
            BY <4>2
          <6>2. (v + 1) * w = v * w + w /\ v * w \in Nat
            OBVIOUS
          <6> QED
            BY <4>2, <4>4, <6>1, <6>2
        <5> QED
          BY <5>1, <5>2
      <4> QED
        BY <3>3, <4>2, <4>3, <4>4, <4>5
    <3> QED
      BY <3>2, <3>3
  <2> QED
    BY <2>1, <2>3, <2>4 DEF PrintsNumber
<1>2. Spec => [](IInv /\ Prints)
  BY InitIInv, NextIInv, InitPrints, NextPrints, PTL DEF Spec
<1> QED
  BY <1>1, <1>2, PTL

-----------------------------------------------------------------------------
(* Types *)

Digits ==
  /\ num \in Nums /\ s \in Seq(0..Radix - 1)
  /\ fmt_flag \in BOOLEAN /\ printed \in Nat /\ ret \in Int

LEMMA PowerPositive == ASSUME NEW b \in Nat \ {0}, NEW n \in Nat PROVE Power(b, n) > 0
<1> DEFINE S == {m \in Nat : Power(b, m) = 0}
<1>1. ASSUME S # {} PROVE FALSE
  <2>1. PICK m \in S : \A h \in S : m <= h
    <3>1. S \in SUBSET Nat
      OBVIOUS
    <3> HIDE DEF S
    <3> QED
      BY <1>1, <3>1, Least
  <2>2. m \in Nat /\ Power(b, m) = 0 /\ m # 0
    BY <2>1, PowerZero
  <2>3. PICK h \in Nat : m = h + 1
    <3>1. m - 1 \in Nat /\ m = (m - 1) + 1
      BY <2>2
    <3> QED
      BY <3>1
  <2>4. PICK p \in Nat : p = Power(b, h) /\ p * b = 0
    <3>1. Power(b, h) \in Nat /\ Power(b, h + 1) = Power(b, h) * b
      BY PowerNext
    <3>2. Power(b, h + 1) = 0
      BY <2>2, <2>3
    <3> QED
      BY <3>1, <3>2
  <2>5. p = 0
    BY <2>4
  <2>6. h \in S /\ ~(m <= h)
    <3>1. Power(b, h) = 0
      BY <2>4, <2>5
    <3>2. ~(m <= h)
      BY <2>3
    <3> QED
      BY <3>1, <3>2
  <2> HIDE DEF S
  <2> QED
    BY <2>1, <2>6
<1>2. Power(b, n) \in Nat
  BY PowerNext
<1> QED
  BY <1>1, <1>2

LEMMA WordNotEmpty == Power(HexRadix, HexDigits) > 0
BY LibcConstants, PowerPositive

\* Both characters compared are inside the memory.
LEMMA DifferenceType ==
  ASSUME IInv, \/ In("memcmp") /\ i < call.n
               \/ In("strcmp")
  PROVE  Difference \in Int
<1>0. mem \in [Addr -> 0..Byte - 1] /\ MemSize \in Nat /\ i \in Nat
  BY LibcConstants DEF IInv, Types
<1>1. call.dest + i \in Addr /\ call.src + i \in Addr
  <2>1. CASE In("memcmp") /\ i < call.n
    <3>1. /\ call.dest \in Nat /\ call.src \in Nat /\ call.n \in Nat
          /\ call.dest + call.n <= MemSize /\ call.src + call.n <= MemSize
      BY <2>1 DEF IInv, Loops, MemcmpLoop, MemArgs, In
    <3>2. PICK d \in Nat, e \in Nat, n \in Nat : d = call.dest /\ e = call.src /\ n = call.n
      BY <3>1
    <3>3. d + n <= MemSize /\ e + n <= MemSize /\ i < n
      BY <2>1, <3>1, <3>2
    <3>4. d + i \in 0..MemSize - 1 /\ e + i \in 0..MemSize - 1
      BY <1>0, <3>3
    <3> QED
      BY <3>2, <3>4 DEF Addr
  <2>2. CASE In("strcmp")
    <3>1. StrcmpLoop
      BY <2>2 DEF IInv, Loops, In
    <3>2. /\ call.dest \in Addr /\ call.src \in Addr
          /\ i <= Length(before, call.dest) /\ i <= Length(before, call.src)
      BY <3>1 DEF StrcmpLoop, StrArgs
    <3>3. /\ FirstZero(before, call.dest, Length(before, call.dest))
          /\ FirstZero(before, call.src, Length(before, call.src))
      BY <3>1, LengthOf DEF StrcmpLoop, StrArgs
    <3>4. PICK m, n : m = Length(before, call.dest) /\ n = Length(before, call.src)
      OBVIOUS
    <3>5. /\ m \in Nat /\ n \in Nat /\ call.dest + m \in Addr /\ call.src + n \in Addr
          /\ i <= m /\ i <= n
      BY <3>2, <3>3, <3>4 DEF FirstZero
    <3>6. PICK d \in Nat, e \in Nat : d = call.dest /\ e = call.src
      BY <1>0, <3>2 DEF Addr
    <3>7. d + m < MemSize /\ e + n < MemSize
      <4>1. d + m \in Addr /\ e + n \in Addr
        BY <3>5, <3>6, Zenon
      <4> QED
        BY <1>0, <4>1 DEF Addr
    <3>8. d + i < MemSize /\ e + i < MemSize
      BY <1>0, <3>5, <3>7
    <3>9. d + i \in Addr /\ e + i \in Addr
      BY <1>0, <3>8 DEF Addr
    <3> QED
      BY <3>6, <3>9
  <2> QED
    BY <2>1, <2>2
<1>2. mem[call.dest + i] \in 0..Byte - 1 /\ mem[call.src + i] \in 0..Byte - 1
  BY <1>0, <1>1
<1> QED
  BY <1>2, CharInjective DEF Difference

LEMMA InitDigits == Init => Digits
<1> SUFFICES ASSUME Init PROVE Digits
  OBVIOUS
<1>1. num = 0 /\ s = <<>> /\ fmt_flag = FALSE /\ printed = 0 /\ ret = 0
  BY DEF Init
<1>2. 0 \in Nums
  BY WordNotEmpty, Words DEF Nums
<1>3. PICK S : S = Seq(0..Radix - 1)
  OBVIOUS
<1>4. s \in S
  <2>1. <<>> \in Seq(0..Radix - 1)
    OBVIOUS
  <2> QED
    BY <1>1, <1>3, <2>1
<1>5. fmt_flag \in BOOLEAN
  BY <1>1, Zenon
<1>6. num \in Nums /\ printed \in Nat /\ ret \in Int
  BY <1>1, <1>2
<1> QED
  BY <1>3, <1>4, <1>5, <1>6 DEF Digits

\* The answers: a pointer, a difference, a length or a count.
LEMMA MemoryDigits ==
  ASSUME IInv, Digits, memcpy \/ memmove \/ memset \/ memcmp \/ strcmp \/ strlen \/ strcat
  PROVE  Digits'
<1>1. UNCHANGED <<num, s, fmt_flag, printed>>
  BY DEF memcpy, memmove, memset, memcmp, strcmp, strlen, strcat, console
<1>2. i \in Nat
  BY DEF IInv, Types
<1>3. CASE memcpy \/ memmove \/ memset
  <2>1. call.dest \in Nat
    BY <1>3 DEF memcpy, memmove, memset, In, IInv, Loops, MemcpyLoop, MemmoveLoop, MemsetLoop, MemArgs
  <2>2. ret' = ret \/ ret' = call.dest
    BY <1>3 DEF memcpy, memmove, memset, Go, Return
  <2> QED
    BY <1>1, <2>1, <2>2 DEF Digits
<1>4. CASE memcmp \/ strcmp
  <2>1. \/ ret' = ret \/ ret' = 0
        \/ ret' = Difference /\ ((In("memcmp") /\ i < call.n) \/ In("strcmp"))
    BY <1>4 DEF memcmp, strcmp, Go, Return
  <2>2. ret' \in Int
    BY <2>1, DifferenceType DEF Digits
  <2> QED
    BY <1>1, <2>2 DEF Digits
<1>5. CASE strlen \/ strcat
  <2>1. strcat => call.dest \in Int
    BY LibcConstants DEF strcat, In, IInv, Loops, StrcatLoop, StrArgs, Addr
  <2>2. ret' = ret \/ ret' = i \/ (strcat /\ ret' = call.dest)
    BY <1>5 DEF strlen, strcat, Go, Return
  <2> QED
    BY <1>1, <1>2, <2>1, <2>2 DEF Digits
<1> QED
  BY <1>3, <1>4, <1>5

LEMMA PrintDigits == ASSUME IInv, Prints, Digits, tty_printint \/ tty_printhex PROVE Digits'
<1>1. UNCHANGED <<fmt_flag, printed>> /\ (ret' = ret \/ ret' = 0)
  BY DEF tty_printint, tty_printhex, Go, Return
<1>2. num' \in Nums /\ s' \in Seq(0..Radix - 1)
  <2>1. CASE UNCHANGED <<num, s>>
    BY <2>1 DEF Digits
  <2>2. ASSUME s' = Append(s, num % Radix), num' = num \div Radix
        PROVE  num' \in Nums /\ s' \in Seq(0..Radix - 1)
    <3>1. PICK r \in Nat \ {0, 1}, n \in Nat : r = Radix /\ n = num
      BY LibcConstants, Words DEF Digits
    <3>2. n \div r \in Nat /\ n % r \in 0..r - 1 /\ n = (n \div r) * r + (n % r)
      BY Divided
    <3>3. PICK q \in Nat, d \in 0..r - 1 : q = n \div r /\ d = n % r /\ n = q * r + d
      BY <3>2
    <3>4. q <= n
      <4>1. q * 1 <= q * r
        OBVIOUS
      <4>2. q * r \in Nat
        OBVIOUS
      <4> QED
        BY <3>3, <4>1, <4>2
    <3>5. num' \in Nums
      <4>1. n < Power(HexRadix, HexDigits)
        BY <3>1, Words DEF Digits, Nums
      <4> QED
        BY <2>2, <3>1, <3>3, <3>4, <4>1, Words DEF Nums
    <3>6. Append(s, d) \in Seq(0..r - 1)
      BY <3>1 DEF Digits
    <3> QED
      BY <2>2, <3>1, <3>3, <3>5, <3>6
  <2>3. ASSUME tty_printhex, num' = (num * HexRadix) % Power(HexRadix, HexDigits), s' = s
        PROVE  num' \in Nums /\ s' \in Seq(0..Radix - 1)
    <3>1. PICK n \in Nat, h \in Nat, w \in Nat :
            n = num /\ h = HexRadix /\ w = Power(HexRadix, HexDigits)
      BY LibcConstants, Words DEF Digits
    <3>2. n * h \in Nat /\ w > 0
      BY <3>1, WordNotEmpty
    <3>3. (n * h) % w \in 0..w - 1
      BY <3>2
    <3> QED
      BY <2>3, <3>1, <3>3 DEF Nums, Digits
  <2>4. \/ UNCHANGED <<num, s>>
        \/ s' = Append(s, num % Radix) /\ num' = num \div Radix
        \/ tty_printhex /\ num' = (num * HexRadix) % Power(HexRadix, HexDigits) /\ s' = s
    BY DEF tty_printint, tty_printhex
  <2> QED
    BY <2>1, <2>2, <2>3, <2>4
<1> QED
  BY <1>1, <1>2 DEF Digits

LEMMA KprintfDigits == ASSUME IInv, Digits, kprintf PROVE Digits'
<1>1. UNCHANGED <<num, s>> /\ (printed' = printed \/ printed' = printed + 1)
  BY DEF kprintf
<1>2. fmt_flag' \in BOOLEAN
  <2>1. fmt_flag' = fmt_flag \/ fmt_flag' = FALSE \/ \E c : fmt_flag' = (c = "%")
    BY Zenon DEF kprintf
  <2> QED
    BY <2>1, Zenon DEF Digits
<1>3. ret' = ret \/ ret' = printed + i
  BY DEF kprintf, Go, Return
<1>4. i \in Nat
  BY DEF IInv, Types
<1> QED
  BY <1>1, <1>2, <1>3, <1>4 DEF Digits

LEMMA NextDigits == IInv /\ Prints /\ Digits /\ [Next]_vars => Digits'
<1> SUFFICES ASSUME IInv, Prints, Digits, [Next]_vars PROVE Digits'
  OBVIOUS
<1>0. 0 \in Nums /\ <<>> \in Seq(0..Radix - 1)
  <2>1. 0 \in Nums
    BY WordNotEmpty, Words DEF Nums
  <2>2. <<>> \in Seq(0..Radix - 1)
    OBVIOUS
  <2> QED
    BY <2>1, <2>2
<1>1. CASE UNCHANGED vars
  BY <1>1 DEF vars, console, Digits
<1>2. CASE Call
  <2>1. UNCHANGED <<s, fmt_flag, printed, ret>>
    BY <1>2 DEF Call
  <2>2. num' \in Nums
    <3>1. PICK c \in MemCalls \cup StrCalls
                     \cup (IF \A k \in Addr : mem[k] = 0 THEN PrintCalls ELSE {}) :
            num' = IF c.fn \in {"tty_printint", "tty_printhex"} THEN c.num ELSE 0
      BY <1>2 DEF Call
    <3>2. c \in MemCalls \cup StrCalls => c.fn \notin {"tty_printint", "tty_printhex"}
      BY DEF MemCalls, StrCalls, Regions
    <3>3. c \in PrintCalls /\ c.fn \in {"tty_printint", "tty_printhex"} => c.num \in Nums
      BY DEF PrintCalls
    <3>4. c \in MemCalls \cup StrCalls \/ c \in PrintCalls
      BY <3>1
    <3> QED
      BY <1>0, <3>1, <3>2, <3>3, <3>4
  <2> QED
    BY <2>1, <2>2 DEF Digits
<1>3. CASE Returned
  <2>1. num' = 0 /\ s' = <<>> /\ fmt_flag' = FALSE /\ printed' = 0 /\ ret' = 0
    BY <1>3 DEF Returned
  <2>2. PICK S : S = Seq(0..Radix - 1)
    OBVIOUS
  <2>3. s' \in S
    BY <1>0, <2>1, <2>2
  <2>4. fmt_flag' \in BOOLEAN
    BY <2>1, Zenon
  <2>5. num' \in Nums /\ printed' \in Nat /\ ret' \in Int
    BY <1>0, <2>1
  <2> QED
    BY <2>2, <2>3, <2>4, <2>5 DEF Digits
<1> QED
  BY <1>1, <1>2, <1>3, MemoryDigits, PrintDigits, KprintfDigits DEF Next, Body

\* Memory, digits and answers keep their types: what tty_printint adds to '0' is
\* a digit, and what is left of a number is a word.
THEOREM TypeCorrect == Spec => []TypeOK
<1>1. IInv /\ Prints /\ Digits => TypeOK
  <2> SUFFICES ASSUME IInv, Prints, Digits PROVE TypeOK
    OBVIOUS
  <2>1. Len(s) <= BufferSize
    BY FitsBuffer
  <2> QED
    BY <2>1 DEF IInv, Types, Digits, TypeOK
<1>2. Spec => [](IInv /\ Prints /\ Digits)
  BY InitIInv, NextIInv, InitPrints, NextPrints, InitDigits, NextDigits, PTL DEF Spec
<1> QED
  BY <1>1, <1>2, PTL

=============================================================================

--------------------------- MODULE InterruptProofs ---------------------------
(***************************************************************************)
(* Proofs about Interrupt and Descriptors, for every size of a byte, every *)
(* address of the stubs, every set of exceptions and every flags.          *)
(***************************************************************************)
EXTENDS Interrupt, TLAPS

-----------------------------------------------------------------------------
(* Packing of descriptors and gates *)

\* Quotient and remainder are what they are called, and are the only ones.
LEMMA Division ==
  ASSUME NEW h \in Nat \ {0}, NEW n \in Nat
  PROVE  (n \div h) \in Nat /\ (n % h) \in 0..h - 1 /\ n = (n \div h) * h + (n % h)
OBVIOUS

LEMMA Unique ==
  ASSUME NEW h \in Nat \ {0}, NEW n \in Nat, NEW q \in Nat, NEW r \in Nat,
         n = h * q + r, r < h
  PROVE  n \div h = q /\ n % h = r
<1> DEFINE e == n \div h
           m == n % h
<1>0. e \in Nat /\ m \in 0..h - 1 /\ n = e * h + m
  BY Division
<1> HIDE DEF e, m
<1>1. e \in Nat /\ m \in Nat /\ m < h /\ n = h * e + m
  BY <1>0
<1>2. h * e \in Nat /\ h * q \in Nat
  BY <1>1
<1>3. e = q
  <2>1. CASE e < q
    <3>1. e + 1 <= q /\ h * (e + 1) <= h * q /\ h * (e + 1) = h * e + h
      BY <1>1, <2>1
    <3> QED
      BY <1>1, <1>2, <3>1
  <2>2. CASE q < e
    <3>1. q + 1 <= e /\ h * (q + 1) <= h * e /\ h * (q + 1) = h * q + h
      BY <1>1, <2>2
    <3> QED
      BY <1>1, <1>2, <3>1
  <2> QED
    BY <1>1, <2>1, <2>2
<1>4. m = r
  BY <1>1, <1>2, <1>3
<1> QED
  BY <1>3, <1>4 DEF e, m

LEMMA Halves == Half \in Nat /\ Half > 1 /\ Byte * Half \in Nat /\ Byte * Half > 0
<1>1. Byte \in Nat /\ Byte > 1
  BY DescriptorConstants
<1>2. Byte * Byte \in Nat /\ Byte * Byte >= 2 * Byte
  BY <1>1
<1>3. Half \in Nat /\ Half > 1
  BY <1>1, <1>2 DEF Half
<1> HIDE DEF Half
<1>4. Byte * Half \in Nat /\ Byte * Half >= Half
  BY <1>1, <1>3
<1> QED
  BY <1>3, <1>4

\* The two halves of an offset are put together again.
LEMMA TargetIs ==
  ASSUME NEW n \in Nat, n < Half * Half, NEW sel, NEW flags
  PROVE  Target(idt_entry(n, sel, flags)) = n
<1> DEFINE q == n \div Half
           r == n % Half
<1>1. Half \in Nat \ {0}
  BY Halves
<1>0. q \in Nat /\ r \in 0..Half - 1 /\ n = q * Half + r
  BY <1>1, Division
<1>3. Target(idt_entry(n, sel, flags)) = r + (q % Half) * Half
  BY DEF Target, idt_entry
<1> HIDE DEF q, r, Half
<1>2. q \in Nat /\ r \in Nat /\ r < Half /\ n = Half * q + r
  BY <1>0, <1>1
<1>4. q < Half
  <2>1. q >= Half => Half * q >= Half * Half
    BY <1>1, <1>2
  <2>2. Half * q \in Nat /\ Half * Half \in Nat
    BY <1>1, <1>2
  <2> QED
    BY <1>1, <1>2, <2>1, <2>2
<1>5. q % Half = q
  <2>1. q = Half * 0 + q
    BY <1>1, <1>2
  <2> QED
    BY <1>1, <1>2, <1>4, <2>1, Unique
<1>6. q * Half = Half * q /\ Half * q \in Nat
  BY <1>1, <1>2
<1>7. r + Half * q = n
  BY <1>2, <1>6
<1> QED
  BY <1>3, <1>5, <1>6, <1>7

\* So are the three parts of a base.
LEMMA BaseIs ==
  ASSUME NEW n \in Nat, NEW limit, NEW access, NEW flags
  PROVE  Base(gdt_create_entry(limit, n, access, flags)) = n
<1> DEFINE q == n \div Half
           r == n % Half
           e == q \div Byte
           m == q % Byte
<1>1. Half \in Nat \ {0} /\ Byte \in Nat \ {0} /\ Byte * Half \in Nat \ {0}
  BY Halves, DescriptorConstants
<1>01. q \in Nat /\ r \in 0..Half - 1 /\ n = q * Half + r
  BY <1>1, Division
<1>02. e \in Nat /\ m \in 0..Byte - 1 /\ q = e * Byte + m
  <2>1. q \in Nat /\ Byte \in Nat \ {0}
    BY <1>01, <1>1
  <2> HIDE DEF q, Half
  <2> QED
    BY <2>1, Division
<1>4. Base(gdt_create_entry(limit, n, access, flags)) = r + m * Half + (n \div (Byte * Half)) * (Byte * Half)
  BY DEF Base, gdt_create_entry
<1> HIDE DEF q, r, e, m, Half
<1>2. q \in Nat /\ r \in Nat /\ r < Half /\ n = Half * q + r
  BY <1>01, <1>1
<1>3. e \in Nat /\ m \in Nat /\ m < Byte /\ q = Byte * e + m
  BY <1>02, <1>1
<1>5. n = (Byte * Half) * e + (m * Half + r)
  <2>1. Half * q = Half * (Byte * e) + Half * m
    BY <1>1, <1>2, <1>3
  <2>2. Half * (Byte * e) = (Byte * Half) * e /\ Half * m = m * Half
    BY <1>1, <1>3
  <2>3. (Byte * Half) * e \in Nat /\ m * Half \in Nat
    BY <1>1, <1>3
  <2> QED
    BY <1>2, <2>1, <2>2, <2>3
<1>6. m * Half + r \in Nat /\ m * Half + r < Byte * Half
  <2>1. m + 1 <= Byte /\ (m + 1) * Half <= Byte * Half /\ (m + 1) * Half = m * Half + Half
    BY <1>1, <1>3
  <2>2. m * Half \in Nat
    BY <1>1, <1>3
  <2> QED
    BY <1>1, <1>2, <2>1, <2>2
<1>7. n \div (Byte * Half) = e
  <2> DEFINE p == Byte * Half
             s == m * Half + r
  <2>1. p \in Nat \ {0} /\ s \in Nat /\ s < p /\ n = p * e + s
    BY <1>1, <1>5, <1>6
  <2> HIDE DEF p, s
  <2>2. n \div p = e
    BY <1>3, <2>1, Unique
  <2> QED
    BY <2>2 DEF p
<1>8. e * (Byte * Half) = (Byte * Half) * e /\ (Byte * Half) * e \in Nat /\ m * Half \in Nat
  BY <1>1, <1>3
<1> QED
  BY <1>2, <1>4, <1>5, <1>7, <1>8

\* The limits of the flat segments and of the task state segment.
LEMMA LimitIs ==
  ASSUME NEW base, NEW access
  PROVE  /\ LET d == gdt_create_entry(FullLimit, base, access, 12)
            IN  Limit(d) = FullLimit /\ Flags(d) = 12
         /\ Limit(gdt_create_entry(TssSize, base, access, 0)) = TssSize
<1>1. Half \in Nat \ {0} /\ Half > 1 /\ TssSize \in Nat /\ TssSize < Half
  BY Halves, DescriptorConstants
<1>2. FullLimit \in Nat /\ FullLimit = Half * 15 + (Half - 1)
  <2> HIDE DEF Half
  <2> QED
    BY <1>1 DEF FullLimit
<1>3. FullLimit \div Half = 15 /\ FullLimit % Half = Half - 1
  <2> HIDE DEF Half, FullLimit
  <2>1. Half - 1 \in Nat /\ Half - 1 < Half
    BY <1>1
  <2> QED
    BY <1>1, <1>2, <2>1, Unique
<1>4. TssSize \div Half = 0 /\ TssSize % Half = TssSize
  <2> HIDE DEF Half
  <2>1. TssSize = Half * 0 + TssSize
    BY <1>1
  <2> QED
    BY <1>1, <2>1, Unique
<1> HIDE DEF Half, FullLimit
<1>5. ((15 % 16) + 16 * (12 % 16)) = 207 /\ 207 % 16 = 15 /\ 207 \div 16 = 12
  OBVIOUS
<1>6. LET d == gdt_create_entry(FullLimit, base, access, 12)
      IN  d.segment_limit_1 = Half - 1 /\ d.limit_and_flags = 207
  BY <1>3, <1>5 DEF gdt_create_entry
<1>7. LET d == gdt_create_entry(TssSize, base, access, 0)
      IN  d.segment_limit_1 = TssSize /\ d.limit_and_flags = 0
  BY <1>4 DEF gdt_create_entry
<1>8. Half - 1 + 15 * Half = FullLimit
  BY <1>1, <1>2
<1> QED
  BY <1>1, <1>5, <1>6, <1>7, <1>8 DEF Limit, Flags

-----------------------------------------------------------------------------
(* The descriptor table and selectors *)

LEMMA Segments ==
  /\ gdt_init[0] = gdt_create_entry(0, 0, 0, 0)
  /\ gdt_init[1] = gdt_create_entry(FullLimit, 0, 154, 12)
  /\ gdt_init[2] = gdt_create_entry(FullLimit, 0, 146, 12)
  /\ gdt_init[3] = gdt_create_entry(TssSize, TssRegion, 137, 0)
  /\ gdt_init[4] = gdt_create_entry(FullLimit, 0, 250, 12)
  /\ gdt_init[5] = gdt_create_entry(FullLimit, 0, 242, 12)
BY DEF gdt_init

LEMMA AccessByte ==
  /\ gdt_init[0].access_byte = 0 /\ gdt_init[1].access_byte = 154
  /\ gdt_init[2].access_byte = 146 /\ gdt_init[3].access_byte = 137
  /\ gdt_init[4].access_byte = 250 /\ gdt_init[5].access_byte = 242
<1>1. ASSUME NEW l, NEW b, NEW a, NEW f PROVE gdt_create_entry(l, b, a, f).access_byte = a
  BY DEF gdt_create_entry
<1> QED
  BY <1>1, Segments

LEMMA Selectors ==
  /\ Entry(GDT_KERNEL_CODE_SEG) = 1 /\ Entry(GDT_KERNEL_DATA_SEG) = 2 /\ Entry(GDT_TSS_SEG) = 3
  /\ Entry(GDT_USER_CODE_SEG) = 4 /\ Entry(GDT_USER_DATA_SEG) = 5
  /\ \A sel \in {GDT_KERNEL_CODE_SEG, GDT_KERNEL_DATA_SEG, GDT_USER_CODE_SEG, GDT_USER_DATA_SEG} :
       InTable(sel) /\ ~NullSel(sel)
  /\ Rpl(GDT_KERNEL_CODE_SEG) = 0 /\ Rpl(GDT_KERNEL_DATA_SEG) = 0
  /\ Rpl(GDT_USER_CODE_SEG) = 3 /\ Rpl(GDT_USER_DATA_SEG) = 3
BY DEF Entry, InTable, NullSel, Bit, Rpl, gdt_size, GDT_KERNEL_CODE_SEG, GDT_KERNEL_DATA_SEG,
       GDT_TSS_SEG, GDT_USER_CODE_SEG, GDT_USER_DATA_SEG

\* What the processor reads in the access bytes.
LEMMA Kinds_ ==
  /\ ~Present(gdt_init[0])
  /\ \A i \in 1..5 : Present(gdt_init[i])
  /\ \A i \in {1, 4} : IsCode(gdt_init[i]) /\ ~IsData(gdt_init[i])
  /\ \A i \in {2, 5} : ~IsCode(gdt_init[i]) /\ IsData(gdt_init[i])
  /\ ~IsCode(gdt_init[3]) /\ IsTss(gdt_init[3])
  /\ Dpl(gdt_init[1]) = 0 /\ Dpl(gdt_init[2]) = 0 /\ Dpl(gdt_init[4]) = 3 /\ Dpl(gdt_init[5]) = 3
<1> DEFINE a(i) == gdt_init[i].access_byte
<1>1. a(0) = 0 /\ a(1) = 154 /\ a(2) = 146 /\ a(3) = 137 /\ a(4) = 250 /\ a(5) = 242
  BY AccessByte
<1>2. \A i \in 1..5 : Bit(a(i), 128)
  <2>1. \A i \in 1..5 : i = 1 \/ i = 2 \/ i = 3 \/ i = 4 \/ i = 5
    OBVIOUS
  <2>2. Bit(154, 128) /\ Bit(146, 128) /\ Bit(137, 128) /\ Bit(250, 128) /\ Bit(242, 128)
    BY DEF Bit
  <2> HIDE DEF a
  <2> QED
    BY <1>1, <2>1, <2>2
<1>3. ~Bit(0, 128) /\ Bit(154, 16) /\ Bit(154, 8) /\ Bit(250, 16) /\ Bit(250, 8)
  BY DEF Bit
<1>4. Bit(146, 16) /\ ~Bit(146, 8) /\ Bit(242, 16) /\ ~Bit(242, 8) /\ ~Bit(137, 16) /\ 137 % 32 = 9
  BY DEF Bit
<1>5. (154 \div 32) % 4 = 0 /\ (146 \div 32) % 4 = 0 /\ (250 \div 32) % 4 = 3 /\ (242 \div 32) % 4 = 3
  OBVIOUS
<1> QED
  BY <1>1, <1>2, <1>3, <1>4, <1>5 DEF Present, IsCode, IsData, IsTss, Dpl

LEMMA Usable == gdt = gdt_init => SelectorsUsable
<1> SUFFICES ASSUME gdt = gdt_init PROVE SelectorsUsable
  OBVIOUS
<1> DEFINE flat(d) == Base(d) = 0 /\ Limit(d) = FullLimit /\ Flags(d) = 12
<1>1. \A i \in {1, 2, 4, 5} : flat(gdt_init[i])
  <2>1. ASSUME NEW a PROVE flat(gdt_create_entry(FullLimit, 0, a, 12))
    BY BaseIs, LimitIs
  <2> HIDE DEF flat
  <2> QED
    BY <2>1, Segments
<1>2. ReturnTarget(gdt_init, GDT_KERNEL_CODE_SEG, 0) /\ ReturnTarget(gdt_init, GDT_USER_CODE_SEG, 0)
  BY Selectors, Kinds_ DEF ReturnTarget
<1>3. /\ IsData(gdt_init[2]) /\ Loadable(gdt_init, GDT_KERNEL_DATA_SEG, 0)
      /\ IsData(gdt_init[5]) /\ Loadable(gdt_init, GDT_USER_DATA_SEG, 3)
  BY Selectors, Kinds_ DEF Loadable
<1>4. LET tss == gdt_init[3] IN
      Present(tss) /\ IsTss(tss) /\ Base(tss) = TssRegion /\ Limit(tss) >= TssSize - 1
  <2>1. TssRegion \in Nat /\ TssSize \in Nat
    BY DescriptorConstants, Halves
  <2>2. Base(gdt_init[3]) = TssRegion /\ Limit(gdt_init[3]) = TssSize
    BY <2>1, Segments, BaseIs, LimitIs
  <2> QED
    BY <2>1, <2>2, Kinds_
<1> QED
  BY <1>1, <1>2, <1>3, <1>4, Selectors, Zenon DEF SelectorsUsable

-----------------------------------------------------------------------------
(* The inductive invariant: what each place in the code knows *)

\* The numbers of the flags with interrupts off, and on.
Disabled == {2 + f : f \in Arithmetic \cup {0}}
Enabled  == {n + IF_ : n \in Disabled}
FlagsIn(w, S) == \E n \in S : w = W("flags", n)

\* A context that computes, in either ring, and any context.
Running(c) == \E n \in Enabled : c = KernelContext(n) \/ c = UserContext(n)
Contexts   == [cpl : {0, 3}, stack : Seq(Words), regs : [Registers -> Words]]

\* What the processor pushes of a context, on what is on the stack it pushes on.
Under(c)  == IF c.cpl = 3 THEN << Sel(GDT_USER_DATA_SEG), W("user_esp", 0) >> ELSE c.stack
Pushed(c) == Under(c) \o <<c.regs.eflags, c.regs.cs, c.regs.eip>>

\* The table interrupt_init builds.
Table == [v \in 0..Vectors - 1 |->
            idt_entry(IF v < LastVector THEN StubAddr + v ELSE OtherAddr,
                      GDT_KERNEL_CODE_SEG, InterruptGate)]
Stubbed(v) == IF v < LastVector THEN StubAddr + v ELSE OtherAddr

\* The registers that popad and pop ds bring back.
General == {"eax", "ecx", "edx", "ebx", "ebp", "esi", "edi", "ds"}

\* Where the stub of a first interrupt or exception left a register of General.
Depth(r) == CASE r = "ds" -> 0 [] r = "edi" -> 1 [] r = "esi" -> 2 [] r = "ebp" -> 3
              [] r = "ebx" -> 5 [] r = "edx" -> 6 [] r = "ecx" -> 7 [] r = "eax" -> 8

\* The stack is a frame of the interrupted context, for vector v.
Frame(v) ==
  LET p == Pushed(interrupted) IN
  /\ Len(stack) = Len(p) + 11
  /\ \A i \in 1..Len(p) : stack[i] = p[i]
  /\ \A r \in General : Top(Depth(r)) = interrupted.regs[r]
  /\ Top(9) = W("int", v)

\* Before the first end of interrupt: line l is in service, unless spurious.
Serving(l) == in_service = Chain(l) \/ (l = 7 /\ in_service = {})

Always ==
  /\ gdt = gdt_init
  /\ boot = "interrupt_init" => at = "code" /\ ~lost /\ ~raised /\ interrupted = KernelContext(2)
  /\ boot # "interrupt_init" => idt = Table
  /\ boot # "interrupt_init" /\ ~lost /\ ~raised => Running(interrupted)
  /\ interrupted \in Contexts /\ FlagsIn(interrupted.regs.eflags, Disabled \cup Enabled)
  /\ at # "code" => cpl = 0
  /\ ~raised => prev_int = -1

AtCode ==
  at = "code" =>
    /\ ~raised
    /\ lost => cpl = 0 /\ FlagsIn(regs.eflags, Disabled)
    /\ ~lost => Here = interrupted /\ in_service = {}

\* A first interrupt or exception has reached the stub.
First(v) ==
  /\ prev_int = -1
  /\ regs.eip = W("at", Stubbed(v))
  /\ stack = Pushed(interrupted) \o (IF v \in WithErrorCode THEN << W("err", v) >> ELSE <<>>)
  /\ \A r \in General : regs[r] = interrupted.regs[r]
  /\ raised => v \in Exceptions
  /\ ~raised => /\ v \in 32..47 /\ (v = 47 <=> lost)
                /\ ~lost => Serving(v - 32)

\* How many words repeated exceptions have left above the interrupted stack.
Above(n, m) ==
  /\ Len(stack) <= Len(interrupted.stack) + m
  /\ prev_int # 13 => Len(stack) <= Len(interrupted.stack) + n

\* A protection fault of the stub itself has reached the stub.
Again ==
  /\ raised /\ prev_int # -1
  /\ regs.eip = W("at", StubAddr + 13)
  /\ Len(stack) >= 4 /\ FlagsIn(Top(3), Disabled \cup Enabled)
  /\ Above(19, 32)

AtStub == at = "stub" => (\E v \in 0..47 : First(v)) \/ Again

AtIsr ==
  at = "isr_handler" =>
    /\ raised /\ Len(stack) >= 14 /\ FlagsIn(Top(13), Disabled \cup Enabled)
    /\ prev_int = -1 => /\ Len(stack) <= Len(interrupted.stack) + 16
                        /\ \E v \in Exceptions : Frame(v) /\ regs.eip = W("at", Stubbed(v))
    /\ prev_int # -1 => Top(9) = W("int", 13) /\ Above(29, 42)

AtIsrPop ==
  at = "isr_pop" =>
    /\ raised /\ prev_int # -1 /\ FlagsIn(regs.eflags, Disabled)
    /\ Len(stack) >= 14 /\ FlagsIn(Top(13), Disabled \cup Enabled)
    /\ Above(16, 29)

AtIsrIret ==
  at = "isr_iret" =>
    /\ raised /\ prev_int # -1 /\ FlagsIn(regs.eflags, Disabled)
    /\ Len(stack) >= 2 /\ FlagsIn(Top(1), Disabled \cup Enabled)
    /\ Above(4, 17)

AtEnd == at \in {"hung", "panic"} => raised /\ Len(stack) <= Len(interrupted.stack) + 42

AtIrq ==
  at \in {"irq_handler", "irq_pop"} =>
    /\ ~raised /\ ~lost /\ boot # "interrupt_init"
    /\ regs.es = Sel(GDT_KERNEL_DATA_SEG)
    /\ \E l \in 0..14 :
         /\ Frame(32 + l)
         /\ at = "irq_handler" => Serving(l) /\ regs.eip = W("at", Stubbed(32 + l))
         /\ at = "irq_pop" => in_service = {}

AtIrqIret ==
  at = "irq_iret" =>
    /\ ~raised /\ ~lost /\ boot # "interrupt_init"
    /\ in_service = {}
    /\ stack = Pushed(interrupted)
    /\ \A r \in General : regs[r] = interrupted.regs[r]
    /\ regs.es = Sel(GDT_KERNEL_DATA_SEG)

AtOther == at = "other_interrupt" => ~raised /\ lost /\ Len(stack) >= 3

IInv ==
  /\ TypeOK /\ Always /\ AtCode /\ AtStub /\ AtIsr /\ AtIsrPop /\ AtIsrIret
  /\ AtEnd /\ AtIrq /\ AtIrqIret /\ AtOther

-----------------------------------------------------------------------------
(* Flags *)

\* Adding the bits that no instruction sets disturbs no other bit.
LEMMA BitsOf ==
  ASSUME NEW f \in Nat, ~Bit(f, 2), ~Bit(f, 8), ~Bit(f, 32), ~Bit(f, 512)
  PROVE  /\ ~Bit(f + 2, 8) /\ ~Bit(f + 2, 32) /\ ~Bit(f + 2, 512)
         /\ ~Bit(f + 2 + 512, 8) /\ ~Bit(f + 2 + 512, 32) /\ Bit(f + 2 + 512, 512)
BY SMTT(60) DEF Bit

LEMMA FlagNumbers ==
  /\ \A n \in Disabled : n \in Nat /\ ~Bit(n, 8) /\ ~Bit(n, 32) /\ ~Bit(n, IF_) /\ n + IF_ \in Enabled
  /\ \A n \in Enabled : n \in Nat /\ ~Bit(n, 8) /\ ~Bit(n, 32) /\ Bit(n, IF_) /\ n - IF_ \in Disabled
<1>1. ASSUME NEW f \in Arithmetic \cup {0}
      PROVE  f \in Nat /\ ~Bit(f, 2) /\ ~Bit(f, 8) /\ ~Bit(f, 32) /\ ~Bit(f, 512)
  BY InterruptConstants DEF Bit
<1>2. ASSUME NEW n \in Disabled
      PROVE  /\ n \in Nat /\ ~Bit(n, 8) /\ ~Bit(n, 32) /\ ~Bit(n, IF_)
             /\ ~Bit(n + IF_, 8) /\ ~Bit(n + IF_, 32) /\ Bit(n + IF_, IF_)
  <2>1. PICK f \in Arithmetic \cup {0} : n = 2 + f
    BY DEF Disabled
  <2>2. n \in Nat /\ n = f + 2 /\ n + 512 = f + 2 + 512
    BY <1>1, <2>1
  <2> QED
    BY <1>1, <2>2, BitsOf DEF IF_
<1>3. ASSUME NEW n \in Enabled
      PROVE  \E m \in Disabled : n = m + IF_ /\ n - IF_ = m /\ n \in Nat
  BY <1>2 DEF Enabled, IF_
<1> QED
  BY <1>2, <1>3 DEF Enabled

\* No flags are the selector of code to return to.
LEMMA NoReturn ==
  ASSUME NEW n \in Disabled \cup Enabled
  PROVE  ~ReturnTarget(gdt_init, n, 0)
<1> SUFFICES ASSUME ReturnTarget(gdt_init, n, 0) PROVE FALSE
  OBVIOUS
<1>1. n \in Nat /\ ~Bit(n, 8) /\ ~Bit(n, 32)
  BY FlagNumbers
<1>2. (n \div 8) * 8 + 7 <= 48 /\ IsCode(gdt_init[n \div 8])
  BY DEF ReturnTarget, InTable, Entry, gdt_size
<1>3. n \div 8 \in 0..5
  BY <1>1, <1>2
<1>4. n \div 8 # 1
  BY <1>1 DEF Bit
<1>5. n \div 8 # 4
  <2>1. n \div 8 = 4 => n \div 32 = 1
    BY <1>1
  <2> QED
    BY <1>1, <2>1 DEF Bit
<1>6. ~IsCode(gdt_init[0])
  BY AccessByte DEF IsCode, Bit
<1> QED
  BY <1>2, <1>3, <1>4, <1>5, <1>6, Kinds_

-----------------------------------------------------------------------------
(* Gates *)

LEMMA GateIs ==
  ASSUME NEW v \in 0..47, NEW r, idt = Table
  PROVE  Target(idt[v]) = Stubbed(v) /\ idt[v].selector = GDT_KERNEL_CODE_SEG
<1>1. v \in 0..Vectors - 1
  BY InterruptConstants
<1>2. Stubbed(v) \in Nat /\ Stubbed(v) < Half * Half
  BY InterruptConstants, Halves DEF Stubbed, LastVector
<1>3. idt[v] = idt_entry(Stubbed(v), GDT_KERNEL_CODE_SEG, InterruptGate)
  BY <1>1 DEF Table, Stubbed
<1> HIDE DEF Stubbed
<1>4. Target(idt_entry(Stubbed(v), GDT_KERNEL_CODE_SEG, InterruptGate)) = Stubbed(v)
  BY <1>2, TargetIs
<1> QED
  BY <1>3, <1>4 DEF idt_entry

-----------------------------------------------------------------------------
(* What the stubs save and bring back *)

LEMMA FunctionSeq ==
  ASSUME NEW S, NEW n \in Nat, NEW f \in [1..n -> S]
  PROVE  f \in Seq(S) /\ Len(f) = n
OBVIOUS

LEMMA SeqLen ==
  ASSUME NEW S, NEW s \in Seq(S)
  PROVE  Len(s) \in Nat
OBVIOUS

LEMMA WordFacts ==
  /\ \A k \in Kinds, n \in Nat : W(k, n) \in Words
  /\ \A n \in Nat : Sel(n) \in Words
BY DEF W, Sel, Words, Kinds

LEMMA WordParts ==
  ASSUME NEW w, NEW k, NEW n, w = W(k, n)
  PROVE  w[1] = k /\ w[2] = n
BY DEF W

LEMMA SameFunction ==
  ASSUME NEW S, NEW T, NEW f \in [S -> T], NEW g \in [S -> T], \A x \in S : f[x] = g[x]
  PROVE  f = g
OBVIOUS

LEMMA SameSeq ==
  ASSUME NEW S, NEW f \in Seq(S), NEW g \in Seq(S), Len(f) = Len(g), \A i \in 1..Len(g) : f[i] = g[i]
  PROVE  f = g
OBVIOUS

\* pushad and push ds.
LEMMA SaveRegsIs ==
  ASSUME TypeOK, NEW s \in Seq(Words)
  PROVE  LET t == SaveRegs(s) IN
         /\ t \in Seq(Words) /\ Len(t) = Len(s) + 9
         /\ \A i \in 1..Len(s) : t[i] = s[i]
         /\ \A r \in General : t[Len(t) - Depth(r)] = regs[r]
<1> DEFINE p == [i \in 1..8 |-> IF Pushad[i] = "esp" THEN W("esp", Len(s)) ELSE regs[Pushad[i]]]
           t == SaveRegs(s)
           x == regs.ds
<1>1. \A r \in Registers : regs[r] \in Words
  BY DEF TypeOK
<1>0. Len(s) \in Nat
  BY SeqLen
<1>2. W("esp", Len(s)) \in Words
  BY <1>0, WordFacts DEF Kinds
<1>3. \A i \in 1..8 : Pushad[i] = "esp" \/ Pushad[i] \in Registers
  BY DEF Pushad, Registers
<1>4. \A i \in 1..8 : p[i] \in Words
  BY <1>1, <1>2, <1>3
<1>5. p \in Seq(Words) /\ Len(p) = 8
  <2>1. p \in [1..8 -> Words]
    BY <1>4
  <2>2. 8 \in Nat
    OBVIOUS
  <2> HIDE DEF p
  <2>3. PICK Ws : Ws = Words
    OBVIOUS
  <2>4. p \in [1..8 -> Ws]
    BY <2>1, <2>3
  <2>5. p \in Seq(Ws) /\ Len(p) = 8
    BY <2>2, <2>4, FunctionSeq, ZenonT(40)
  <2> QED
    BY <2>3, <2>5
<1>6. /\ p[1] = regs["eax"] /\ p[2] = regs["ecx"] /\ p[3] = regs["edx"] /\ p[4] = regs["ebx"]
      /\ p[6] = regs["ebp"] /\ p[7] = regs["esi"] /\ p[8] = regs["edi"]
  BY DEF Pushad
<1>7. t = s \o p \o <<x>>
  BY DEF SaveRegs
<1>8. x \in Words /\ x = regs["ds"]
  BY <1>1 DEF Registers
<1> HIDE DEF p, t, x
<1>9. /\ t \in Seq(Words) /\ Len(t) = Len(s) + Len(p) + 1
      /\ \A i \in 1..Len(s) : t[i] = s[i]
      /\ \A i \in 1..Len(p) : t[Len(s) + i] = p[i]
      /\ t[Len(t)] = x
  <2> PICK Ws : Ws = Words
    OBVIOUS
  <2>1. s \in Seq(Ws) /\ p \in Seq(Ws) /\ x \in Ws
    BY <1>5, <1>8
  <2>2. t \in Seq(Ws) /\ Len(t) = Len(s) + Len(p) + 1
    BY <2>1, <1>7
  <2>3. \A i \in 1..Len(s) : t[i] = s[i]
    BY <2>1, <1>7
  <2>4. \A i \in 1..Len(p) : t[Len(s) + i] = p[i]
    BY <2>1, <1>7
  <2>5. t[Len(t)] = x
    BY <2>1, <1>7
  <2> QED
    BY <2>2, <2>3, <2>4, <2>5, Zenon
<1>10. Len(t) = Len(s) + 9 /\ Len(t) \in Nat
  BY <1>0, <1>5, <1>9
<1>13. ASSUME NEW r \in General PROVE t[Len(t) - Depth(r)] = regs[r]
  <2>2. \A k \in 1..8 : t[Len(t) - (9 - k)] = p[k]
    <3>1. ASSUME NEW k \in 1..8 PROVE k \in 1..Len(p) /\ Len(s) + k = Len(t) - (9 - k)
      BY <1>0, <1>5, <1>10
    <3> QED
      BY <1>9, <3>1, Zenon
  <2>3. t[Len(t) - 0] = regs["ds"] /\ t[Len(t) - 1] = p[8] /\ t[Len(t) - 2] = p[7] /\ t[Len(t) - 3] = p[6]
        /\ t[Len(t) - 5] = p[4] /\ t[Len(t) - 6] = p[3] /\ t[Len(t) - 7] = p[2] /\ t[Len(t) - 8] = p[1]
    BY <1>8, <1>9, <1>10, <2>2
  <2> QED
    BY <1>6, <2>3 DEF General, Depth
<1> QED
  BY <1>9, <1>10, <1>13 DEF t

\* The words of a stub.
LEMMA StubIs ==
  ASSUME TypeOK, NEW s \in Seq(Words), NEW v \in Nat
  PROVE  LET t == SaveRegs(s \o Numbered(v)) IN
         /\ t \in Seq(Words) /\ Len(t) = Len(s) + (IF v \in ISR_REG THEN 10 ELSE 11)
         /\ \A i \in 1..Len(s) : t[i] = s[i]
         /\ \A r \in General : t[Len(t) - Depth(r)] = regs[r]
         /\ t[Len(t) - 9] = W("int", v)
<1> DEFINE u == s \o Numbered(v)
           k == IF v \in ISR_REG THEN 1 ELSE 2
           t == SaveRegs(u)
<1>1. W("int", v) \in Words /\ W("err", 0) \in Words
  BY WordFacts DEF Kinds
<1>2. u \in Seq(Words) /\ Len(u) = Len(s) + k /\ u[Len(u)] = W("int", v)
      /\ \A i \in 1..Len(s) : u[i] = s[i]
  <2>1. CASE v \in ISR_REG
    BY <1>1, <2>1 DEF Numbered
  <2>2. CASE v \notin ISR_REG
    BY <1>1, <2>2 DEF Numbered
  <2> QED
    BY <2>1, <2>2
<1> HIDE DEF u
<1>3. /\ t \in Seq(Words) /\ Len(t) = Len(u) + 9
      /\ \A i \in 1..Len(u) : t[i] = u[i]
      /\ \A r \in General : t[Len(t) - Depth(r)] = regs[r]
  BY <1>2, SaveRegsIs
<1> HIDE DEF t
<1>4. t[Len(t) - 9] = W("int", v)
  BY <1>2, <1>3
<1>5. \A i \in 1..Len(s) : t[i] = s[i]
  BY <1>2, <1>3
<1> QED
  BY <1>2, <1>3, <1>4, <1>5 DEF t, u

\* The members of struct idt_registers, counted from the top of the stack.
LEMMA ArgIs ==
  /\ Arg("ds") = Top(0) /\ Arg("edi") = Top(1) /\ Arg("esi") = Top(2) /\ Arg("ebp") = Top(3)
  /\ Arg("ebx") = Top(5) /\ Arg("edx") = Top(6) /\ Arg("ecx") = Top(7) /\ Arg("eax") = Top(8)
  /\ Arg("int_no") = Top(9) /\ Arg("eip") = Top(11) /\ Arg("cs") = Top(12) /\ Arg("eflags") = Top(13)
  /\ Arg("useresp") = Top(14) /\ Arg("ss") = Top(15)
<1> DEFINE at_(f) == CHOOSE i \in 1..16 : idt_registers[i] = f
<1>1. ASSUME NEW f, NEW k \in 1..16, \A i \in 1..16 : idt_registers[i] = f <=> i = k
      PROVE  Arg(f) = Top(k - 1)
  <2>1. at_(f) = k
    BY <1>1
  <2> QED
    BY <2>1 DEF Arg
<1>2. /\ \A i \in 1..16 : idt_registers[i] = "ds" <=> i = 1
      /\ \A i \in 1..16 : idt_registers[i] = "edi" <=> i = 2
      /\ \A i \in 1..16 : idt_registers[i] = "esi" <=> i = 3
      /\ \A i \in 1..16 : idt_registers[i] = "ebp" <=> i = 4
      /\ \A i \in 1..16 : idt_registers[i] = "ebx" <=> i = 6
      /\ \A i \in 1..16 : idt_registers[i] = "edx" <=> i = 7
      /\ \A i \in 1..16 : idt_registers[i] = "ecx" <=> i = 8
      /\ \A i \in 1..16 : idt_registers[i] = "eax" <=> i = 9
  BY DEF idt_registers
<1>3. /\ \A i \in 1..16 : idt_registers[i] = "int_no" <=> i = 10
      /\ \A i \in 1..16 : idt_registers[i] = "eip" <=> i = 12
      /\ \A i \in 1..16 : idt_registers[i] = "cs" <=> i = 13
      /\ \A i \in 1..16 : idt_registers[i] = "eflags" <=> i = 14
      /\ \A i \in 1..16 : idt_registers[i] = "useresp" <=> i = 15
      /\ \A i \in 1..16 : idt_registers[i] = "ss" <=> i = 16
  BY DEF idt_registers
<1>4. Arg("ds") = Top(0) /\ Arg("edi") = Top(1) /\ Arg("esi") = Top(2) /\ Arg("ebp") = Top(3)
  BY <1>1, <1>2
<1>5. Arg("ebx") = Top(5) /\ Arg("edx") = Top(6) /\ Arg("ecx") = Top(7) /\ Arg("eax") = Top(8)
  BY <1>1, <1>2
<1>6. Arg("int_no") = Top(9) /\ Arg("eip") = Top(11) /\ Arg("cs") = Top(12)
  BY <1>1, <1>3
<1>7. Arg("eflags") = Top(13) /\ Arg("useresp") = Top(14) /\ Arg("ss") = Top(15)
  BY <1>1, <1>3
<1> QED
  BY <1>4, <1>5, <1>6, <1>7

\* popad: the register that pushad pushed i-th comes back from the i-th word.
LEMMA PopadIs ==
  ASSUME NEW r \in [Registers -> Words], NEW n \in 1..2
  PROVE  /\ DOMAIN Popad(r, n) = Registers
         /\ \A x \in General \ {"ds"} : Popad(r, n)[x] = Top(n - 1 + Depth(x))
         /\ \A x \in {"ds", "es", "cs", "eip", "eflags"} : Popad(r, n)[x] = r[x]
<1> DEFINE at_(x) == CHOOSE i \in 1..8 : Pushad[i] = x
<1>1. ASSUME NEW x \in Registers, NEW k \in 1..8, \A i \in 1..8 : Pushad[i] = x <=> i = k
      PROVE  Popad(r, n)[x] = Top(n + 8 - k)
  <2>1. at_(x) = k /\ \E i \in 1..8 : Pushad[i] = x
    BY <1>1
  <2> QED
    BY <2>1 DEF Popad
<1>2. /\ \A i \in 1..8 : Pushad[i] = "eax" <=> i = 1
      /\ \A i \in 1..8 : Pushad[i] = "ecx" <=> i = 2
      /\ \A i \in 1..8 : Pushad[i] = "edx" <=> i = 3
      /\ \A i \in 1..8 : Pushad[i] = "ebx" <=> i = 4
      /\ \A i \in 1..8 : Pushad[i] = "ebp" <=> i = 6
      /\ \A i \in 1..8 : Pushad[i] = "esi" <=> i = 7
      /\ \A i \in 1..8 : Pushad[i] = "edi" <=> i = 8
  BY DEF Pushad
<1>3. \A x \in General \ {"ds"} : Popad(r, n)[x] = Top(n - 1 + Depth(x))
  <2> DEFINE v(x) == Popad(r, n)[x]
             T(k) == Top(k)
  <2>1. /\ v("eax") = T(n + 8 - 1) /\ v("ecx") = T(n + 8 - 2) /\ v("edx") = T(n + 8 - 3)
        /\ v("ebx") = T(n + 8 - 4) /\ v("ebp") = T(n + 8 - 6) /\ v("esi") = T(n + 8 - 7)
        /\ v("edi") = T(n + 8 - 8)
    <3>1. /\ \A x \in {"eax", "ecx", "edx", "ebx", "ebp", "esi", "edi"} : x \in Registers
          /\ \A k \in {1, 2, 3, 4, 6, 7, 8} : k \in 1..8
      BY DEF Registers
    <3> HIDE DEF v, T
    <3>2. ASSUME NEW x \in Registers, NEW k \in 1..8, \A i \in 1..8 : Pushad[i] = x <=> i = k
          PROVE  v(x) = T(n + 8 - k)
      BY <1>1, <3>2 DEF v, T
    <3> QED
      BY <1>2, <3>1, <3>2
  <2> HIDE DEF v, T
  <2>2. \A x \in General \ {"ds"} : v(x) = T(n - 1 + Depth(x))
    <3>1. /\ n + 8 - 1 = n - 1 + 8 /\ n + 8 - 2 = n - 1 + 7 /\ n + 8 - 3 = n - 1 + 6
          /\ n + 8 - 4 = n - 1 + 5 /\ n + 8 - 6 = n - 1 + 3 /\ n + 8 - 7 = n - 1 + 2
          /\ n + 8 - 8 = n - 1 + 1
      OBVIOUS
    <3> QED
      BY <2>1, <3>1 DEF General, Depth
  <2> QED
    BY <2>2 DEF v, T
<1>4. \A x \in {"ds", "es", "cs", "eip", "eflags"} : ~\E i \in 1..8 : Pushad[i] = x
  BY DEF Pushad
<1>5. \A x \in {"ds", "es", "cs", "eip", "eflags"} : Popad(r, n)[x] = r[x]
  BY <1>4 DEF Popad, Registers
<1>6. DOMAIN Popad(r, n) = Registers
  BY DEF Popad
<1> QED
  BY <1>3, <1>5, <1>6

LEMMA PopadType ==
  ASSUME NEW r \in [Registers -> Words], NEW n \in 1..2, \A k \in 0..13 : Top(k) \in Words
  PROVE  Popad(r, n) \in [Registers -> Words] /\ Popad(r, n).eflags = r.eflags
<1> DEFINE p == Popad(r, n)
<1>1. /\ DOMAIN p = Registers
      /\ \A x \in General \ {"ds"} : p[x] = Top(n - 1 + Depth(x))
      /\ \A x \in {"ds", "es", "cs", "eip", "eflags"} : p[x] = r[x]
  BY PopadIs
<1>2. p = [x \in Registers |-> p[x]]
  BY DEF Popad
<1> HIDE DEF p
<1>3. \A x \in General \ {"ds"} : n - 1 + Depth(x) \in 0..13
  BY DEF General, Depth
<1>4. \A x \in General \ {"ds"} : p[x] \in Words
  BY <1>1, <1>3
<1>5. \A x \in {"ds", "es", "cs", "eip", "eflags"} : p[x] \in Words
  BY <1>1 DEF Registers
<1>6. \A x \in Registers : p[x] \in Words
  BY <1>4, <1>5 DEF Registers, General
<1>7. p \in [Registers -> Words]
  BY <1>2, <1>6
<1>8. p.eflags = r.eflags
  BY <1>1
<1> QED
  BY <1>7, <1>8 DEF p

LEMMA Popped ==
  ASSUME stack \in Seq(Words), NEW n \in 0..Len(stack)
  PROVE  /\ Pop(n) \in Seq(Words) /\ Len(Pop(n)) = Len(stack) - n
         /\ \A i \in 1..(Len(stack) - n) : Pop(n)[i] = stack[i]
<1> PICK Ws : Ws = Words
  OBVIOUS
<1>1. stack \in Seq(Ws)
  OBVIOUS
<1>2. /\ SubSeq(stack, 1, Len(stack) - n) \in Seq(Ws)
      /\ Len(SubSeq(stack, 1, Len(stack) - n)) = Len(stack) - n
      /\ \A i \in 1..(Len(stack) - n) : SubSeq(stack, 1, Len(stack) - n)[i] = stack[i]
  BY <1>1
<1> QED
  BY <1>2, Zenon DEF Pop

LEMMA TopIn ==
  ASSUME stack \in Seq(Words), NEW n \in Nat, n < Len(stack)
  PROVE  Top(n) \in Words
<1> PICK Ws : Ws = Words
  OBVIOUS
<1>1. stack \in Seq(Ws)
  OBVIOUS
<1>2. stack[Len(stack) - n] \in Ws
  BY <1>1
<1> QED
  BY <1>2 DEF Top

\* What the processor pushes.
LEMMA PushedIs ==
  ASSUME NEW c \in Contexts
  PROVE  /\ Pushed(c) \in Seq(Words) /\ Len(Pushed(c)) \in Nat /\ Len(Pushed(c)) >= 3
         /\ Len(c.stack) \in Nat /\ Len(Pushed(c)) <= Len(c.stack) + 5
         /\ Pushed(c)[Len(Pushed(c))] = c.regs.eip
         /\ Pushed(c)[Len(Pushed(c)) - 1] = c.regs.cs
         /\ Pushed(c)[Len(Pushed(c)) - 2] = c.regs.eflags
         /\ c.cpl = 3 => /\ Len(Pushed(c)) = 5
                         /\ Pushed(c)[2] = W("user_esp", 0) /\ Pushed(c)[1] = Sel(GDT_USER_DATA_SEG)
         /\ c.cpl = 0 => /\ Len(Pushed(c)) = Len(c.stack) + 3
                         /\ \A i \in 1..Len(c.stack) : Pushed(c)[i] = c.stack[i]
<1> DEFINE a == c.regs.eflags
           b == c.regs.cs
           d == c.regs.eip
           s == c.stack
           u == Under(c)
           e == W("user_esp", 0)
           g == Sel(GDT_USER_DATA_SEG)
           p == Pushed(c)
<1>1. a \in Words /\ b \in Words /\ d \in Words /\ s \in Seq(Words) /\ c.cpl \in {0, 3}
  BY DEF Contexts, Registers
<1>2. g \in Words /\ e \in Words
  BY WordFacts DEF GDT_USER_DATA_SEG, Kinds
<1>3. p = u \o <<a, b, d>>
  BY DEF Pushed
<1>4. (c.cpl = 3 => u = <<g, e>>) /\ (c.cpl = 0 => u = s)
  <2>1. c.cpl = 0 => c.cpl # 3
    OBVIOUS
  <2> QED
    BY <2>1, Zenon DEF Under
<1> PICK Ws : Ws = Words
  OBVIOUS
<1> HIDE DEF a, b, d, s, u, e, g, p
<1>5. /\ a \in Ws /\ b \in Ws /\ d \in Ws /\ s \in Seq(Ws) /\ g \in Ws /\ e \in Ws
      /\ Len(s) \in Nat
  BY <1>1, <1>2
<1>6. u \in Seq(Ws) /\ Len(u) \in Nat /\ Len(u) <= Len(s) + 2
  <2>1. <<g, e>> \in Seq(Ws) /\ Len(<<g, e>>) = 2
    BY <1>5
  <2>2. CASE c.cpl = 3
    <3>1. u = <<g, e>>
      BY <1>4, <2>2
    <3> QED
      BY <1>5, <2>1, <3>1
  <2>3. CASE c.cpl = 0
    BY <1>4, <1>5, <2>3
  <2> QED
    BY <1>1, <2>2, <2>3
<1>7. /\ p \in Seq(Ws) /\ Len(p) = Len(u) + 3
      /\ \A i \in 1..Len(u) : p[i] = u[i]
      /\ p[Len(u) + 1] = a /\ p[Len(u) + 2] = b /\ p[Len(u) + 3] = d
  BY <1>3, <1>5, <1>6
<1>8. p[Len(p)] = d /\ p[Len(p) - 1] = b /\ p[Len(p) - 2] = a
  BY <1>6, <1>7
<1>9. ASSUME c.cpl = 3 PROVE Len(p) = 5 /\ p[2] = e /\ p[1] = g
  <2>1. u = <<g, e>>
    BY <1>4, <1>9
  <2>2. Len(u) = 2 /\ u[1] = g /\ u[2] = e
    BY <2>1
  <2> QED
    BY <2>2, <1>7
<1>10. c.cpl = 0 => Len(p) = Len(s) + 3 /\ \A i \in 1..Len(s) : p[i] = s[i]
  BY <1>4, <1>7
<1>11. /\ p \in Seq(Words) /\ Len(p) \in Nat /\ Len(p) >= 3
       /\ Len(s) \in Nat /\ Len(p) <= Len(s) + 5
  BY <1>5, <1>6, <1>7
<1> QED
  BY <1>8, <1>9, <1>10, <1>11 DEF a, b, d, s, e, g, p

\* The registers a gate leaves.
LEMMA GateRegs ==
  ASSUME NEW v \in 0..47, idt = Table, NEW r \in [Registers -> Words],
         FlagsIn(r.eflags, Disabled \cup Enabled)
  PROVE  /\ Gate(v, r) \in [Registers -> Words]
         /\ Gate(v, r).eip = W("at", Stubbed(v))
         /\ \A x \in Registers \ {"cs", "eip", "eflags"} : Gate(v, r)[x] = r[x]
<1> DEFINE c == Sel(idt[v].selector)
           e == W("at", Target(idt[v]))
           f == W("flags", r.eflags[2] - IF Bit(r.eflags[2], IF_) THEN IF_ ELSE 0)
<1>1. e = W("at", Stubbed(v)) /\ c = Sel(GDT_KERNEL_CODE_SEG)
  BY GateIs
<1>2. Stubbed(v) \in Nat
  BY InterruptConstants DEF Stubbed, LastVector
<1>3. PICK n \in Disabled \cup Enabled : r.eflags = W("flags", n)
  BY DEF FlagsIn
<1>4. r.eflags[2] = n /\ n \in Nat /\ (IF Bit(n, IF_) THEN n - IF_ ELSE n - 0) \in Nat
  BY <1>3, FlagNumbers DEF W, IF_
<1>5. f \in Words
  <2>1. (r.eflags[2] - IF Bit(r.eflags[2], IF_) THEN IF_ ELSE 0) \in Nat
    BY <1>4
  <2> QED
    BY <2>1, WordFacts DEF Kinds
<1>6. e \in Words /\ c \in Words
  BY <1>1, <1>2, WordFacts DEF Kinds, GDT_KERNEL_CODE_SEG
<1>7. Gate(v, r) = [r EXCEPT !.cs = c, !.eip = e, !.eflags = f]
  BY DEF Gate
<1> HIDE DEF c, e, f
<1>8. Gate(v, r) \in [Registers -> Words]
  BY <1>5, <1>6, <1>7
<1>9. Gate(v, r).eip = e
  BY <1>7 DEF Registers
<1>10. \A x \in Registers \ {"cs", "eip", "eflags"} : Gate(v, r)[x] = r[x]
  BY <1>7
<1> QED
  BY <1>1, <1>8, <1>9, <1>10

\* The two contexts' registers.
LEMMA KernelIs ==
  ASSUME NEW n \in Nat
  PROVE  LET c == KernelContext(n) IN
         /\ c.cpl = 0 /\ c.stack = Callers /\ c \in Contexts
         /\ c.regs.ds = Sel(GDT_KERNEL_DATA_SEG) /\ c.regs.es = Sel(GDT_KERNEL_DATA_SEG) /\ c.regs.cs = Sel(GDT_KERNEL_CODE_SEG)
         /\ c.regs.eflags = W("flags", n)
<1> DEFINE g == [r \in Registers |->
                   CASE r = "ds" -> Sel(GDT_KERNEL_DATA_SEG) [] r = "es" -> Sel(GDT_KERNEL_DATA_SEG)
                     [] r = "cs" -> Sel(GDT_KERNEL_CODE_SEG) [] r = "eflags" -> W("flags", n)
                     [] OTHER -> W(r, 0)]
<1>1. /\ Sel(GDT_KERNEL_DATA_SEG) \in Words /\ Sel(GDT_KERNEL_DATA_SEG) \in Words
      /\ Sel(GDT_KERNEL_CODE_SEG) \in Words /\ W("flags", n) \in Words
  BY WordFacts DEF Kinds, GDT_KERNEL_DATA_SEG, GDT_KERNEL_CODE_SEG
<1>2. \A r \in Registers \ {"ds", "es", "cs", "eflags"} : W(r, 0) \in Words
  BY WordFacts DEF Kinds, Registers
<1>3. \A r \in Registers : g[r] \in Words
  BY <1>1, <1>2
<1>4. g \in [Registers -> Words]
  BY <1>3
<1>5. /\ g["ds"] = Sel(GDT_KERNEL_DATA_SEG) /\ g["es"] = Sel(GDT_KERNEL_DATA_SEG)
      /\ g["cs"] = Sel(GDT_KERNEL_CODE_SEG) /\ g["eflags"] = W("flags", n)
  BY DEF Registers
<1>6. KernelContext(n) = [cpl |-> 0, stack |-> Callers, regs |-> g]
  BY Zenon DEF KernelContext, Context
<1>7. Callers \in Seq(Words)
  <2>1. W("caller", 1) \in Words /\ W("caller", 2) \in Words /\ W("caller", 3) \in Words
    BY WordFacts DEF Kinds
  <2> QED
    BY <2>1 DEF Callers
<1> HIDE DEF g
<1> QED
  BY <1>4, <1>5, <1>6, <1>7 DEF Contexts

LEMMA UserIs ==
  ASSUME NEW n \in Nat
  PROVE  LET c == UserContext(n) IN
         /\ c.cpl = 3 /\ c.stack = <<>> /\ c \in Contexts
         /\ c.regs.ds = Sel(GDT_USER_DATA_SEG) /\ c.regs.es = Sel(0) /\ c.regs.cs = Sel(GDT_USER_CODE_SEG)
         /\ c.regs.eflags = W("flags", n)
<1> DEFINE g == [r \in Registers |->
                   CASE r = "ds" -> Sel(GDT_USER_DATA_SEG) [] r = "es" -> Sel(0)
                     [] r = "cs" -> Sel(GDT_USER_CODE_SEG) [] r = "eflags" -> W("flags", n)
                     [] OTHER -> W(r, 3)]
<1>1. /\ Sel(GDT_USER_DATA_SEG) \in Words /\ Sel(0) \in Words
      /\ Sel(GDT_USER_CODE_SEG) \in Words /\ W("flags", n) \in Words
  BY WordFacts DEF Kinds, GDT_USER_DATA_SEG, GDT_USER_CODE_SEG
<1>2. \A r \in Registers \ {"ds", "es", "cs", "eflags"} : W(r, 3) \in Words
  BY WordFacts DEF Kinds, Registers
<1>3. \A r \in Registers : g[r] \in Words
  BY <1>1, <1>2
<1>4. g \in [Registers -> Words]
  BY <1>3
<1>5. /\ g["ds"] = Sel(GDT_USER_DATA_SEG) /\ g["es"] = Sel(0)
      /\ g["cs"] = Sel(GDT_USER_CODE_SEG) /\ g["eflags"] = W("flags", n)
  BY DEF Registers
<1>6. PICK nil : nil = <<>>
  OBVIOUS
<1>7. UserContext(n) = [cpl |-> 3, stack |-> nil, regs |-> g]
  BY <1>6, Zenon DEF UserContext, Context
<1>8. nil \in Seq(Words)
  BY <1>6
<1> HIDE DEF g
<1>9. LET c == UserContext(n) IN
      /\ c.cpl = 3 /\ c.stack = nil /\ c \in Contexts
      /\ c.regs.ds = Sel(GDT_USER_DATA_SEG) /\ c.regs.es = Sel(0) /\ c.regs.cs = Sel(GDT_USER_CODE_SEG)
      /\ c.regs.eflags = W("flags", n)
  BY <1>4, <1>5, <1>7, <1>8 DEF Contexts
<1> QED
  BY <1>6, <1>9, Zenon

\* A context that computes has the kernel's segments, or those of ring 3.
LEMMA RunningIs ==
  ASSUME NEW c, Running(c)
  PROVE  /\ c \in Contexts /\ FlagsIn(c.regs.eflags, Enabled)
         /\ c.cpl = 0 => c.regs.cs = Sel(GDT_KERNEL_CODE_SEG) /\ c.regs.es = Sel(GDT_KERNEL_DATA_SEG)
         /\ c.cpl = 3 => /\ c.regs.cs = Sel(GDT_USER_CODE_SEG) /\ c.regs.es = Sel(0)
                         /\ c.regs.ds = Sel(GDT_USER_DATA_SEG) /\ c.stack = <<>>
<1>1. PICK n \in Enabled : c = KernelContext(n) \/ c = UserContext(n)
  BY DEF Running
<1>2. n \in Nat /\ 0 # 3
  BY FlagNumbers
<1>3. CASE c = KernelContext(n)
  <2>1. /\ c.cpl = 0 /\ c \in Contexts /\ c.regs.es = Sel(GDT_KERNEL_DATA_SEG)
        /\ c.regs.cs = Sel(GDT_KERNEL_CODE_SEG) /\ c.regs.eflags = W("flags", n)
    BY <1>2, <1>3, KernelIs
  <2> QED
    BY <2>1, <1>2, Zenon DEF FlagsIn
<1>4. CASE c = UserContext(n)
  <2>1. /\ c.cpl = 3 /\ c \in Contexts /\ c.regs.es = Sel(0) /\ c.regs.ds = Sel(GDT_USER_DATA_SEG)
        /\ c.regs.cs = Sel(GDT_USER_CODE_SEG) /\ c.regs.eflags = W("flags", n) /\ c.stack = <<>>
    BY <1>2, <1>4, UserIs, Zenon
  <2> QED
    BY <2>1, <1>2, Zenon DEF FlagsIn
<1> QED
  BY <1>1, <1>3, <1>4

-----------------------------------------------------------------------------
(* The invariant is inductive *)

LEMMA HereIs == Here.cpl = cpl /\ Here.stack = stack /\ Here.regs = regs
BY DEF Here

LEMMA HereType ==
  ASSUME TypeOK
  PROVE  Here \in Contexts
BY DEF TypeOK, Here, Contexts

\* The context code computes in.
LEMMA CodeFlags ==
  ASSUME IInv, at = "code"
  PROVE  FlagsIn(regs.eflags, Disabled \cup Enabled)
<1>1. CASE lost
  BY <1>1 DEF IInv, AtCode, FlagsIn
<1>2. CASE ~lost
  <2>1. Here = interrupted /\ FlagsIn(interrupted.regs.eflags, Disabled \cup Enabled)
    BY <1>2 DEF IInv, AtCode, Always
  <2> QED
    BY <2>1, HereIs
<1> QED
  BY <1>1, <1>2

LEMMA TwoIs == 2 \in Disabled /\ 2 \in Nat
<1>1. 2 = 2 + 0 /\ 0 \in Arithmetic \cup {0}
  OBVIOUS
<1> QED
  BY <1>1, Zenon DEF Disabled

LEMMA InitInv == Init => IInv
<1> SUFFICES ASSUME Init PROVE IInv
  OBVIOUS
<1> USE DEF Init
<1>1. 2 \in Disabled /\ 2 \in Nat
  BY TwoIs
<1>2. /\ KernelContext(2).cpl = 0 /\ KernelContext(2).stack = Callers /\ KernelContext(2) \in Contexts
      /\ KernelContext(2).regs.eflags = W("flags", 2)
  BY <1>1, KernelIs
<1>3. regs \in [Registers -> Words] /\ stack \in Seq(Words)
  BY <1>2 DEF Contexts
<1>4. TypeOK
  <2>1. lost \in BOOLEAN /\ raised \in BOOLEAN
    BY Zenon
  <2>2. at \in Places /\ cpl \in {0, 3} /\ prev_int \in -1..31 /\ in_service \subseteq Lines
    BY DEF Places
  <2> QED
    BY <1>3, <2>1, <2>2 DEF TypeOK
<1>5. Here = KernelContext(2)
  BY <1>2 DEF Here, Contexts
<1>6. Always
  BY <1>1, <1>2 DEF Always, FlagsIn
<1>7. AtCode
  BY <1>5 DEF AtCode
<1> QED
  BY <1>4, <1>6, <1>7
  DEF IInv, AtStub, AtIsr, AtIsrPop, AtIsrIret, AtEnd, AtIrq, AtIrqIret, AtOther

\* What holds of the other places when a step ends at one.
LEMMA Elsewhere ==
  /\ at' = "code" => (AtStub /\ AtIsr /\ AtIsrPop /\ AtIsrIret /\ AtEnd /\ AtIrq /\ AtIrqIret /\ AtOther)'
  /\ at' = "stub" => (AtCode /\ AtIsr /\ AtIsrPop /\ AtIsrIret /\ AtEnd /\ AtIrq /\ AtIrqIret /\ AtOther)'
  /\ at' = "isr_handler" =>
       (AtCode /\ AtStub /\ AtIsrPop /\ AtIsrIret /\ AtEnd /\ AtIrq /\ AtIrqIret /\ AtOther)'
  /\ at' = "isr_pop" =>
       (AtCode /\ AtStub /\ AtIsr /\ AtIsrIret /\ AtEnd /\ AtIrq /\ AtIrqIret /\ AtOther)'
  /\ at' = "isr_iret" =>
       (AtCode /\ AtStub /\ AtIsr /\ AtIsrPop /\ AtEnd /\ AtIrq /\ AtIrqIret /\ AtOther)'
  /\ at' \in {"hung", "panic"} =>
       (AtCode /\ AtStub /\ AtIsr /\ AtIsrPop /\ AtIsrIret /\ AtIrq /\ AtIrqIret /\ AtOther)'
  /\ at' \in {"irq_handler", "irq_pop"} =>
       (AtCode /\ AtStub /\ AtIsr /\ AtIsrPop /\ AtIsrIret /\ AtEnd /\ AtIrqIret /\ AtOther)'
  /\ at' = "irq_iret" =>
       (AtCode /\ AtStub /\ AtIsr /\ AtIsrPop /\ AtIsrIret /\ AtEnd /\ AtIrq /\ AtOther)'
  /\ at' = "other_interrupt" =>
       (AtCode /\ AtStub /\ AtIsr /\ AtIsrPop /\ AtIsrIret /\ AtEnd /\ AtIrq /\ AtIrqIret)'
BY DEF AtCode, AtStub, AtIsr, AtIsrPop, AtIsrIret, AtEnd, AtIrq, AtIrqIret, AtOther

LEMMA ComputeInv ==
  ASSUME IInv, Compute
  PROVE  IInv'
<1>1. /\ at = "code" /\ at' = "code" /\ ~raised /\ ~raised' /\ IfSet
      /\ UNCHANGED <<boot, gdt, idt, idt_handlers, prev_int, at, in_service, lost, raised>>
  BY DEF Compute
<1>2. PICK f \in Arithmetic : Enter(KernelContext(2 + IF_ + f)) \/ Enter(UserContext(2 + IF_ + f))
  BY DEF Compute
<1> DEFINE n == 2 + IF_ + f
<1>3. n \in Enabled /\ n \in Nat
  <2>1. 2 + f \in Disabled
    BY DEF Disabled
  <2>2. f \in Nat /\ (2 + f) + IF_ = n
    BY InterruptConstants DEF IF_
  <2> QED
    BY <2>1, <2>2, FlagNumbers
<1> HIDE DEF n
<1>4. PICK c : (c = KernelContext(n) \/ c = UserContext(n)) /\ Enter(c)
  BY <1>2 DEF n
<1>5. Running(c)
  BY <1>3, <1>4 DEF Running
<1>6. c \in Contexts /\ FlagsIn(c.regs.eflags, Enabled)
  BY <1>5, RunningIs
<1>7. cpl' = c.cpl /\ stack' = c.stack /\ regs' = c.regs
  BY <1>4 DEF Enter
<1>8. interrupted' = c
  <2>1. interrupted' = [cpl |-> cpl', stack |-> stack', regs |-> regs']
    BY DEF Compute
  <2> QED
    BY <1>6, <1>7, <2>1 DEF Contexts
<1>9. TypeOK'
  BY <1>1, <1>6, <1>7 DEF IInv, TypeOK, Contexts
<1>10. boot # "interrupt_init" /\ ~lost
  <2>1. lost => ~IfSet
    <3>1. \A m \in Disabled : ~Bit(m, IF_)
      BY FlagNumbers
    <3>2. ASSUME lost PROVE ~IfSet
      <4>1. PICK m \in Disabled : regs.eflags = W("flags", m)
        BY <1>1, <3>2 DEF IInv, AtCode, FlagsIn
      <4>2. regs.eflags[2] = m
        BY <4>1 DEF W
      <4> QED
        BY <3>1, <4>2 DEF IfSet
    <3> QED
      BY <3>2
  <2>2. ASSUME boot = "interrupt_init" PROVE FALSE
    <3>1. Here = KernelContext(2) /\ 2 \in Nat
      BY <1>1, <2>2 DEF IInv, Always, AtCode
    <3>2. regs.eflags[2] = 2
      BY <3>1, HereIs, KernelIs DEF W
    <3> QED
      BY <1>1, <3>2 DEF IfSet, Bit, IF_
  <2> QED
    BY <1>1, <2>1, <2>2
<1>11. Always'
  <2>1. FlagsIn(c.regs.eflags, Disabled \cup Enabled)
    BY <1>6 DEF FlagsIn
  <2> QED
    BY <1>1, <1>5, <1>6, <1>8, <1>10, <2>1 DEF IInv, Always
<1>12. AtCode'
  <2>1. Here' = c
    BY <1>6, <1>7 DEF Here, Contexts
  <2>2. in_service' = {}
    BY <1>1, <1>10 DEF IInv, AtCode
  <2> QED
    BY <1>1, <1>8, <1>10, <2>1, <2>2 DEF AtCode
<1> QED
  BY <1>1, <1>9, <1>11, <1>12, Elsewhere DEF IInv

LEMMA SetUpInv ==
  ASSUME IInv, paging_init \/ keyboard_init \/ pic_init
  PROVE  IInv'
<1>1. /\ at = "code" /\ boot # "interrupt_init" /\ boot' # "interrupt_init"
      /\ UNCHANGED <<gdt, idt, prev_int, at, machine, in_service, interrupted, lost, raised>>
  BY DEF paging_init, keyboard_init, pic_init, Boot, Install
<1>2. UNCHANGED <<cpl, regs, stack>>
  BY <1>1 DEF machine
<1>3. TypeOK' /\ Always'
  BY <1>1, <1>2 DEF IInv, TypeOK, Always
<1>4. AtCode'
  BY <1>1, <1>2 DEF IInv, AtCode, Here
<1> QED
  BY <1>1, <1>3, <1>4, Elsewhere DEF IInv

LEMMA InterruptInitInv ==
  ASSUME IInv, interrupt_init
  PROVE  IInv'
<1>1. /\ at = "code" /\ at' = "code" /\ boot = "interrupt_init" /\ boot' = "paging_init"
      /\ in_service' = {} /\ regs' = [regs EXCEPT !.eflags = W("flags", 2 + IF_)]
      /\ interrupted' = [Here EXCEPT !.regs = regs'] /\ idt' = Table
      /\ UNCHANGED <<gdt, prev_int, at, cpl, stack, lost, raised>>
  BY DEF interrupt_init, Boot, Table
<1>2. Here = KernelContext(2) /\ ~lost /\ ~raised
  BY <1>1 DEF IInv, Always, AtCode
<1>3. 2 + IF_ \in Enabled /\ 2 + IF_ \in Nat
  BY TwoIs, FlagNumbers
<1>4. Here' = interrupted'
  BY <1>1 DEF Here
<1>5. interrupted' = KernelContext(2 + IF_)
  <2>1. cpl = 0 /\ stack = Callers /\ regs = KernelContext(2).regs
    BY <1>2, HereIs, KernelIs
  <2>2. regs' = KernelContext(2 + IF_).regs
    BY <1>1, <2>1 DEF KernelContext, Context, Registers
  <2>3. KernelContext(2 + IF_) = [cpl |-> 0, stack |-> Callers, regs |-> KernelContext(2 + IF_).regs]
    BY DEF KernelContext, Context
  <2> QED
    BY <1>1, <1>4, <2>1, <2>2, <2>3 DEF Here
<1>6. Running(interrupted')
  BY <1>3, <1>5 DEF Running
<1>7. interrupted' \in Contexts /\ FlagsIn(interrupted'.regs.eflags, Enabled)
  BY <1>6, RunningIs
<1>8. TypeOK'
  <2>1. regs' = interrupted'.regs
    BY <1>4 DEF Here
  <2> QED
    BY <1>1, <1>7, <2>1 DEF IInv, TypeOK, Contexts
<1>9. Always'
  <2>1. FlagsIn(interrupted'.regs.eflags, Disabled \cup Enabled)
    BY <1>7 DEF FlagsIn
  <2> QED
    BY <1>1, <1>6, <1>7, <2>1 DEF IInv, Always
<1>10. AtCode'
  BY <1>1, <1>2, <1>4 DEF AtCode
<1> QED
  BY <1>1, <1>8, <1>9, <1>10, Elsewhere DEF IInv

\* The processor reaches a stub from code.
LEMMA DeliveredFirst ==
  ASSUME IInv, at = "code", boot # "interrupt_init", NEW v \in 0..47,
         Delivered(v, regs, stack), regs' = Gate(v, regs), interrupted' = Here
  PROVE  /\ at' = "stub" /\ cpl' = 0 /\ stack' \in Seq(Words) /\ regs' \in [Registers -> Words]
         /\ interrupted' \in Contexts /\ FlagsIn(interrupted'.regs.eflags, Disabled \cup Enabled)
         /\ stack' = Pushed(interrupted') \o (IF v \in WithErrorCode THEN << W("err", v) >> ELSE <<>>)
         /\ regs'.eip = W("at", Stubbed(v))
         /\ \A r \in General : regs'[r] = interrupted'.regs[r]
<1>1. TypeOK /\ idt = Table
  BY DEF IInv, Always
<1>2. FlagsIn(regs.eflags, Disabled \cup Enabled)
  BY CodeFlags
<1>3. interrupted' \in Contexts /\ interrupted'.regs = regs
  BY <1>1, HereType, HereIs
<1>4. /\ regs' \in [Registers -> Words] /\ regs'.eip = W("at", Stubbed(v))
      /\ \A x \in Registers \ {"cs", "eip", "eflags"} : regs'[x] = regs[x]
  BY <1>1, <1>2, GateRegs DEF TypeOK
<1>5. at' = "stub" /\ cpl' = 0
  BY DEF Delivered
<1>6. stack' = Pushed(Here) \o (IF v \in WithErrorCode THEN << W("err", v) >> ELSE <<>>)
  BY HereIs, Zenon DEF Delivered, Pushed, Under
<1>7. stack' \in Seq(Words)
  <2>1. PICK p : p = Pushed(Here) /\ p \in Seq(Words)
    BY <1>1, HereType, PushedIs
  <2>2. PICK e : e = W("err", v) /\ e \in Words
    <3>1. v \in Nat /\ "err" \in Kinds
      BY DEF Kinds
    <3>2. W("err", v) \in Words
      BY <3>1, WordFacts
    <3> QED
      BY <3>2, Zenon
  <2>3. PICK Ws : Ws = Words
    OBVIOUS
  <2>4. p \in Seq(Ws) /\ e \in Ws
    BY <2>1, <2>2, <2>3
  <2>5. CASE v \in WithErrorCode
    <3>1. stack' = p \o <<e>>
      BY <1>6, <2>1, <2>2, <2>5, Zenon
    <3>2. p \o <<e>> \in Seq(Ws)
      BY <2>4
    <3> QED
      BY <2>3, <3>1, <3>2, Zenon
  <2>6. CASE v \notin WithErrorCode
    <3>1. stack' = p \o <<>>
      BY <1>6, <2>1, <2>6, Zenon
    <3>2. p \o <<>> \in Seq(Ws)
      BY <2>4
    <3> QED
      BY <2>3, <3>1, <3>2, Zenon
  <2> QED
    BY <2>5, <2>6
<1>8. \A r \in General : regs'[r] = interrupted'.regs[r]
  BY <1>3, <1>4 DEF General, Registers
<1>9. stack' = Pushed(interrupted') \o (IF v \in WithErrorCode THEN << W("err", v) >> ELSE <<>>)
  BY <1>6, Zenon
<1> QED
  BY <1>2, <1>3, <1>4, <1>5, <1>7, <1>8, <1>9

LEMMA RaiseInv ==
  ASSUME IInv, NEW v \in Exceptions, Raise(v)
  PROVE  IInv'
<1>1. /\ at = "code" /\ boot # "interrupt_init" /\ Delivered(v, regs, stack)
      /\ regs' = Gate(v, regs) /\ interrupted' = Here /\ raised' = TRUE
      /\ UNCHANGED <<boot, gdt, idt, idt_handlers, prev_int, in_service, lost>>
  BY DEF Raise
<1>2. v \in 0..47 /\ v \in 0..31
  BY InterruptConstants
<1>3. /\ at' = "stub" /\ cpl' = 0 /\ stack' \in Seq(Words) /\ regs' \in [Registers -> Words]
      /\ interrupted' \in Contexts /\ FlagsIn(interrupted'.regs.eflags, Disabled \cup Enabled)
      /\ stack' = Pushed(interrupted') \o (IF v \in WithErrorCode THEN << W("err", v) >> ELSE <<>>)
      /\ regs'.eip = W("at", Stubbed(v))
      /\ \A r \in General : regs'[r] = interrupted'.regs[r]
  BY <1>1, <1>2, DeliveredFirst
<1>4. prev_int = -1
  BY <1>1 DEF IInv, Always, AtCode
<1>5. TypeOK'
  BY <1>1, <1>3 DEF IInv, TypeOK, Places
<1>6. Always'
  BY <1>1, <1>3 DEF IInv, Always
<1>7. First(v)'
  BY <1>1, <1>3, <1>4, Zenon DEF First
<1>8. AtStub'
  BY <1>2, <1>7, Zenon DEF AtStub
<1> QED
  BY <1>3, <1>5, <1>6, <1>8, Elsewhere DEF IInv

LEMMA IrqInv ==
  ASSUME IInv, NEW l \in Lines, NEW spurious \in BOOLEAN, Irq(l, spurious)
  PROVE  IInv'
<1> DEFINE v == 32 + l
<1>1. /\ at = "code" /\ boot # "interrupt_init" /\ IfSet /\ Delivered(v, regs, stack)
      /\ regs' = Gate(v, regs) /\ interrupted' = Here /\ l # 2
      /\ lost' = (lost \/ l = 15)
      /\ in_service' = in_service \cup (Chain(l) \ (IF spurious THEN {l} ELSE {}))
      /\ spurious => l \in {7, 15}
      /\ UNCHANGED <<boot, gdt, idt, idt_handlers, prev_int, raised>>
  BY DEF Irq
<1>2. v \in 0..47 /\ v \in 32..47 /\ (v = 47 <=> l = 15) /\ v - 32 = l /\ l \in 0..15
  BY DEF Lines
<1>3. /\ at' = "stub" /\ cpl' = 0 /\ stack' \in Seq(Words) /\ regs' \in [Registers -> Words]
      /\ interrupted' \in Contexts /\ FlagsIn(interrupted'.regs.eflags, Disabled \cup Enabled)
      /\ stack' = Pushed(interrupted') \o (IF v \in WithErrorCode THEN << W("err", v) >> ELSE <<>>)
      /\ regs'.eip = W("at", Stubbed(v))
      /\ \A r \in General : regs'[r] = interrupted'.regs[r]
  BY <1>1, <1>2, DeliveredFirst
<1>4. ~raised /\ ~raised' /\ prev_int = -1
  BY <1>1 DEF IInv, Always, AtCode
<1>5. ~lost
  <2>1. ASSUME lost PROVE FALSE
    <3>1. PICK m \in Disabled : regs.eflags = W("flags", m)
      BY <1>1, <2>1 DEF IInv, AtCode, FlagsIn
    <3>2. regs.eflags[2] = m /\ ~Bit(m, IF_)
      BY <3>1, FlagNumbers DEF W
    <3> QED
      BY <1>1, <3>2 DEF IfSet
  <2> QED
    BY <2>1
<1>6. Here = interrupted /\ in_service = {}
  BY <1>1, <1>5 DEF IInv, AtCode
<1>7. Running(interrupted')
  BY <1>1, <1>4, <1>5, <1>6 DEF IInv, Always
<1>8. TypeOK'
  <2>1. in_service' \subseteq Lines
    BY <1>1, <1>2, <1>6 DEF Chain, Lines
  <2>2. lost' \in BOOLEAN
    BY <1>1, Zenon
  <2> QED
    BY <1>1, <1>3, <2>1, <2>2 DEF IInv, TypeOK, Places
<1>9. Always'
  BY <1>1, <1>3, <1>4, <1>7 DEF IInv, Always
<1>10. ASSUME ~lost' PROVE Serving(l)'
  <2>1. l # 15
    BY <1>1, <1>10
  <2>2. CASE spurious
    <3>1. l = 7 /\ Chain(l) = {l}
      BY <1>1, <2>1, <2>2 DEF Chain
    <3> QED
      BY <1>1, <1>6, <2>2, <3>1 DEF Serving
  <2>3. CASE ~spurious
    BY <1>1, <1>6, <2>3 DEF Serving
  <2> QED
    BY <2>2, <2>3
<1>11. First(v)'
  <2>1. v = 47 <=> lost'
    BY <1>1, <1>2, <1>5
  <2>2. ~lost' => Serving(v - 32)'
    BY <1>2, <1>10
  <2> HIDE DEF v
  <2>3. prev_int' = -1
    BY <1>1, <1>4
  <2> QED
    BY <1>2, <1>3, <1>4, <2>1, <2>2, <2>3, Zenon DEF First
<1>12. AtStub'
  BY <1>2, <1>11, Zenon DEF AtStub
<1> QED
  BY <1>3, <1>8, <1>9, <1>12, Elsewhere DEF IInv

\* The stack on which a first stub starts.
LEMMA FirstStack ==
  ASSUME IInv, NEW v \in 0..47, First(v)
  PROVE  LET p == Pushed(interrupted) IN
         /\ Len(stack) = Len(p) + (IF v \in WithErrorCode THEN 1 ELSE 0)
         /\ \A i \in 1..Len(p) : stack[i] = p[i]
<1>1. interrupted \in Contexts
  BY DEF IInv, Always
<1>2. PICK p : p = Pushed(interrupted) /\ p \in Seq(Words)
  BY <1>1, PushedIs
<1>3. PICK e : e = W("err", v) /\ e \in Words
  <2>1. v \in Nat /\ "err" \in Kinds
    BY DEF Kinds
  <2>2. W("err", v) \in Words
    BY <2>1, WordFacts
  <2> QED
    BY <2>2, Zenon
<1>4. PICK Ws : Ws = Words
  OBVIOUS
<1>5. p \in Seq(Ws) /\ e \in Ws
  BY <1>2, <1>3, <1>4
<1>6. CASE v \in WithErrorCode
  <2>1. stack = p \o <<e>>
    BY <1>2, <1>3, <1>6, Zenon DEF First
  <2>2. Len(stack) = Len(p) + 1 /\ \A i \in 1..Len(p) : stack[i] = p[i]
    BY <1>5, <2>1
  <2> QED
    BY <1>2, <1>6, <2>2
<1>7. CASE v \notin WithErrorCode
  <2>1. stack = p \o <<>>
    BY <1>2, <1>7, Zenon DEF First
  <2>2. stack = p
    BY <1>5, <2>1
  <2> QED
    BY <1>2, <1>5, <1>7, <2>2
<1> QED
  BY <1>6, <1>7

LEMMA StubInv ==
  ASSUME IInv, Stub
  PROVE  IInv'
<1>1. /\ at = "stub"
      /\ UNCHANGED <<boot, gdt, idt, idt_handlers, prev_int, cpl, in_service, interrupted, lost, raised>>
  BY DEF Stub
<1>2. /\ TypeOK /\ boot # "interrupt_init" /\ cpl = 0 /\ interrupted \in Contexts
      /\ Always /\ stack \in Seq(Words) /\ regs \in [Registers -> Words] /\ Len(stack) \in Nat
  <2>1. TypeOK /\ boot # "interrupt_init" /\ cpl = 0 /\ interrupted \in Contexts /\ Always
    BY <1>1 DEF IInv, Always
  <2>2. stack \in Seq(Words) /\ regs \in [Registers -> Words]
    BY <2>1 DEF TypeOK
  <2> QED
    BY <2>1, <2>2, SeqLen
<1> DEFINE d == Sel(GDT_KERNEL_DATA_SEG)
<1>3. d \in Words
  BY WordFacts DEF GDT_KERNEL_DATA_SEG
<1>4. ASSUME NEW v \in 0..46, regs.eip = W("at", StubAddr + v)
      PROVE  /\ stack' \in Seq(Words)
             /\ Len(stack') = Len(stack) + (IF v \in ISR_REG THEN 10 ELSE 11)
             /\ \A i \in 1..Len(stack) : stack'[i] = stack[i]
             /\ \A r \in General : Top(Depth(r))' = regs[r]
             /\ Top(9)' = W("int", v)
             /\ regs' \in [Registers -> Words] /\ regs'.eip = regs.eip /\ regs'.es = d
             /\ at' = IF v < 32 THEN "isr_handler" ELSE "irq_handler"
             /\ TypeOK' /\ Always'
  <2>1. regs.eip # W("at", OtherAddr) /\ regs.eip[2] - StubAddr = v /\ v \in Nat
    BY <1>4, InterruptConstants DEF W
  <2>2. /\ stack' = SaveRegs(stack \o Numbered(v))
        /\ regs' = [regs EXCEPT !.ds = d, !.es = d]
        /\ at' = IF v < 32 THEN "isr_handler" ELSE "irq_handler"
    BY <2>1 DEF Stub
  <2>3. /\ stack' \in Seq(Words) /\ Len(stack') = Len(stack) + (IF v \in ISR_REG THEN 10 ELSE 11)
        /\ \A i \in 1..Len(stack) : stack'[i] = stack[i]
        /\ \A r \in General : stack'[Len(stack') - Depth(r)] = regs[r]
        /\ stack'[Len(stack') - 9] = W("int", v)
    <3>1. PICK t : t = SaveRegs(stack \o Numbered(v))
      OBVIOUS
    <3>2. /\ t \in Seq(Words) /\ Len(t) = Len(stack) + (IF v \in ISR_REG THEN 10 ELSE 11)
          /\ \A i \in 1..Len(stack) : t[i] = stack[i]
          /\ \A r \in General : t[Len(t) - Depth(r)] = regs[r]
          /\ t[Len(t) - 9] = W("int", v)
      BY <1>2, <2>1, <3>1, StubIs, ZenonT(40)
    <3> QED
      BY <2>2, <3>1, <3>2, Zenon
  <2> HIDE DEF d
  <2>4. regs' \in [Registers -> Words] /\ regs'.eip = regs.eip /\ regs'.es = d
    BY <1>2, <1>3, <2>2 DEF Registers
  <2>5. at' \in Places
    BY <2>2 DEF Places
  <2>6. TypeOK'
    BY <1>1, <1>2, <2>3, <2>4, <2>5 DEF TypeOK
  <2>7. Always'
    BY <1>1, <1>2 DEF Always
  <2> QED
    BY <2>2, <2>3, <2>4, <2>6, <2>7 DEF Top
<1>5. ASSUME Again PROVE IInv'
  <2>1. PICK v \in 0..46 : v = 13 /\ v < 32 /\ v \in ISR_REG /\ regs.eip = W("at", StubAddr + v)
    <3>1. 13 \in 0..46 /\ 13 < 32 /\ 13 \in ISR_REG
      BY DEF ISR_REG
    <3> QED
      BY <1>5, <3>1, Zenon DEF Again
  <2>2. /\ stack' \in Seq(Words) /\ Len(stack') = Len(stack) + 10
        /\ \A i \in 1..Len(stack) : stack'[i] = stack[i]
        /\ Top(9)' = W("int", 13) /\ at' = "isr_handler" /\ TypeOK' /\ Always'
    <3>1. /\ stack' \in Seq(Words)
          /\ Len(stack') = Len(stack) + (IF v \in ISR_REG THEN 10 ELSE 11)
          /\ \A i \in 1..Len(stack) : stack'[i] = stack[i]
          /\ Top(9)' = W("int", v)
          /\ at' = IF v < 32 THEN "isr_handler" ELSE "irq_handler"
          /\ TypeOK' /\ Always'
      BY <1>4, <2>1
    <3> QED
      BY <2>1, <3>1
  <2>3. /\ raised /\ prev_int # -1 /\ Len(stack) >= 4 /\ FlagsIn(stack[Len(stack) - 3], Disabled \cup Enabled)
        /\ Len(stack) <= Len(interrupted.stack) + 32
        /\ prev_int # 13 => Len(stack) <= Len(interrupted.stack) + 19
    BY <1>5 DEF Again, Top, Above
  <2>4. Len(interrupted.stack) \in Nat
    BY <1>2, PushedIs
  <2>5. Len(stack') - 13 = Len(stack) - 3 /\ Len(stack) - 3 \in 1..Len(stack)
    BY <1>2, <2>2, <2>3
  <2>6. Top(13)' = stack[Len(stack) - 3]
    BY <2>2, <2>5 DEF Top
  <2>7. Above(29, 42)' /\ Len(stack') >= 14
    BY <1>1, <1>2, <2>2, <2>3, <2>4 DEF Above
  <2>8. AtIsr'
    BY <1>1, <2>2, <2>3, <2>6, <2>7 DEF AtIsr
  <2> QED
    BY <2>2, <2>8, Elsewhere DEF IInv
<1>6. ASSUME NEW v \in 0..47, First(v), v # 47 PROVE IInv'
  <2>1. v \in 0..46 /\ regs.eip = W("at", StubAddr + v) /\ Stubbed(v) = StubAddr + v
    BY <1>6 DEF First, Stubbed, LastVector
  <2>2. /\ stack' \in Seq(Words)
        /\ Len(stack') = Len(stack) + (IF v \in ISR_REG THEN 10 ELSE 11)
        /\ \A i \in 1..Len(stack) : stack'[i] = stack[i]
        /\ \A r \in General : Top(Depth(r))' = regs[r]
        /\ Top(9)' = W("int", v)
        /\ regs'.eip = regs.eip /\ regs'.es = d
        /\ at' = IF v < 32 THEN "isr_handler" ELSE "irq_handler"
        /\ TypeOK' /\ Always'
    BY <1>4, <2>1
  <2>3. /\ \A r \in General : regs[r] = interrupted.regs[r]
        /\ prev_int = -1
        /\ raised => v \in Exceptions
        /\ ~raised => v \in 32..47 /\ (v = 47 <=> lost) /\ (~lost => Serving(v - 32))
    BY <1>6 DEF First
  <2>4. PICK p : p = Pushed(interrupted)
    OBVIOUS
  <2>5. /\ Len(p) \in Nat /\ Len(p) >= 3 /\ Len(interrupted.stack) \in Nat
        /\ Len(p) <= Len(interrupted.stack) + 5 /\ p[Len(p) - 2] = interrupted.regs.eflags
    BY <1>2, <2>4, PushedIs
  <2>6. /\ Len(stack) = Len(p) + (IF v \in WithErrorCode THEN 1 ELSE 0)
        /\ \A i \in 1..Len(p) : stack[i] = p[i]
    BY <1>6, <2>4, FirstStack
  <2>7. v \in ISR_REG <=> v \in WithErrorCode
    <3>1. v \in Exceptions \/ v \in 32..47
      BY <2>3
    <3>2. v # 17 /\ v # 21
      BY <3>1, InterruptConstants
    <3>3. v \in WithErrorCode <=> v \in ISR_REG \/ v = 17 \/ v = 21
      BY Zenon DEF ISR_REG, WithErrorCode
    <3> QED
      BY <3>2, <3>3
  <2>8. Len(stack') = Len(p) + 11
    <3>1. CASE v \in ISR_REG
      <4>1. Len(stack') = Len(stack) + 10 /\ Len(stack) = Len(p) + 1
        BY <2>2, <2>6, <2>7, <3>1
      <4> QED
        BY <2>5, <4>1
    <3>2. CASE v \notin ISR_REG
      <4>1. Len(stack') = Len(stack) + 11 /\ Len(stack) = Len(p) + 0
        BY <2>2, <2>6, <2>7, <3>2
      <4> QED
        BY <2>5, <4>1
    <3> QED
      BY <3>1, <3>2
  <2>9. \A i \in 1..Len(p) : stack'[i] = p[i]
    <3>1. Len(p) <= Len(stack)
      BY <2>5, <2>6
    <3>2. \A i \in 1..Len(p) : i \in 1..Len(stack)
      BY <1>2, <2>5, <3>1
    <3> QED
      BY <2>2, <2>6, <3>2
  <2>10. Frame(v)'
    <3>1. \A r \in General : Top(Depth(r))' = interrupted'.regs[r]
      BY <1>1, <2>2, <2>3
    <3>2. Pushed(interrupted)' = p
      BY <1>1, <2>4 DEF Pushed, Under
    <3> QED
      BY <2>2, <2>8, <2>9, <3>1, <3>2 DEF Frame
  <2>11. CASE v < 32
    <3>1. raised /\ at' = "isr_handler" /\ v \in Exceptions
      BY <2>2, <2>3, <2>11
    <3>2. Len(stack') - 13 = Len(p) - 2 /\ Len(p) - 2 \in 1..Len(p) /\ Len(stack') >= 14
      BY <2>5, <2>8
    <3>3. Top(13)' = interrupted.regs.eflags
      BY <2>5, <2>9, <3>2 DEF Top
    <3>4. FlagsIn(Top(13)', Disabled \cup Enabled)
      BY <1>2, <3>3 DEF Always
    <3>5. Len(stack') <= Len(interrupted.stack) + 16
      BY <2>5, <2>8
    <3>6. regs'.eip = W("at", Stubbed(v))
      BY <2>1, <2>2
    <3>7. AtIsr'
      BY <1>1, <2>3, <2>10, <3>1, <3>2, <3>4, <3>5, <3>6 DEF AtIsr
    <3> QED
      BY <2>2, <3>1, <3>7, Elsewhere DEF IInv
  <2>12. CASE ~(v < 32)
    <3>0. v \notin Exceptions
      BY <2>12, InterruptConstants
    <3>1. ~raised /\ ~lost /\ at' = "irq_handler"
      BY <1>6, <2>2, <2>3, <2>12, <3>0
    <3>2. PICK l \in 0..14 : v = 32 + l /\ l = v - 32
      BY <2>1, <2>12
    <3>3. Serving(l)'
      BY <1>1, <2>3, <3>1, <3>2 DEF Serving
    <3>4. regs'.eip = W("at", Stubbed(32 + l))
      BY <2>1, <2>2, <3>2
    <3>5. AtIrq'
      BY <1>1, <1>2, <2>2, <2>10, <3>1, <3>2, <3>3, <3>4 DEF AtIrq
    <3> QED
      BY <2>2, <3>1, <3>5, Elsewhere DEF IInv
  <2> QED
    BY <2>11, <2>12
<1>7. ASSUME First(47) PROVE IInv'
  <2>1. regs.eip = W("at", OtherAddr)
    BY <1>7 DEF First, Stubbed, LastVector
  <2>2. at' = "other_interrupt" /\ UNCHANGED <<stack, regs>>
    BY <2>1 DEF Stub
  <2>3. ~raised /\ lost
    BY <1>7, InterruptConstants DEF First
  <2>4. Len(stack) >= 3
    <3>1. Len(stack) = Len(Pushed(interrupted))
      BY <1>7, FirstStack DEF WithErrorCode
    <3> QED
      BY <1>2, <3>1, PushedIs
  <2>5. AtOther'
    BY <1>1, <2>2, <2>3, <2>4 DEF AtOther
  <2>6. TypeOK' /\ Always'
    BY <1>1, <1>2, <2>2 DEF TypeOK, Always, Places
  <2> QED
    BY <2>2, <2>5, <2>6, Elsewhere DEF IInv
<1> QED
  <2>1. Again \/ \E v \in 0..47 : First(v)
    BY <1>1 DEF IInv, AtStub
  <2> QED
    BY <1>5, <1>6, <1>7, <2>1

LEMMA ScratchIs ==
  ASSUME NEW r \in [Registers -> Words], NEW f \in Arithmetic
  PROVE  /\ Scratch(r, f) \in [Registers -> Words]
         /\ FlagsIn(Scratch(r, f).eflags, Disabled)
         /\ Scratch(r, f).es = r.es /\ Scratch(r, f).eip = r.eip
<1>1. 2 + f \in Disabled /\ 2 + f \in Nat
  BY InterruptConstants DEF Disabled
<1>2. PICK a, w : a = W("any", 0) /\ w = W("flags", 2 + f) /\ a \in Words /\ w \in Words
  <2>1. "any" \in Kinds /\ "flags" \in Kinds /\ 0 \in Nat
    BY DEF Kinds
  <2> QED
    BY <1>1, <2>1, WordFacts, Zenon
<1>3. Scratch(r, f) = [r EXCEPT !.eax = a, !.ecx = a, !.edx = a, !.eflags = w]
  BY <1>2, Zenon DEF Scratch
<1>4. /\ Scratch(r, f) \in [Registers -> Words] /\ Scratch(r, f).eflags = w
      /\ Scratch(r, f).es = r.es /\ Scratch(r, f).eip = r.eip
  <2>1. Scratch(r, f) \in [Registers -> Words]
    BY <1>2, <1>3
  <2>2. Scratch(r, f).eflags = w
    BY <1>3 DEF Registers
  <2>3. Scratch(r, f).es = r.es
    BY <1>3 DEF Registers
  <2>4. Scratch(r, f).eip = r.eip
    BY <1>3 DEF Registers
  <2> QED
    BY <2>1, <2>2, <2>3, <2>4
<1> QED
  BY <1>1, <1>2, <1>4, Zenon DEF FlagsIn

LEMMA IsrHandlerInv ==
  ASSUME IInv, isr_handler
  PROVE  IInv'
<1> DEFINE int_no == Arg("int_no")[2]
<1>1. /\ at = "isr_handler"
      /\ at' = CASE int_no = prev_int -> "hung"
                 [] int_no # prev_int -> IF idt_handlers[int_no] = "NULL" THEN "isr_pop" ELSE "panic"
      /\ prev_int' = int_no
      /\ \E f \in Arithmetic : regs' = Scratch(regs, f)
      /\ UNCHANGED <<boot, gdt, idt, idt_handlers, cpl, stack, in_service, interrupted, lost, raised>>
  BY DEF isr_handler
<1>2. /\ TypeOK /\ Always /\ raised /\ Len(stack) >= 14 /\ FlagsIn(Top(13), Disabled \cup Enabled)
      /\ interrupted \in Contexts
  BY <1>1 DEF IInv, AtIsr, Always
<1>3. Len(stack) \in Nat /\ Len(interrupted.stack) \in Nat
  BY <1>2, SeqLen, PushedIs DEF TypeOK
<1>4. /\ int_no \in 0..31
      /\ \/ prev_int = -1 /\ Len(stack) <= Len(interrupted.stack) + 16
         \/ /\ prev_int # -1 /\ int_no = 13
            /\ Len(stack) <= Len(interrupted.stack) + 42
            /\ prev_int # 13 => Len(stack) <= Len(interrupted.stack) + 29
  <2>1. CASE prev_int = -1
    <3>1. PICK v \in Exceptions : Frame(v)
      BY <1>1, <2>1 DEF IInv, AtIsr
    <3>2. Top(9) = W("int", v) /\ v \in 0..31
      BY <3>1, InterruptConstants DEF Frame
    <3>3. int_no = v
      BY <3>2, ArgIs DEF W
    <3> QED
      BY <1>1, <2>1, <3>2, <3>3 DEF IInv, AtIsr
  <2>2. CASE prev_int # -1
    <3>1. Top(9) = W("int", 13) /\ Above(29, 42)
      BY <1>1, <2>2 DEF IInv, AtIsr
    <3>2. int_no = 13
      BY <3>1, ArgIs DEF W
    <3> QED
      BY <2>2, <3>1, <3>2 DEF Above
  <2> QED
    BY <2>1, <2>2
<1> HIDE DEF int_no
<1>0. prev_int' = int_no /\ UNCHANGED <<boot, gdt, idt, cpl, stack, in_service, interrupted, lost, raised>>
  BY <1>1
<1>5. regs' \in [Registers -> Words] /\ FlagsIn(regs'.eflags, Disabled)
  BY <1>1, <1>2, ScratchIs DEF TypeOK
<1>6. /\ at' \in {"hung", "panic", "isr_pop"}
      /\ at' = "isr_pop" => int_no # prev_int
  BY <1>1
<1>7. TypeOK'
  <2>1. PICK k \in 0..31 : k = int_no
    BY <1>4, Zenon
  <2>2. prev_int' \in -1..31
    BY <1>0, <2>1
  <2>3. at' \in Places
    BY <1>6 DEF Places
  <2> QED
    BY <1>0, <1>2, <1>5, <2>2, <2>3 DEF TypeOK
<1>8. Always'
  BY <1>1, <1>2, <1>6 DEF Always
<1>9. CASE at' = "isr_pop"
  <2>1. Above(16, 29)'
    <3>1. /\ Len(stack) <= Len(interrupted.stack) + 29
          /\ int_no # 13 => Len(stack) <= Len(interrupted.stack) + 16
      <4>1. CASE prev_int = -1
        BY <1>3, <1>4, <4>1
      <4>2. CASE prev_int # -1
        <5>1. int_no = 13 /\ prev_int # 13
          BY <1>4, <1>6, <1>9, <4>2
        <5> QED
          BY <1>4, <4>2, <5>1
      <4> QED
        BY <4>1, <4>2
    <3> QED
      BY <1>0, <3>1 DEF Above
  <2>2. Top(13)' = Top(13)
    BY <1>0 DEF Top
  <2>3. prev_int' # -1
    BY <1>0, <1>4
  <2>4. AtIsrPop'
    BY <1>0, <1>2, <1>5, <2>1, <2>2, <2>3 DEF AtIsrPop
  <2> QED
    BY <1>7, <1>8, <1>9, <2>4, Elsewhere DEF IInv
<1>10. CASE at' \in {"hung", "panic"}
  <2>1. Len(stack) <= Len(interrupted.stack) + 42
    BY <1>3, <1>4
  <2>2. AtEnd'
    BY <1>1, <1>2, <2>1 DEF AtEnd
  <2> QED
    BY <1>7, <1>8, <1>10, <2>2, Elsewhere DEF IInv
<1> QED
  BY <1>6, <1>9, <1>10

\* A protection fault of the stub.
LEMMA DeliveredAgain ==
  ASSUME NEW r \in [Registers -> Words], NEW s \in Seq(Words), idt = Table, cpl = 0,
         FlagsIn(r.eflags, Disabled \cup Enabled), Protection(r, s)
  PROVE  /\ at' = "stub" /\ cpl' = 0 /\ raised' = TRUE
         /\ stack' \in Seq(Words) /\ Len(stack') = Len(s) + 4 /\ Len(s) \in Nat
         /\ Top(3)' = r.eflags
         /\ regs' \in [Registers -> Words] /\ regs'.eip = W("at", StubAddr + 13)
<1>1. at' = "stub" /\ cpl' = 0 /\ raised' = TRUE /\ regs' = Gate(13, r) /\ Delivered(13, r, s)
  BY DEF Protection, Delivered
<1>2. PICK v \in 0..47 : v = 13 /\ v < 47
  <2>1. 13 \in 0..47 /\ 13 < 47
    OBVIOUS
  <2> QED
    BY <2>1, Zenon
<1>3. regs' \in [Registers -> Words] /\ regs'.eip = W("at", Stubbed(v))
  <2>1. regs' = Gate(v, r)
    BY <1>1, <1>2
  <2> QED
    BY <2>1, GateRegs
<1>4. Stubbed(v) = StubAddr + 13
  BY <1>2 DEF Stubbed, LastVector
<1>5. PICK a, b, d, e : /\ a = r.eflags /\ b = r.cs /\ d = r.eip /\ e = W("err", 13)
                        /\ a \in Words /\ b \in Words /\ d \in Words /\ e \in Words
  <2>1. r.eflags \in Words /\ r.cs \in Words /\ r.eip \in Words
    BY DEF Registers
  <2>2. "err" \in Kinds /\ 13 \in Nat
    BY DEF Kinds
  <2> QED
    BY <2>1, <2>2, WordFacts, Zenon
<1>6. stack' = s \o <<a, b, d>> \o <<e>>
  <2>1. 13 \in WithErrorCode /\ cpl # 3
    BY DEF WithErrorCode
  <2> QED
    BY <1>1, <1>5, <2>1, Zenon DEF Delivered
<1>7. PICK Ws : Ws = Words
  OBVIOUS
<1>8. a \in Ws /\ b \in Ws /\ d \in Ws /\ e \in Ws /\ s \in Seq(Ws)
  BY <1>5, <1>7
<1>9. stack' \in Seq(Ws) /\ Len(stack') = Len(s) + 4 /\ Len(s) \in Nat /\ stack'[Len(s) + 1] = a
  BY <1>6, <1>8
<1>10. Top(3)' = r.eflags
  <2>1. Len(stack') - 3 = Len(s) + 1
    BY <1>9
  <2> QED
    BY <1>5, <1>9, <2>1 DEF Top
<1> QED
  BY <1>1, <1>3, <1>4, <1>7, <1>9, <1>10

LEMMA IsrPopInv ==
  ASSUME IInv, isr_pop
  PROVE  IInv'
<1> DEFINE loaded == [regs EXCEPT !.ebx = Top(0), !.ds = Top(0), !.es = Top(0)]
<1>1. /\ at = "isr_pop"
      /\ \/ Protection(loaded, Pop(1))
         \/ /\ regs' = Popad([loaded EXCEPT !.ds = Top(1)], 2)
            /\ stack' = Pop(12) /\ at' = "isr_iret" /\ UNCHANGED <<cpl, raised>>
      /\ UNCHANGED <<boot, gdt, idt, idt_handlers, prev_int, in_service, interrupted, lost>>
  BY DEF isr_pop
<1>2. /\ TypeOK /\ Always /\ raised /\ prev_int # -1 /\ FlagsIn(regs.eflags, Disabled)
      /\ Len(stack) >= 14 /\ FlagsIn(Top(13), Disabled \cup Enabled) /\ Above(16, 29)
      /\ interrupted \in Contexts /\ cpl = 0 /\ idt = Table
  BY <1>1 DEF IInv, AtIsrPop, Always
<1>3. /\ stack \in Seq(Words) /\ regs \in [Registers -> Words]
      /\ Len(stack) \in Nat /\ Len(interrupted.stack) \in Nat
  BY <1>2, SeqLen, PushedIs DEF TypeOK
<1>4. \A k \in 0..13 : Top(k) \in Words
  BY <1>2, <1>3, TopIn
<1>5. PICK x, y : x = Top(0) /\ y = Top(1) /\ x \in Words /\ y \in Words
  BY <1>4
<1>6. PICK h : h = loaded /\ h \in [Registers -> Words] /\ h.eflags = regs.eflags
  <2>1. loaded = [regs EXCEPT !.ebx = x, !.ds = x, !.es = x]
    BY <1>5
  <2>2. loaded \in [Registers -> Words] /\ loaded.eflags = regs.eflags
    <3> HIDE DEF loaded
    <3> QED
      BY <1>3, <1>5, <2>1 DEF Registers
  <2> HIDE DEF loaded
  <2> QED
    BY <2>2
<1> HIDE DEF loaded
<1>7. CASE Protection(loaded, Pop(1))
  <2>1. Pop(1) \in Seq(Words) /\ Len(Pop(1)) = Len(stack) - 1
    <3>1. PICK n \in 0..Len(stack) : n = 1
      BY <1>2, <1>3
    <3> QED
      BY <1>3, <3>1, Popped
  <2>2. FlagsIn(h.eflags, Disabled \cup Enabled)
    BY <1>2, <1>6 DEF FlagsIn
  <2>3. PICK s \in Seq(Words) : s = Pop(1) /\ Protection(h, s)
    BY <1>6, <1>7, <2>1
  <2>4. /\ at' = "stub" /\ cpl' = 0 /\ raised' = TRUE
        /\ stack' \in Seq(Words) /\ Len(stack') = Len(s) + 4
        /\ Top(3)' = h.eflags
        /\ regs' \in [Registers -> Words] /\ regs'.eip = W("at", StubAddr + 13)
    BY <1>2, <1>6, <2>2, <2>3, DeliveredAgain
  <2>5. TypeOK'
    BY <1>1, <1>2, <2>4 DEF TypeOK, Places
  <2>6. Always'
    BY <1>1, <1>2, <2>4 DEF Always
  <2>7. Len(stack') = Len(stack) + 3
    BY <1>3, <2>1, <2>3, <2>4
  <2>8. Above(19, 32)' /\ Len(stack') >= 4
    <3>1. /\ Len(stack) <= Len(interrupted.stack) + 29
          /\ prev_int # 13 => Len(stack) <= Len(interrupted.stack) + 16
      BY <1>2 DEF Above
    <3>2. UNCHANGED <<prev_int, interrupted>> /\ Len(stack) >= 14
      BY <1>1, <1>2
    <3> QED
      BY <1>3, <2>7, <3>1, <3>2 DEF Above
  <2>9. Again'
    BY <1>1, <1>2, <2>2, <2>4, <2>8 DEF Again
  <2>10. AtStub'
    BY <2>9 DEF AtStub
  <2> QED
    BY <2>4, <2>5, <2>6, <2>10, Elsewhere DEF IInv
<1>8. CASE /\ regs' = Popad([loaded EXCEPT !.ds = Top(1)], 2)
           /\ stack' = Pop(12) /\ at' = "isr_iret" /\ UNCHANGED <<cpl, raised>>
  <2>1. PICK g : g = [loaded EXCEPT !.ds = Top(1)] /\ g \in [Registers -> Words] /\ g.eflags = regs.eflags
    <3>1. [h EXCEPT !.ds = y] \in [Registers -> Words] /\ [h EXCEPT !.ds = y].eflags = regs.eflags
      BY <1>5, <1>6 DEF Registers
    <3> QED
      BY <1>5, <1>6, <3>1
  <2>2. regs' \in [Registers -> Words] /\ regs'.eflags = regs.eflags
    <3>1. PICK n \in 1..2 : n = 2
      OBVIOUS
    <3>2. regs' = Popad(g, n)
      BY <1>8, <2>1, <3>1
    <3>3. Popad(g, n) \in [Registers -> Words] /\ Popad(g, n).eflags = g.eflags
      BY <1>4, <2>1, PopadType
    <3> QED
      BY <2>1, <3>2, <3>3
  <2>3. /\ stack' \in Seq(Words) /\ Len(stack') = Len(stack) - 12
        /\ \A i \in 1..(Len(stack) - 12) : stack'[i] = stack[i]
    <3>1. PICK n \in 0..Len(stack) : n = 12
      BY <1>2, <1>3
    <3> QED
      BY <1>3, <1>8, <3>1, Popped
  <2>4. TypeOK'
    BY <1>1, <1>2, <1>8, <2>2, <2>3 DEF TypeOK, Places
  <2>5. Always'
    BY <1>1, <1>2, <1>8 DEF Always
  <2>6. Top(1)' = Top(13)
    <3>1. Len(stack') - 1 = Len(stack) - 13 /\ Len(stack) - 13 \in 1..(Len(stack) - 12)
      BY <1>2, <1>3, <2>3
    <3> QED
      BY <2>3, <3>1 DEF Top
  <2>7. Above(4, 17)' /\ Len(stack') >= 2
    <3>1. /\ Len(stack) <= Len(interrupted.stack) + 29
          /\ prev_int # 13 => Len(stack) <= Len(interrupted.stack) + 16
      BY <1>2 DEF Above
    <3>2. UNCHANGED <<prev_int, interrupted>> /\ Len(stack) >= 14
      BY <1>1, <1>2
    <3> QED
      BY <1>3, <2>3, <3>1, <3>2 DEF Above
  <2>8. AtIsrIret'
    BY <1>1, <1>2, <1>8, <2>2, <2>6, <2>7 DEF AtIsrIret
  <2> QED
    BY <1>8, <2>4, <2>5, <2>8, Elsewhere DEF IInv
<1> QED
  BY <1>1, <1>7, <1>8

LEMMA EndsNone ==
  ASSUME NEW S, NEW T, S \cap T = {}
  PROVE  EOI(S, T) = S
BY Zenon DEF EOI

LEMMA EndsOne ==
  ASSUME NEW S, NEW T, NEW x \in Int, S \cap T = {x}
  PROVE  EOI(S, T) = S \ {x}
<1>1. Min({x}) = x
  BY DEF Min
<1>2. S \cap T # {}
  OBVIOUS
<1> QED
  BY <1>1, <1>2, Zenon DEF EOI

\* The ends of interrupt that irq_handler sends leave nothing in service.
LEMMA AllEnded ==
  ASSUME NEW l \in 0..14, Serving(l)
  PROVE  Acknowledged(32 + l) = {}
<1>1. CASE l < 8
  <2>1. ~(32 + l >= 40)
    BY <1>1
  <2>2. Acknowledged(32 + l) = EOI(in_service, 0..7)
    BY <2>1 DEF Acknowledged
  <2>3. CASE in_service = {}
    BY <2>2, <2>3, EndsNone
  <2>4. CASE in_service = {l}
    <3>0. l \in 0..7 /\ l \in Int
      BY <1>1
    <3>1. in_service \cap (0..7) = {l}
      BY <2>4, <3>0, Zenon
    <3>2. EOI(in_service, 0..7) = in_service \ {l}
      BY <3>0, <3>1, EndsOne
    <3> QED
      BY <2>2, <2>4, <3>2
  <2> QED
    BY <1>1, <2>3, <2>4 DEF Serving, Chain
<1>2. CASE ~(l < 8)
  <2>1. 32 + l >= 40 /\ in_service = {2, l} /\ l \in Int
    BY <1>2 DEF Serving, Chain
  <2>2. Acknowledged(32 + l) = EOI(EOI(in_service, 8..15), 0..7)
    BY <2>1 DEF Acknowledged
  <2>3. in_service \cap (8..15) = {l}
    <3>1. l \in 8..15 /\ 2 \notin 8..15
      BY <1>2
    <3> QED
      BY <2>1, <3>1, Zenon
  <2>4. EOI(in_service, 8..15) = in_service \ {l}
    BY <2>1, <2>3, EndsOne
  <2>5. in_service \ {l} = {2}
    BY <1>2, <2>1
  <2>6. PICK two \in Int : two = 2
    OBVIOUS
  <2>7. {two} \cap (0..7) = {two}
    BY <2>6
  <2>8. EOI({two}, 0..7) = {two} \ {two}
    BY <2>7, EndsOne
  <2> QED
    BY <2>2, <2>4, <2>5, <2>6, <2>8
<1> QED
  BY <1>1, <1>2

LEMMA IrqHandlerInv ==
  ASSUME IInv, irq_handler
  PROVE  IInv'
<1> DEFINE int_no == Arg("int_no")[2]
<1>1. /\ at = "irq_handler" /\ at' = "irq_pop"
      /\ in_service' = Acknowledged(int_no) \/ in_service' = EOI(Acknowledged(int_no), 0..7)
      /\ \E f \in Arithmetic : regs' = Scratch(regs, f)
      /\ UNCHANGED <<boot, gdt, idt, idt_handlers, prev_int, cpl, stack, interrupted, lost, raised>>
  BY DEF irq_handler
<1>2. /\ TypeOK /\ Always /\ ~raised /\ ~lost /\ boot # "interrupt_init"
      /\ regs.es = Sel(GDT_KERNEL_DATA_SEG)
  BY <1>1 DEF IInv, AtIrq
<1>3. PICK l \in 0..14 : Frame(32 + l) /\ Serving(l)
  BY <1>1 DEF IInv, AtIrq
<1>4. int_no = 32 + l
  BY <1>3, ArgIs DEF Frame, W
<1> HIDE DEF int_no
<1>5. in_service' = {}
  <2>1. Acknowledged(int_no) = {}
    BY <1>3, <1>4, AllEnded
  <2>2. EOI({}, 0..7) = {}
    BY EndsNone
  <2> QED
    BY <1>1, <2>1, <2>2
<1>6. regs' \in [Registers -> Words] /\ regs'.es = regs.es
  BY <1>1, <1>2, ScratchIs DEF TypeOK
<1>7. TypeOK'
  BY <1>1, <1>2, <1>5, <1>6 DEF TypeOK, Places
<1>8. Always'
  BY <1>1, <1>2 DEF Always
<1>9. Frame(32 + l)'
  BY <1>1, <1>3 DEF Frame, Top, Pushed, Under
<1>10. AtIrq'
  BY <1>1, <1>2, <1>5, <1>6, <1>9 DEF AtIrq
<1> QED
  BY <1>1, <1>7, <1>8, <1>10, Elsewhere DEF IInv

LEMMA IrqPopInv ==
  ASSUME IInv, irq_pop
  PROVE  IInv'
<1>1. /\ at = "irq_pop" /\ at' = "irq_iret"
      /\ regs' = Popad([regs EXCEPT !.ds = Top(0)], 1) /\ stack' = Pop(11)
      /\ UNCHANGED <<boot, gdt, idt, idt_handlers, prev_int, cpl, in_service, interrupted, lost, raised>>
  BY DEF irq_pop
<1>2. /\ TypeOK /\ Always /\ ~raised /\ ~lost /\ boot # "interrupt_init" /\ in_service = {}
      /\ regs.es = Sel(GDT_KERNEL_DATA_SEG) /\ interrupted \in Contexts
  BY <1>1 DEF IInv, AtIrq, Always
<1>3. PICK l \in 0..14 : Frame(32 + l)
  BY <1>1 DEF IInv, AtIrq
<1>4. PICK p : /\ p = Pushed(interrupted) /\ p \in Seq(Words) /\ Len(p) \in Nat /\ Len(p) >= 3
               /\ Len(stack) = Len(p) + 11 /\ \A i \in 1..Len(p) : stack[i] = p[i]
  BY <1>2, <1>3, PushedIs DEF Frame
<1>5. /\ stack \in Seq(Words) /\ regs \in [Registers -> Words] /\ Len(stack) \in Nat /\ Len(stack) >= 14
  BY <1>2, <1>4 DEF TypeOK
<1>6. \A k \in 0..13 : Top(k) \in Words
  BY <1>5, TopIn
<1>7. PICK g : /\ g = [regs EXCEPT !.ds = Top(0)] /\ g \in [Registers -> Words]
               /\ g.es = regs.es /\ g["ds"] = Top(0)
  <2>1. PICK x : x = Top(0) /\ x \in Words
    BY <1>6
  <2>2. /\ [regs EXCEPT !.ds = x] \in [Registers -> Words]
        /\ [regs EXCEPT !.ds = x].es = regs.es /\ [regs EXCEPT !.ds = x]["ds"] = x
    BY <1>5, <2>1 DEF Registers
  <2> QED
    BY <2>1, <2>2
<1>8. PICK n \in 1..2 : n = 1
  OBVIOUS
<1>9. regs' = Popad(g, n)
  BY <1>1, <1>7, <1>8
<1>10. regs' \in [Registers -> Words]
  BY <1>6, <1>7, <1>9, PopadType
<1>11. /\ \A x \in General \ {"ds"} : regs'[x] = Top(n - 1 + Depth(x))
       /\ \A x \in {"ds", "es", "cs", "eip", "eflags"} : regs'[x] = g[x]
  <2>1. /\ \A x \in General \ {"ds"} : Popad(g, n)[x] = Top(n - 1 + Depth(x))
        /\ \A x \in {"ds", "es", "cs", "eip", "eflags"} : Popad(g, n)[x] = g[x]
    BY <1>7, PopadIs
  <2> QED
    BY <1>9, <2>1
<1>12. \A r \in General : regs'[r] = interrupted.regs[r]
  <2>1. \A r \in General : Top(Depth(r)) = interrupted.regs[r]
    BY <1>3 DEF Frame
  <2>2. \A r \in General \ {"ds"} : n - 1 + Depth(r) = Depth(r)
    BY <1>8 DEF General, Depth
  <2>3. \A r \in General \ {"ds"} : regs'[r] = Top(Depth(r))
    BY <1>11, <2>2
  <2>4. regs'["ds"] = Top(Depth("ds")) /\ "ds" \in General
    BY <1>7, <1>11 DEF Depth, General
  <2> QED
    BY <2>1, <2>3, <2>4
<1>13. regs'.es = Sel(GDT_KERNEL_DATA_SEG)
  BY <1>2, <1>7, <1>11
<1>14. stack' = p /\ stack' \in Seq(Words)
  <2>1. PICK m \in 0..Len(stack) : m = 11
    BY <1>5
  <2>2. /\ stack' \in Seq(Words) /\ Len(stack') = Len(stack) - m
        /\ \A i \in 1..(Len(stack) - m) : stack'[i] = stack[i]
    BY <1>1, <1>5, <2>1, Popped
  <2>3. Len(stack') = Len(p) /\ \A i \in 1..Len(p) : stack'[i] = p[i]
    BY <1>4, <2>1, <2>2
  <2>4. PICK Ws : Ws = Words
    OBVIOUS
  <2>5. stack' \in Seq(Ws) /\ p \in Seq(Ws)
    BY <1>4, <2>2, <2>4
  <2>6. stack' = p
    BY <2>3, <2>5
  <2> QED
    BY <2>2, <2>6
<1>15. TypeOK'
  BY <1>1, <1>2, <1>10, <1>14 DEF TypeOK, Places
<1>16. Always'
  BY <1>1, <1>2 DEF Always
<1>17. AtIrqIret'
  <2>1. Pushed(interrupted)' = p
    BY <1>1, <1>4 DEF Pushed, Under
  <2> QED
    BY <1>1, <1>2, <1>12, <1>13, <1>14, <2>1 DEF AtIrqIret
<1> QED
  BY <1>1, <1>15, <1>16, <1>17, Elsewhere DEF IInv

LEMMA OtherInv ==
  ASSUME IInv, other_interrupt
  PROVE  IInv'
<1>1. /\ at = "other_interrupt" /\ at' = "code" /\ stack' = Pop(1)
      /\ UNCHANGED <<boot, gdt, idt, idt_handlers, prev_int, cpl, in_service, interrupted, lost, raised>>
  BY DEF other_interrupt
<1>2. PICK f \in Arithmetic : regs' = [Scratch(regs, f) EXCEPT !.eip = Top(0)]
  BY DEF other_interrupt
<1>3. TypeOK /\ Always /\ ~raised /\ lost /\ Len(stack) >= 3 /\ cpl = 0
  BY <1>1 DEF IInv, AtOther, Always
<1>4. stack \in Seq(Words) /\ regs \in [Registers -> Words] /\ Len(stack) \in Nat
  BY <1>3, SeqLen DEF TypeOK
<1>5. PICK r, x : /\ r = Scratch(regs, f) /\ r \in [Registers -> Words] /\ FlagsIn(r.eflags, Disabled)
                  /\ x = Top(0) /\ x \in Words
  <2>1. PICK k \in Nat : k = 0
    OBVIOUS
  <2>2. Top(0) \in Words
    BY <1>3, <1>4, <2>1, TopIn
  <2> QED
    BY <1>4, <2>2, ScratchIs
<1>6. regs' = [r EXCEPT !.eip = x]
  BY <1>2, <1>5
<1>7. regs' \in [Registers -> Words] /\ regs'.eflags = r.eflags
  BY <1>5, <1>6 DEF Registers
<1>8. stack' \in Seq(Words)
  <2>1. PICK n \in 0..Len(stack) : n = 1
    BY <1>3, <1>4
  <2> QED
    BY <1>1, <1>4, <2>1, Popped
<1>9. TypeOK'
  BY <1>1, <1>3, <1>7, <1>8 DEF TypeOK, Places
<1>10. Always'
  BY <1>1, <1>3 DEF IInv, Always
<1>11. AtCode'
  BY <1>1, <1>3, <1>5, <1>7 DEF AtCode
<1> QED
  BY <1>1, <1>9, <1>10, <1>11, Elsewhere DEF IInv

\* iret of an exception's stub: what is in the place of cs is the flags.
LEMMA IsrIretInv ==
  ASSUME IInv, Iret, at = "isr_iret"
  PROVE  IInv'
<1>0. PICK on : on = [regs EXCEPT !.eflags = W("flags", regs.eflags[2] + IF_)]
  OBVIOUS
<1>1. /\ TypeOK /\ Always /\ raised /\ prev_int # -1 /\ FlagsIn(regs.eflags, Disabled)
      /\ Len(stack) >= 2 /\ FlagsIn(Top(1), Disabled \cup Enabled) /\ Above(4, 17)
      /\ interrupted \in Contexts /\ cpl = 0 /\ idt = Table /\ gdt = gdt_init
  BY DEF IInv, AtIsrIret, Always
<1>2. PICK n \in Disabled \cup Enabled : Top(1) = W("flags", n)
  BY <1>1 DEF FlagsIn
<1>3. ~ReturnTarget(gdt, Top(1)[2], cpl)
  <2>1. Top(1)[2] = n
    BY <1>2, WordParts
  <2> QED
    BY <1>1, <2>1, NoReturn
<1>4. /\ Protection(on, stack)
      /\ UNCHANGED <<boot, gdt, idt, idt_handlers, prev_int, in_service, interrupted, lost>>
  BY <1>0, <1>3 DEF Iret
<1>5. /\ stack \in Seq(Words) /\ regs \in [Registers -> Words]
      /\ Len(stack) \in Nat /\ Len(interrupted.stack) \in Nat
  BY <1>1, SeqLen, PushedIs DEF TypeOK
<1>6. PICK h : h = on /\ h \in [Registers -> Words] /\ FlagsIn(h.eflags, Disabled \cup Enabled)
  <2>1. PICK m \in Disabled : regs.eflags = W("flags", m)
    BY <1>1 DEF FlagsIn
  <2>2. PICK k \in Enabled : k = m + IF_ /\ k \in Nat
    BY FlagNumbers
  <2>3. PICK w : w = W("flags", k) /\ w \in Words
    <3>1. "flags" \in Kinds
      BY DEF Kinds
    <3> QED
      BY <2>2, <3>1, WordFacts, Zenon
  <2>4. regs.eflags[2] = m
    BY <2>1, WordParts
  <2>5. on = [regs EXCEPT !.eflags = w]
    BY <1>0, <2>2, <2>3, <2>4
  <2>6. on \in [Registers -> Words] /\ on.eflags = w
    BY <1>5, <2>3, <2>5 DEF Registers
  <2>7. FlagsIn(w, Disabled \cup Enabled)
    BY <2>2, <2>3, Zenon DEF FlagsIn
  <2> QED
    BY <2>6, <2>7
<1>7. /\ at' = "stub" /\ cpl' = 0 /\ raised' = TRUE
      /\ stack' \in Seq(Words) /\ Len(stack') = Len(stack) + 4
      /\ Top(3)' = h.eflags
      /\ regs' \in [Registers -> Words] /\ regs'.eip = W("at", StubAddr + 13)
  <2>1. Protection(h, stack)
    BY <1>4, <1>6
  <2> QED
    BY <1>1, <1>5, <1>6, <2>1, DeliveredAgain
<1>8. TypeOK'
  BY <1>1, <1>4, <1>7 DEF TypeOK, Places
<1>9. Always'
  BY <1>1, <1>4, <1>7 DEF Always
<1>10. Above(19, 32)' /\ Len(stack') >= 4
  <2>1. PICK l \in Nat, m \in Nat : /\ l = Len(stack) /\ m = Len(interrupted.stack) /\ l >= 2
                                   /\ l <= m + 17 /\ (prev_int # 13 => l <= m + 4)
    BY <1>1, <1>5, Zenon DEF Above
  <2>2. UNCHANGED <<prev_int, interrupted>>
    BY <1>4
  <2>3. PICK k \in Nat : k = l + 4
    BY <2>1
  <2>30. k = Len(stack')
    BY <1>7, <2>1, <2>3, Zenon
  <2>4. k >= 4 /\ k <= m + 32 /\ (prev_int # 13 => k <= m + 19)
    BY <2>1, <2>3
  <2>5. Len(interrupted'.stack) = m /\ prev_int' = prev_int
    BY <2>1, <2>2, Zenon
  <2> QED
    BY <2>30, <2>4, <2>5, Zenon DEF Above
<1>11. Again'
  BY <1>1, <1>4, <1>6, <1>7, <1>10 DEF Again
<1>12. AtStub'
  BY <1>11 DEF AtStub
<1> QED
  BY <1>7, <1>8, <1>9, <1>12, Elsewhere DEF IInv

\* The interrupted context is back.
LEMMA Returned ==
  ASSUME IInv, Iret, at = "irq_iret", at' = "code", raised' = raised,
         cpl' = interrupted.cpl, stack' = interrupted.stack, regs' = interrupted.regs
  PROVE  IInv'
<1>1. /\ TypeOK /\ Always /\ ~raised /\ ~lost /\ in_service = {} /\ interrupted \in Contexts
  BY DEF IInv, AtIrqIret, Always
<1>2. UNCHANGED <<boot, gdt, idt, idt_handlers, prev_int, in_service, interrupted, lost>>
  BY DEF Iret
<1>3. TypeOK'
  BY <1>1, <1>2 DEF TypeOK, Places, Contexts
<1>4. Always'
  BY <1>1, <1>2 DEF IInv, Always, AtIrqIret
<1>5. AtCode'
  <2>1. Here' = interrupted
    BY <1>1 DEF Here, Contexts
  <2> QED
    BY <1>1, <1>2, <2>1 DEF AtCode
<1> QED
  BY <1>3, <1>4, <1>5, Elsewhere DEF IInv

\* iret of an interrupt's stub: the interrupted context, with what ring 3 may hold.
LEMMA IrqIretInv ==
  ASSUME IInv, Iret, at = "irq_iret"
  PROVE  IInv'
<1>0. PICK c : c = interrupted
  OBVIOUS
<1>00. PICK new : new = [regs EXCEPT !.eip = Top(0), !.cs = Top(1), !.eflags = Top(2)]
  OBVIOUS
<1>1. /\ TypeOK /\ Always /\ ~raised /\ ~lost /\ boot # "interrupt_init" /\ in_service = {}
      /\ stack = Pushed(c) /\ (\A r \in General : regs[r] = c.regs[r])
      /\ regs.es = Sel(GDT_KERNEL_DATA_SEG) /\ Running(c) /\ cpl = 0 /\ gdt = gdt_init
  BY <1>0 DEF IInv, AtIrqIret, Always
<1>2. /\ c \in Contexts /\ c.cpl \in {0, 3}
      /\ c.cpl = 0 => c.regs.cs = Sel(GDT_KERNEL_CODE_SEG) /\ c.regs.es = Sel(GDT_KERNEL_DATA_SEG)
      /\ c.cpl = 3 => /\ c.regs.cs = Sel(GDT_USER_CODE_SEG) /\ c.regs.es = Sel(0)
                      /\ c.regs.ds = Sel(GDT_USER_DATA_SEG) /\ c.stack = <<>>
  <2>1. c \in Contexts
    BY <1>1, RunningIs
  <2>2. c.cpl \in {0, 3}
    BY <2>1 DEF Contexts
  <2>3. Running(c)
    BY <1>1
  <2> QED
    BY <2>1, <2>2, <2>3, RunningIs, Zenon
<1>3. PICK p : p = Pushed(c)
  OBVIOUS
<1>4. /\ p \in Seq(Words) /\ Len(p) \in Nat
      /\ p[Len(p)] = c.regs.eip /\ p[Len(p) - 1] = c.regs.cs /\ p[Len(p) - 2] = c.regs.eflags
      /\ c.cpl = 3 => Len(p) = 5
      /\ c.cpl = 0 => Len(p) = Len(c.stack) + 3 /\ \A i \in 1..Len(c.stack) : p[i] = c.stack[i]
  <2>1. c \in Contexts
    BY <1>2
  <2> QED
    BY <2>1, <1>3, PushedIs
<1>5. stack = p
  BY <1>1, <1>3
<1>6. /\ Top(0) = c.regs.eip /\ Top(1) = c.regs.cs /\ Top(2) = c.regs.eflags
      /\ Len(stack) \in Nat /\ stack \in Seq(Words)
  <2>1. PICK l \in Nat : l = Len(p)
    BY <1>4, Zenon
  <2>2. l - 0 = l
    OBVIOUS
  <2>3. stack[Len(stack) - 0] = c.regs.eip
    BY <1>4, <1>5, <2>1, <2>2, Zenon
  <2> QED
    BY <1>4, <1>5, <2>3, Zenon DEF Top
<1>7. PICK x, y, z : /\ x = c.regs.eip /\ y = c.regs.cs /\ z = c.regs.eflags
                     /\ x \in Words /\ y \in Words /\ z \in Words
  BY <1>2 DEF Contexts, Registers
<1>8. regs \in [Registers -> Words] /\ c.regs \in [Registers -> Words] /\ c.stack \in Seq(Words)
  BY <1>1, <1>2 DEF TypeOK, Contexts
<1>9. /\ new \in [Registers -> Words]
      /\ \A r \in Registers \ {"es"} : new[r] = c.regs[r]
      /\ new["es"] = Sel(GDT_KERNEL_DATA_SEG)
  <2>1. new = [regs EXCEPT !.eip = x, !.cs = y, !.eflags = z]
    BY <1>00, <1>6, <1>7
  <2>2. new \in [Registers -> Words]
    BY <1>7, <1>8, <2>1
  <2>3. new["eip"] = c.regs["eip"] /\ new["cs"] = c.regs["cs"] /\ new["eflags"] = c.regs["eflags"]
    BY <1>7, <1>8, <2>1 DEF Registers
  <2>4. \A r \in General : new[r] = regs[r]
    BY <1>8, <2>1 DEF General, Registers
  <2>5. new["es"] = regs.es
    BY <1>8, <2>1 DEF Registers
  <2>6. \A r \in General : new[r] = c.regs[r]
    BY <1>1, <2>4
  <2>7. \A r \in Registers \ {"es"} : r \in General \/ r \in {"eip", "cs", "eflags"}
    BY DEF Registers, General
  <2>8. \A r \in Registers \ {"es"} : new[r] = c.regs[r]
    BY <2>3, <2>6, <2>7
  <2> QED
    BY <1>1, <2>2, <2>5, <2>8
<1>10. /\ UNCHANGED <<boot, gdt, idt, idt_handlers, prev_int, in_service, interrupted, lost>>
       /\ ReturnTarget(gdt, Top(1)[2], cpl) =>
            /\ cpl' = Rpl(Top(1)[2])
            /\ stack' = Pop(IF Rpl(Top(1)[2]) > cpl THEN 5 ELSE 3)
            /\ regs' = IF Rpl(Top(1)[2]) > cpl THEN Nulled(new, Rpl(Top(1)[2])) ELSE new
            /\ at' = "code" /\ UNCHANGED raised
  BY <1>00 DEF Iret
<1>11. ReturnTarget(gdt_init, GDT_KERNEL_CODE_SEG, 0) /\ ReturnTarget(gdt_init, GDT_USER_CODE_SEG, 0)
  BY Selectors, Kinds_ DEF ReturnTarget
<1>12. Rpl(GDT_KERNEL_CODE_SEG) = 0 /\ Rpl(GDT_USER_CODE_SEG) = 3
  BY Selectors
<1>13. ASSUME NEW n, NEW k \in {0, 3}, Top(1) = Sel(n), ReturnTarget(gdt_init, n, 0), Rpl(n) = k
       PROVE  /\ cpl' = k /\ at' = "code" /\ raised' = raised
              /\ k = 0 => stack' = Pop(3) /\ regs' = new
              /\ k = 3 => stack' = Pop(5) /\ regs' = Nulled(new, 3)
  <2>1. Top(1)[2] = n
    BY <1>13, WordParts DEF Sel
  <2>2. ReturnTarget(gdt, Top(1)[2], cpl) /\ Rpl(Top(1)[2]) = k /\ cpl = 0
    BY <1>1, <1>13, <2>1, Zenon
  <2>3. CASE k = 0
    <3>1. ~(k > cpl)
      BY <2>2, <2>3
    <3>2. ~(Rpl(Top(1)[2]) > cpl)
      BY <2>2, <3>1, Zenon
    <3>3. 0 # 3
      OBVIOUS
    <3> QED
      BY <1>10, <2>2, <2>3, <3>2, <3>3, Zenon
  <2>4. CASE k = 3
    <3>1. k > cpl
      BY <2>2, <2>4
    <3>2. Rpl(Top(1)[2]) > cpl
      BY <2>2, <3>1, Zenon
    <3>3. 0 # 3
      OBVIOUS
    <3> QED
      BY <1>10, <2>2, <2>4, <3>2, <3>3, Zenon
  <2> QED
    BY <2>3, <2>4
<1>14. CASE c.cpl = 0
  <2>1. cpl' = 0 /\ stack' = Pop(3) /\ regs' = new /\ at' = "code" /\ raised' = raised
    <3>1. Top(1) = Sel(GDT_KERNEL_CODE_SEG)
      BY <1>2, <1>6, <1>14
    <3> QED
      BY <1>11, <1>12, <1>13, <3>1
  <2>2. regs' = c.regs
    <3>1. new["es"] = c.regs["es"]
      BY <1>2, <1>9, <1>14
    <3>2. \A r \in Registers : new[r] = c.regs[r]
      BY <1>9, <3>1
    <3>3. new = c.regs
      BY <1>8, <1>9, <3>2, SameFunction
    <3> QED
      BY <2>1, <3>3
  <2>3. stack' = c.stack
    <3>1. PICK s : s = c.stack /\ s \in Seq(Words) /\ Len(s) \in Nat
      BY <1>8, SeqLen
    <3>2. Len(p) = Len(s) + 3 /\ \A i \in 1..Len(s) : p[i] = s[i]
      BY <1>4, <1>14, <3>1
    <3>3. PICK n \in 0..Len(stack) : n = 3
      BY <1>4, <1>5, <3>1, <3>2
    <3>4. /\ stack' \in Seq(Words) /\ Len(stack') = Len(stack) - n
          /\ \A i \in 1..(Len(stack) - n) : stack'[i] = stack[i]
      BY <1>6, <2>1, <3>3, Popped
    <3>5. Len(stack') = Len(s) /\ \A i \in 1..Len(s) : stack'[i] = s[i]
      BY <1>4, <1>5, <3>1, <3>2, <3>3, <3>4
    <3>6. stack' = s
      BY <3>1, <3>4, <3>5, SameSeq
    <3> QED
      BY <3>1, <3>6
  <2> QED
    BY <1>0, <1>14, <2>1, <2>2, <2>3, Returned
<1>15. CASE c.cpl = 3
  <2>1. cpl' = 3 /\ stack' = Pop(5) /\ regs' = Nulled(new, 3) /\ at' = "code" /\ raised' = raised
    <3>1. Top(1) = Sel(GDT_USER_CODE_SEG)
      BY <1>2, <1>6, <1>15
    <3> QED
      BY <1>11, <1>12, <1>13, <3>1
  <2>2. stack' = <<>>
    <3>1. Len(stack) = 5
      BY <1>4, <1>5, <1>15
    <3>2. PICK n \in 0..Len(stack) : n = 5
      BY <3>1
    <3>3. stack' \in Seq(Words) /\ Len(stack') = Len(stack) - n
      BY <1>6, <2>1, <3>2, Popped
    <3>4. Len(stack') = 0
      BY <3>1, <3>2, <3>3
    <3>5. ASSUME NEW S, NEW f \in Seq(S), Len(f) = 0 PROVE f = <<>>
      BY <3>5
    <3> QED
      BY <3>3, <3>4, <3>5
  <2>3. regs' = c.regs
    <3> DEFINE keep(w) == IF w[1] = "sel" /\ ~NullSel(w[2]) /\ Dpl(gdt[Entry(w[2])]) < 3
                          THEN Sel(0) ELSE w
    <3>1. Nulled(new, 3) = [new EXCEPT !.ds = keep(new.ds), !.es = keep(new.es)]
      BY Zenon DEF Nulled
    <3>2. new.ds = Sel(GDT_USER_DATA_SEG) /\ new.es = Sel(GDT_KERNEL_DATA_SEG)
      BY <1>2, <1>9, <1>15 DEF Registers
    <3>3. keep(Sel(GDT_USER_DATA_SEG)) = Sel(GDT_USER_DATA_SEG)
      <4>1. Dpl(gdt[Entry(GDT_USER_DATA_SEG)]) = 3
        BY <1>1, Selectors, Kinds_
      <4>2. PICK w : w = Sel(GDT_USER_DATA_SEG) /\ w[2] = GDT_USER_DATA_SEG
        BY WordParts DEF Sel
      <4>3. ~(Dpl(gdt[Entry(w[2])]) < 3)
        BY <4>1, <4>2
      <4> QED
        BY <4>2, <4>3, Zenon
    <3>4. keep(Sel(GDT_KERNEL_DATA_SEG)) = Sel(0)
      <4>1. Dpl(gdt[Entry(GDT_KERNEL_DATA_SEG)]) = 0 /\ ~NullSel(GDT_KERNEL_DATA_SEG)
        BY <1>1, Selectors, Kinds_
      <4>2. PICK w : w = Sel(GDT_KERNEL_DATA_SEG) /\ w[2] = GDT_KERNEL_DATA_SEG /\ w[1] = "sel"
        BY WordParts DEF Sel
      <4>3. Dpl(gdt[Entry(w[2])]) < 3 /\ ~NullSel(w[2])
        BY <4>1, <4>2
      <4> QED
        BY <4>2, <4>3, Zenon
    <3> HIDE DEF keep
    <3>5. PICK d, e : /\ d = Sel(GDT_USER_DATA_SEG) /\ e = Sel(0)
                      /\ regs' = [new EXCEPT !.ds = d, !.es = e]
      BY <2>1, <3>1, <3>2, <3>3, <3>4, Zenon
    <3>6. d = c.regs["ds"] /\ e = c.regs["es"]
      BY <1>2, <1>15, <3>5
    <3>7. PICK g : g = [new EXCEPT !.ds = d, !.es = e]
      OBVIOUS
    <3>8. g \in [Registers -> Words]
      BY <1>8, <1>9, <3>6, <3>7 DEF Registers
    <3>9. \A r \in Registers : g[r] = c.regs[r]
      BY <1>9, <3>6, <3>7
    <3>10. g = c.regs
      BY <1>8, <3>8, <3>9, SameFunction
    <3> QED
      BY <3>5, <3>7, <3>10
  <2>4. stack' = c.stack
    BY <1>2, <1>15, <2>2, Zenon
  <2> QED
    BY <1>0, <1>15, <2>1, <2>3, <2>4, Returned
<1> QED
  BY <1>2, <1>14, <1>15

LEMMA StepInv ==
  ASSUME IInv, [Next]_vars
  PROVE  IInv'
<1>1. CASE Compute
  BY <1>1, ComputeInv
<1>2. CASE interrupt_init
  BY <1>2, InterruptInitInv
<1>3. CASE paging_init \/ keyboard_init \/ pic_init
  BY <1>3, SetUpInv
<1>4. CASE \E v \in Exceptions : Raise(v)
  BY <1>4, RaiseInv
<1>5. CASE \E l \in Lines, spurious \in BOOLEAN : Irq(l, spurious)
  BY <1>5, IrqInv
<1>6. CASE Stub
  BY <1>6, StubInv
<1>7. CASE isr_handler
  BY <1>7, IsrHandlerInv
<1>8. CASE isr_pop
  BY <1>8, IsrPopInv
<1>9. CASE Iret
  <2>1. at = "isr_iret" \/ at = "irq_iret"
    BY <1>9 DEF Iret
  <2> QED
    BY <1>9, <2>1, IsrIretInv, IrqIretInv
<1>10. CASE irq_handler
  BY <1>10, IrqHandlerInv
<1>11. CASE irq_pop
  BY <1>11, IrqPopInv
<1>12. CASE other_interrupt
  BY <1>12, OtherInv
<1>13. CASE UNCHANGED vars
  <2>1. /\ UNCHANGED <<boot, gdt, idt, idt_handlers, prev_int, at, cpl, regs, stack, in_service>>
        /\ UNCHANGED <<interrupted, lost, raised>>
    BY <1>13 DEF vars, machine
  <2>2. TypeOK' /\ Always'
    BY <2>1 DEF IInv, TypeOK, Always
  <2>3. AtCode' /\ AtEnd' /\ AtOther'
    BY <2>1 DEF IInv, AtCode, Here, AtEnd, AtOther
  <2>4. (\A n : Top(n)' = Top(n)) /\ (\A n, m : Above(n, m)' <=> Above(n, m))
    BY <2>1 DEF Top, Above
  <2>5. Pushed(interrupted)' = Pushed(interrupted)
    BY <2>1 DEF Pushed, Under
  <2>6. AtIsrPop' /\ AtIsrIret'
    BY <2>1, <2>4 DEF IInv, AtIsrPop, AtIsrIret
  <2>7. \A l : Serving(l)' <=> Serving(l)
    BY <2>1 DEF Serving
  <2>8. \A v : Frame(v)' <=> Frame(v)
    BY <2>1, <2>4, <2>5 DEF Frame
  <2>9. AtIsr'
    BY <2>1, <2>4, <2>8 DEF IInv, AtIsr
  <2>10. AtIrq' /\ AtIrqIret'
    BY <2>1, <2>5, <2>7, <2>8 DEF IInv, AtIrq, AtIrqIret
  <2>11. \A v : First(v)' <=> First(v)
    BY <2>1, <2>5, <2>7, Zenon DEF First
  <2>12. Again' <=> Again
    BY <2>1, <2>4 DEF Again
  <2>13. AtStub'
    BY <2>1, <2>11, <2>12 DEF IInv, AtStub
  <2> QED
    BY <2>2, <2>3, <2>6, <2>9, <2>10, <2>13 DEF IInv
<1> QED
  BY <1>1, <1>2, <1>3, <1>4, <1>5, <1>6, <1>7, <1>8, <1>9, <1>10, <1>11, <1>12, <1>13
  DEF Next, Kernel

-----------------------------------------------------------------------------
(* What the invariant gives *)

\* A frame of the interrupted context is what struct idt_registers says it is.
LEMMA FrameFields ==
  ASSUME NEW v \in 0..46, Frame(v), regs.eip = W("at", Stubbed(v)),
         interrupted \in Contexts
  PROVE  /\ \A r \in {"ds", "edi", "esi", "ebp", "ebx", "edx", "ecx", "eax", "eip", "cs", "eflags"} :
              Arg(r) = interrupted.regs[r]
         /\ interrupted.cpl = 3 => Arg("useresp") = W("user_esp", 0) /\ Arg("ss") = Sel(GDT_USER_DATA_SEG)
         /\ Arg("int_no") = W("int", regs.eip[2] - StubAddr)
<1>1. PICK c, p : c = interrupted /\ p = Pushed(c) /\ c \in Contexts
  OBVIOUS
<1>2. /\ Len(stack) = Len(p) + 11
      /\ \A i \in 1..Len(p) : stack[i] = p[i]
      /\ \A r \in General : Top(Depth(r)) = c.regs[r]
      /\ Top(9) = W("int", v)
  BY <1>1, Zenon DEF Frame
<1>3. /\ Len(p) \in Nat /\ Len(p) >= 3
      /\ p[Len(p)] = c.regs.eip /\ p[Len(p) - 1] = c.regs.cs /\ p[Len(p) - 2] = c.regs.eflags
      /\ c.cpl = 3 => Len(p) = 5 /\ p[2] = W("user_esp", 0) /\ p[1] = Sel(GDT_USER_DATA_SEG)
  BY <1>1, PushedIs
<1>4. PICK l \in Nat : l = Len(p) /\ l >= 3
  BY <1>3
<1>5. Top(11) = p[l] /\ Top(12) = p[l - 1] /\ Top(13) = p[l - 2]
  <2>1. l + 11 - 11 = l /\ l + 11 - 12 = l - 1 /\ l + 11 - 13 = l - 2
    BY <1>4
  <2>2. Top(11) = stack[l] /\ Top(12) = stack[l - 1] /\ Top(13) = stack[l - 2]
    BY <1>2, <1>4, <2>1 DEF Top
  <2>3. l \in 1..l /\ l - 1 \in 1..l /\ l - 2 \in 1..l
    BY <1>4
  <2> QED
    BY <1>2, <1>4, <2>2, <2>3
<1>6. c.cpl = 3 => Top(14) = p[2] /\ Top(15) = p[1]
  <2> SUFFICES ASSUME c.cpl = 3 PROVE Top(14) = p[2] /\ Top(15) = p[1]
    OBVIOUS
  <2>0. Len(p) = 5 /\ Len(stack) = Len(p) + 11
    BY <1>2, <1>3, Zenon
  <2>1. Len(p) = 5 /\ Len(stack) = 16
    BY <2>0
  <2>2. Top(14) = stack[2] /\ Top(15) = stack[1]
    BY <2>1 DEF Top
  <2> QED
    BY <1>2, <2>1, <2>2
<1>7. ASSUME NEW r \in General PROVE Arg(r) = c.regs[r]
  <2>1. Arg(r) = Top(Depth(r))
    BY ArgIs DEF General, Depth
  <2> QED
    BY <1>2, <2>1, Zenon
<1>8. Arg("eip") = c.regs["eip"] /\ Arg("cs") = c.regs["cs"] /\ Arg("eflags") = c.regs["eflags"]
  BY <1>3, <1>4, <1>5, ArgIs, Zenon
<1>9. \A r \in {"ds", "edi", "esi", "ebp", "ebx", "edx", "ecx", "eax", "eip", "cs", "eflags"} :
         r \in General \/ r = "eip" \/ r = "cs" \/ r = "eflags"
  BY DEF General
<1>10. v = regs.eip[2] - StubAddr
  <2>1. Stubbed(v) = StubAddr + v /\ StubAddr \in Nat
    BY InterruptConstants DEF Stubbed, LastVector
  <2>2. regs.eip[2] = Stubbed(v)
    BY WordParts
  <2> QED
    BY <2>1, <2>2
<1>11. Arg("int_no") = W("int", regs.eip[2] - StubAddr)
  BY <1>2, <1>10, ArgIs, Zenon
<1>12. c.cpl = 3 => Arg("useresp") = W("user_esp", 0) /\ Arg("ss") = Sel(GDT_USER_DATA_SEG)
  BY <1>3, <1>6, ArgIs, Zenon
<1> QED
  BY <1>1, <1>7, <1>8, <1>9, <1>11, <1>12, Zenon

LEMMA InvFrame == IInv => FrameMatchesStruct
<1> SUFFICES ASSUME IInv, at \in {"isr_handler", "irq_handler"}, raised => prev_int = -1
             PROVE  FrameMatchesStruct
  BY Zenon DEF FrameMatchesStruct
<1>0. interrupted \in Contexts
  BY DEF IInv, Always
<1> SUFFICES \E v \in 0..46 : Frame(v) /\ regs.eip = W("at", Stubbed(v))
  BY <1>0, FrameFields, Zenon DEF FrameMatchesStruct
<1>1. CASE at = "isr_handler"
  <2>1. PICK v \in Exceptions : Frame(v) /\ regs.eip = W("at", Stubbed(v))
    BY <1>1 DEF IInv, AtIsr
  <2>2. v \in 0..46
    BY InterruptConstants
  <2> QED
    BY <2>1, <2>2
<1>2. CASE at = "irq_handler"
  <2>1. PICK l \in 0..14 : Frame(32 + l) /\ regs.eip = W("at", Stubbed(32 + l))
    BY <1>2 DEF IInv, AtIrq
  <2>2. PICK v \in 0..46 : v = 32 + l
    OBVIOUS
  <2> QED
    BY <2>1, <2>2
<1> QED
  BY <1>1, <1>2

LEMMA InvTransparent == IInv => IrqTransparent
<1> SUFFICES ASSUME IInv, at = "code"
             PROVE  IF lost THEN ~IfSet /\ cpl = 0 ELSE Here = interrupted /\ in_service = {}
  BY DEF IrqTransparent
<1>1. CASE lost
  <2>1. cpl = 0 /\ FlagsIn(regs.eflags, Disabled)
    BY <1>1 DEF IInv, AtCode
  <2>2. PICK n \in Disabled : regs.eflags = W("flags", n)
    BY <2>1 DEF FlagsIn
  <2>3. regs.eflags[2] = n
    BY <2>2, WordParts
  <2>4. ~IfSet
    BY <2>3, FlagNumbers DEF IfSet
  <2> QED
    BY <1>1, <2>1, <2>4
<1>2. CASE ~lost
  BY <1>2 DEF IInv, AtCode
<1> QED
  BY <1>1, <1>2

LEMMA InvEnds == IInv => ExceptionsEndThere
<1> SUFFICES ASSUME IInv, raised PROVE ExceptionsEndThere
  BY DEF ExceptionsEndThere
<1>1. at # "code"
  BY DEF IInv, AtCode
<1>2. PICK l \in Nat, k \in Nat : l = Len(stack) /\ k = Len(interrupted.stack)
  <2>1. stack \in Seq(Words) /\ interrupted \in Contexts
    BY DEF IInv, TypeOK, Always
  <2> QED
    BY <2>1, SeqLen, PushedIs
<1> SUFFICES l <= k + 42
  <2>1. k + 5 + 3 * 11 + 2 * 2 = k + 42
    OBVIOUS
  <2> QED
    BY <1>1, <1>2, <2>1, Zenon DEF ExceptionsEndThere
<1>3. ASSUME NEW n \in 0..42, NEW m \in 0..42, Above(n, m) PROVE l <= k + 42
  <2>1. l <= k + m
    BY <1>2, <1>3, Zenon DEF Above
  <2> QED
    BY <2>1
<1>4. CASE at = "stub"
  <2>1. CASE Again
    BY <1>3, <2>1 DEF Again
  <2>2. ASSUME NEW v \in 0..47, First(v) PROVE l <= k + 42
    <3>1. PICK p, c : c = interrupted /\ c \in Contexts /\ p = Pushed(c)
      BY DEF IInv, Always
    <3>2. Len(p) \in Nat /\ Len(p) <= k + 5 /\ p \in Seq(Words)
      BY <1>2, <3>1, PushedIs
    <3>3. stack = p \o (IF v \in WithErrorCode THEN << W("err", v) >> ELSE <<>>)
      BY <2>2, <3>1, Zenon DEF First
    <3>4. Len(stack) <= Len(p) + 1
      <4>1. PICK Ws : Ws = Words
        OBVIOUS
      <4>2. p \in Seq(Ws)
        BY <3>2, <4>1
      <4>3. ASSUME NEW S, NEW s \in Seq(S), NEW x, Len(s) \in Nat
            PROVE  Len(s \o <<x>>) <= Len(s) + 1 /\ Len(s \o <<>>) <= Len(s) + 1
        BY <4>3
      <4>4. \A x : Len(p \o <<x>>) <= Len(p) + 1 /\ Len(p \o <<>>) <= Len(p) + 1
        BY <3>2, <4>2, <4>3
      <4> QED
        BY <3>3, <4>4, Zenon
    <3> QED
      BY <1>2, <3>2, <3>4
  <2> QED
    BY <1>4, <2>1, <2>2 DEF IInv, AtStub
<1>5. CASE at = "isr_handler"
  <2>1. CASE prev_int = -1
    <3>1. l <= k + 16
      BY <1>2, <1>5, <2>1, Zenon DEF IInv, AtIsr
    <3> QED
      BY <3>1
  <2>2. CASE prev_int # -1
    BY <1>3, <1>5, <2>2 DEF IInv, AtIsr
  <2> QED
    BY <2>1, <2>2
<1>6. CASE at = "isr_pop"
  BY <1>3, <1>6 DEF IInv, AtIsrPop
<1>7. CASE at = "isr_iret"
  BY <1>3, <1>7 DEF IInv, AtIsrIret
<1>8. CASE at \in {"hung", "panic"}
  BY <1>2, <1>8, Zenon DEF IInv, AtEnd
<1>9. /\ at \notin {"irq_handler", "irq_pop", "irq_iret", "other_interrupt"}
      /\ at \in Places
  BY DEF IInv, TypeOK, AtIrq, AtIrqIret, AtOther
<1> QED
  BY <1>1, <1>4, <1>5, <1>6, <1>7, <1>8, <1>9 DEF Places

-----------------------------------------------------------------------------
(* Theorems *)

\* From any place, whatever exceptions and interrupts came before, the stack, the
\* registers and the lines in service are what the place expects (IInv).
THEOREM InterruptInvariant == Spec => []IInv
<1>1. Init => IInv
  BY InitInv
<1>2. IInv /\ [Next]_vars => IInv'
  BY StepInv
<1> QED
  BY <1>1, <1>2, PTL DEF Spec

\* Registers and stack hold words, and the processor is in ring 0 or 3.
THEOREM TypeCorrect == Spec => []TypeOK
<1>1. IInv => TypeOK
  BY DEF IInv
<1> QED
  BY <1>1, InterruptInvariant, PTL

\* Each selector the kernel loads names the segment it is meant to name, as the
\* processor unpacks what gdt_create_entry packed.
THEOREM SelectorsAreUsable == Spec => []SelectorsUsable
<1>1. IInv => SelectorsUsable
  BY Usable DEF IInv, Always
<1> QED
  BY <1>1, InterruptInvariant, PTL

\* isr_handler and irq_handler read the interrupted context in their struct
\* idt_registers, for every vector with and without an error code.
THEOREM FramesMatchStruct == Spec => []FrameMatchesStruct
BY InterruptInvariant, InvFrame, PTL

\* The stubs and irq_handler give the interrupted code back what it had and leave
\* no line in service; after line 15 no interrupt comes any more.
THEOREM InterruptsAreTransparent == Spec => []IrqTransparent
BY InterruptInvariant, InvTransparent, PTL

\* No code resumes after an exception, and the faults of the exception stub itself
\* leave at most three frames on the stack.
THEOREM ExceptionsEnd == Spec => []ExceptionsEndThere
BY InterruptInvariant, InvEnds, PTL
=============================================================================

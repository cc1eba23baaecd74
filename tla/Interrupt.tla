------------------------------ MODULE Interrupt ------------------------------
(***************************************************************************)
(* Interrupts and exceptions, word by word: what the processor pushes, the *)
(* stubs push, the handlers read and the stubs pop, on the stack of one    *)
(* kernel context or below one user context.  Which other task a timer     *)
(* interrupt may leave to is Task's subject; here handlers return.         *)
(*                                                                         *)
(* A word is a kind and a number: a selector, the flags, an interrupt      *)
(* number, or a value named after the register the interrupted code had it *)
(* in, of which nothing is known.  The stack's top is its end.  es stands  *)
(* for es, fs and gs.  task_update_trapframe changes none of this.         *)
(***************************************************************************)
EXTENDS Descriptors, SequencesExt, TLC

CONSTANTS
  Vectors,    \* entries of the interrupt table (256)
  Exceptions, \* exceptions that code can raise
  Arithmetic, \* values of the flags that instructions set
  StubAddr,   \* address of isr0; the other stubs follow
  OtherAddr   \* address of other_interrupt

\* Alignment checks (17) are off and control protection (21) does not exist on
\* the processors the kernel is for.  Bits 3 and 5 of the flags are always clear,
\* bit 1 is always set and bit 9 enables interrupts: no instruction's result.
ASSUME InterruptConstants ==
  /\ Vectors \in Nat /\ Vectors > 48
  /\ Exceptions \subseteq (0..31) \ {17, 21}
  /\ Arithmetic \subseteq Nat
  /\ \A f \in Arithmetic, w \in {2, 8, 32, 512} : ~Bit(f, w)
  /\ StubAddr \in Nat /\ StubAddr + 48 <= OtherAddr
  /\ OtherAddr \in Nat /\ OtherAddr < Half * Half

Lines == 0..15
IF_   == 512                    \* the interrupt flag; bit 1 is always set

VARIABLES
  boot,          \* kmain's next call that matters here
  gdt, idt, idt_handlers, prev_int,
  at,            \* see Places
  cpl, regs, stack,
  in_service,    \* lines in service; line 2 is the second PIC
  interrupted,   \* history: the context an interrupt or exception came to
  lost,          \* history: line 15 interrupted
  raised         \* history: an exception was raised

machine == <<cpl, regs, stack>>
vars    == <<boot, gdt, idt, idt_handlers, prev_int, at, machine, in_service,
             interrupted, lost, raised>>

Places == {"code", "stub", "isr_handler", "isr_pop", "isr_iret", "irq_handler",
           "irq_pop", "irq_iret", "other_interrupt", "hung", "panic"}

W(kind, n) == <<kind, n>>
Sel(n)     == W("sel", n)

-----------------------------------------------------------------------------
(* The code that is interrupted *)

Callers == << W("caller", 1), W("caller", 2), W("caller", 3) >>

Registers == {"eax", "ecx", "edx", "ebx", "ebp", "esi", "edi", "eip", "ds", "es", "cs", "eflags"}

Context(level, stk, ds, es, cs, flags) ==
  [cpl   |-> level, stack |-> stk,
   regs  |-> [r \in Registers |-> CASE r = "ds" -> Sel(ds) [] r = "es" -> Sel(es) [] r = "cs" -> Sel(cs)
                                    [] r = "eflags" -> W("flags", flags) [] OTHER -> W(r, level)]]

KernelContext(flags) ==
  Context(0, Callers, GDT_KERNEL_DATA_SEG, GDT_KERNEL_DATA_SEG, GDT_KERNEL_CODE_SEG, flags)

\* Ring 3 has its stack elsewhere; the kernel stack is empty.
UserContext(flags) == Context(3, <<>>, GDT_USER_DATA_SEG, 0, GDT_USER_CODE_SEG, flags)

Here  == [cpl |-> cpl, stack |-> stack, regs |-> regs]
IfSet == Bit(regs.eflags[2], IF_)

Enter(c) == cpl' = c.cpl /\ stack' = c.stack /\ regs' = c.regs

\* gdt_init_asm has run; interrupts are off.
Init ==
  /\ boot = "interrupt_init"
  /\ gdt = gdt_init
  /\ idt = [v \in 0..Vectors - 1 |-> NoGate]
  /\ idt_handlers = [v \in 0..Vectors - 1 |-> "NULL"]
  /\ prev_int = -1
  /\ at = "code"
  /\ cpl = 0 /\ stack = Callers /\ regs = KernelContext(2).regs
  /\ in_service = {}
  /\ interrupted = KernelContext(2) /\ lost = FALSE /\ raised = FALSE

\* Code computes: it is in ring 0 or, once tasks run, in ring 3.
Compute ==
  /\ at = "code" /\ IfSet /\ ~raised
  /\ \E f \in Arithmetic :
       \/ Enter(KernelContext(2 + IF_ + f))
       \/ boot = "kshell" /\ Enter(UserContext(2 + IF_ + f))
  /\ interrupted' = [cpl |-> cpl', stack |-> stack', regs |-> regs']
  /\ UNCHANGED <<boot, gdt, idt, idt_handlers, prev_int, at, in_service, lost, raised>>

-----------------------------------------------------------------------------
(* Set-up *)

Boot(call, next) == at = "code" /\ cpl = 0 /\ boot = call /\ boot' = next

\* Fault: the loop for the unused vectors starts at 32.
LastVector_early == 32

LastVector == 47

\* The table's stubs, and other_interrupt from its last entry on.
interrupt_init ==
  /\ Boot("interrupt_init", "paging_init")
  /\ idt' = [v \in 0..Vectors - 1 |->
               idt_entry(IF v < LastVector THEN StubAddr + v ELSE OtherAddr,
                         GDT_KERNEL_CODE_SEG, InterruptGate)]
  /\ idt_handlers' = [v \in 0..Vectors - 1 |->
                        IF v < LastVector THEN "NULL" ELSE "other_interrupt"]
  /\ in_service' = {}
  /\ regs' = [regs EXCEPT !.eflags = W("flags", 2 + IF_)]
  /\ interrupted' = [Here EXCEPT !.regs = regs']
  /\ UNCHANGED <<gdt, prev_int, at, cpl, stack, lost, raised>>

Install(v, handler) ==
  /\ idt_handlers' = [idt_handlers EXCEPT ![v] = handler]
  /\ UNCHANGED <<gdt, idt, prev_int, at, machine, in_service, interrupted, lost, raised>>

paging_init   == Boot("paging_init", "keyboard_init") /\ Install(14, "paging_page_fault_handler")
keyboard_init == Boot("keyboard_init", "pic_init") /\ Install(33, "isr_key_press")
pic_init      == Boot("pic_init", "kshell") /\ Install(32, "pic_callback")

-----------------------------------------------------------------------------
(* The processor and the interrupt controllers *)

\* Exceptions for which the processor pushes an error code.
WithErrorCode == {8, 10, 11, 12, 13, 14, 17, 21}

\* The push of registers r, from ring 3 on the stack tss.esp0 names.
Delivered(v, r, s) ==
  /\ stack' = (IF cpl = 3 THEN << Sel(GDT_USER_DATA_SEG), W("user_esp", 0) >> ELSE s)
              \o <<r.eflags, r.cs, r.eip>>
              \o (IF v \in WithErrorCode THEN << W("err", v) >> ELSE <<>>)
  /\ cpl' = 0
  /\ at' = "stub"

Gate(v, r) ==
  [r EXCEPT !.cs = Sel(idt[v].selector), !.eip = W("at", Target(idt[v])),
            !.eflags = W("flags", r.eflags[2] - IF Bit(r.eflags[2], IF_) THEN IF_ ELSE 0)]

Raise(v) ==
  /\ at = "code" /\ boot # "interrupt_init"
  /\ Delivered(v, regs, stack)
  /\ regs' = Gate(v, regs)
  /\ interrupted' = Here
  /\ raised' = TRUE
  /\ UNCHANGED <<boot, gdt, idt, idt_handlers, prev_int, in_service, lost>>

\* A general protection fault in a stub, its registers being r and stack s.
Protection(r, s) ==
  /\ Delivered(13, r, s)
  /\ regs' = Gate(13, r)
  /\ raised' = TRUE

Chain(l)      == IF l < 8 THEN {l} ELSE {2, l}
Blocking(l)   == IF l < 8 THEN 0..l ELSE 0..2 \cup 8..l

\* spurious: the line went away; its controller then holds nothing in service.
Irq(l, spurious) ==
  /\ at = "code" /\ boot # "interrupt_init" /\ IfSet
  /\ l # 2 /\ Blocking(l) \cap in_service = {}
  /\ spurious => l \in {7, 15}
  /\ in_service' = in_service \cup (Chain(l) \ (IF spurious THEN {l} ELSE {}))
  /\ Delivered(32 + l, regs, stack)
  /\ regs' = Gate(32 + l, regs)
  /\ interrupted' = Here
  /\ lost' = (lost \/ l = 15)
  /\ UNCHANGED <<boot, gdt, idt, idt_handlers, prev_int, raised>>

\* Non-specific end of interrupt, to the controller of lines ls.
EOI(service, ls) ==
  IF service \cap ls = {} THEN service ELSE service \ {Min(service \cap ls)}

-----------------------------------------------------------------------------
(* Stubs *)

\* pushad's order; popad takes them back and leaves esp alone.
Pushad == <<"eax", "ecx", "edx", "ebx", "esp", "ebp", "esi", "edi">>

\* Fault: the page fault's stub pushes an error code of its own.
ISR_REG_unlisted == {8, 10, 11, 12, 13}

\* Stubs of exceptions that come with an error code.
ISR_REG == {8, 10, 11, 12, 13, 14}

Numbered(v) ==
  (IF v \in ISR_REG THEN <<>> ELSE << W("err", 0) >>) \o << W("int", v) >>

\* pushad; push ds
SaveRegs(s) ==
  s \o [i \in 1..8 |-> IF Pushad[i] = "esp" THEN W("esp", Len(s)) ELSE regs[Pushad[i]]]
    \o <<regs.ds>>

\* From the gate's target to the call of the C handler.
Stub ==
  LET v == regs.eip[2] - StubAddr IN
  /\ at = "stub"
  /\ IF regs.eip = W("at", OtherAddr)
     THEN at' = "other_interrupt" /\ UNCHANGED <<stack, regs>>
     ELSE /\ stack' = SaveRegs(stack \o Numbered(v))
          /\ regs' = [regs EXCEPT !.ds = Sel(GDT_KERNEL_DATA_SEG), !.es = Sel(GDT_KERNEL_DATA_SEG)]
          /\ at' = IF v < 32 THEN "isr_handler" ELSE "irq_handler"
  /\ UNCHANGED <<boot, gdt, idt, idt_handlers, prev_int, cpl, in_service, interrupted, lost, raised>>

Top(n) == stack[Len(stack) - n]
Pop(n) == SubSeq(stack, 1, Len(stack) - n)

\* struct idt_registers, from the top of the stack upwards.
idt_registers == <<"ds", "edi", "esi", "ebp", "esp", "ebx", "edx", "ecx", "eax",
                   "int_no", "err_code", "eip", "cs", "eflags", "useresp", "ss">>
Arg(field)    == Top((CHOOSE i \in 1..16 : idt_registers[i] = field) - 1)

\* A C function keeps ebx, esi, edi and ebp only; interrupts are off.
Scratch(r, f) == [r EXCEPT !.eax = W("any", 0), !.ecx = W("any", 0), !.edx = W("any", 0),
                           !.eflags = W("flags", 2 + f)]

\* popad with the top n words gone, into registers r.
Popad(r, n) ==
  [x \in DOMAIN r |->
     IF \E i \in 1..8 : Pushad[i] = x
     THEN Top(n + 8 - CHOOSE i \in 1..8 : Pushad[i] = x) ELSE r[x]]

-----------------------------------------------------------------------------
(* Exceptions *)

\* Fault: the number is not remembered.
isr_handler_forgetful ==
  LET int_no == Arg("int_no")[2] IN
  /\ at = "isr_handler"
  /\ at' = CASE int_no = prev_int -> "hung"
             [] int_no # prev_int -> IF idt_handlers[int_no] = "NULL" THEN "isr_pop" ELSE "panic"
  /\ \E f \in Arithmetic : regs' = Scratch(regs, f)
  /\ UNCHANGED <<boot, gdt, idt, idt_handlers, prev_int, cpl, stack, in_service, interrupted, lost, raised>>

\* Loops forever on the second of two equal numbers; the page fault's handler,
\* the only one installed, panics.
isr_handler ==
  LET int_no == Arg("int_no")[2] IN
  /\ at = "isr_handler"
  /\ at' = CASE int_no = prev_int -> "hung"
             [] int_no # prev_int -> IF idt_handlers[int_no] = "NULL" THEN "isr_pop" ELSE "panic"
  /\ prev_int' = int_no
  /\ \E f \in Arithmetic : regs' = Scratch(regs, f)
  /\ UNCHANGED <<boot, gdt, idt, idt_handlers, cpl, stack, in_service, interrupted, lost, raised>>

\* Fault: what is popped is what was pushed, and iret resumes the faulty code.
isr_pop_balanced ==
  /\ at = "isr_pop"
  /\ regs' = Popad([regs EXCEPT !.ds = Top(0)], 1)
  /\ stack' = Pop(11)
  /\ at' = "isr_iret"
  /\ UNCHANGED <<boot, gdt, idt, idt_handlers, prev_int, cpl, in_service, interrupted, lost, raised>>

\* pop ebx, into the segment registers; pop ds, which takes the word of edi and
\* faults if that is no selector; popad, one word late.
isr_pop ==
  LET loaded == [regs EXCEPT !.ebx = Top(0), !.ds = Top(0), !.es = Top(0)] IN
  /\ at = "isr_pop"
  /\ \/ Protection(loaded, Pop(1))
     \/ /\ regs' = Popad([loaded EXCEPT !.ds = Top(1)], 2)
        /\ stack' = Pop(12)
        /\ at' = "isr_iret"
        /\ UNCHANGED <<cpl, raised>>
  /\ UNCHANGED <<boot, gdt, idt, idt_handlers, prev_int, in_service, interrupted, lost>>

Nulled(r, level) ==
  LET keep(w) == IF w[1] = "sel" /\ ~NullSel(w[2]) /\ Dpl(gdt[Entry(w[2])]) < level
                 THEN Sel(0) ELSE w IN
  [r EXCEPT !.ds = keep(r.ds), !.es = keep(r.es)]

\* sti; iret: three words, five to an outer ring, which also loses its hold on
\* inner segments; a fault if the second is no code segment to return to.
Iret ==
  LET cs  == Top(1)
      on  == [regs EXCEPT !.eflags = W("flags", regs.eflags[2] + IF_)]
      new == [regs EXCEPT !.eip = Top(0), !.cs = cs, !.eflags = Top(2)] IN
  /\ at \in {"isr_iret", "irq_iret"}
  /\ IF ReturnTarget(gdt, cs[2], cpl)
     THEN /\ cpl' = Rpl(cs[2])
          /\ stack' = Pop(IF Rpl(cs[2]) > cpl THEN 5 ELSE 3)
          /\ regs' = IF Rpl(cs[2]) > cpl THEN Nulled(new, Rpl(cs[2])) ELSE new
          /\ at' = "code"
          /\ UNCHANGED raised
     ELSE Protection(on, stack)
  /\ UNCHANGED <<boot, gdt, idt, idt_handlers, prev_int, in_service, interrupted, lost>>

-----------------------------------------------------------------------------
(* Interrupts *)

Acknowledged(int_no) ==
  EOI(IF int_no >= 40 THEN EOI(in_service, 8..15) ELSE in_service, 0..7)

\* isr_key_press sends a second end of interrupt, unless it returns early.
irq_handler ==
  LET int_no == Arg("int_no")[2]
      acked  == Acknowledged(int_no) IN
  /\ at = "irq_handler"
  /\ \/ in_service' = acked
     \/ idt_handlers[int_no] = "isr_key_press" /\ in_service' = EOI(acked, 0..7)
  /\ \E f \in Arithmetic : regs' = Scratch(regs, f)
  /\ at' = "irq_pop"
  /\ UNCHANGED <<boot, gdt, idt, idt_handlers, prev_int, cpl, stack, interrupted, lost, raised>>

\* pop ds; popad; add esp, 8
irq_pop ==
  /\ at = "irq_pop"
  /\ regs' = Popad([regs EXCEPT !.ds = Top(0)], 1)
  /\ stack' = Pop(11)
  /\ at' = "irq_iret"
  /\ UNCHANGED <<boot, gdt, idt, idt_handlers, prev_int, cpl, in_service, interrupted, lost, raised>>

\* A C function without a stub: it returns with ret, to the interrupted code,
\* in ring 0 and with interrupts off; two words stay on the stack.
other_interrupt ==
  /\ at = "other_interrupt"
  /\ \E f \in Arithmetic : regs' = [Scratch(regs, f) EXCEPT !.eip = Top(0)]
  /\ stack' = Pop(1)
  /\ at' = "code"
  /\ UNCHANGED <<boot, gdt, idt, idt_handlers, prev_int, cpl, in_service, interrupted, lost, raised>>

-----------------------------------------------------------------------------
Kernel == Stub \/ isr_handler \/ isr_pop \/ Iret \/ irq_handler \/ irq_pop \/ other_interrupt

Next ==
  \/ Compute
  \/ interrupt_init \/ paging_init \/ keyboard_init \/ pic_init
  \/ \E v \in Exceptions : Raise(v)
  \/ \E l \in Lines, spurious \in BOOLEAN : Irq(l, spurious)
  \/ Kernel

\* Handlers run undisturbed with interrupts off: a step that can be taken is.
Spec == Init /\ [][Next]_vars /\ WF_vars(Kernel)

-----------------------------------------------------------------------------
(* Properties *)

Kinds == {"caller", "sel", "flags", "user_esp", "err", "int", "esp", "any", "at",
          "eax", "ecx", "edx", "ebx", "ebp", "esi", "edi", "eip"}
Words == Kinds \X Nat

TypeOK ==
  /\ at \in Places /\ cpl \in {0, 3} /\ prev_int \in -1..31
  /\ stack \in Seq(Words) /\ regs \in [Registers -> Words]
  /\ in_service \subseteq Lines /\ lost \in BOOLEAN /\ raised \in BOOLEAN

\* The selectors the kernel uses name the segments it means them to name, as the
\* processor reads the packed descriptors: flat code and data for the kernel and
\* for ring 3, and the task state segment.
SelectorsUsable ==
  LET flat(d) == Base(d) = 0 /\ Limit(d) = FullLimit /\ Flags(d) = 12
      d(sel)  == gdt[Entry(sel)] IN
  /\ \A sel \in {GDT_KERNEL_CODE_SEG, GDT_USER_CODE_SEG} :
       flat(d(sel)) /\ ReturnTarget(gdt, sel, 0)
  /\ \A sel \in {GDT_KERNEL_DATA_SEG, GDT_USER_DATA_SEG} :
       flat(d(sel)) /\ IsData(d(sel)) /\ Loadable(gdt, sel, Rpl(sel))
  /\ LET tss == d(GDT_TSS_SEG) IN
     Present(tss) /\ IsTss(tss) /\ Base(tss) = TssRegion /\ Limit(tss) >= TssSize - 1

\* When a C handler starts, the words of struct idt_registers are the interrupted
\* context's, whichever stub built it and whether or not the processor pushed an
\* error code.
FrameMatchesStruct ==
  at \in {"isr_handler", "irq_handler"} /\ (raised => prev_int = -1) =>
    /\ \A r \in {"ds", "edi", "esi", "ebp", "ebx", "edx", "ecx", "eax", "eip", "cs", "eflags"} :
         Arg(r) = interrupted.regs[r]
    /\ interrupted.cpl = 3 => Arg("useresp") = W("user_esp", 0) /\ Arg("ss") = Sel(GDT_USER_DATA_SEG)
    /\ Arg("int_no") = W("int", regs.eip[2] - StubAddr)

\* After an interrupt the interrupted code has its registers, flags, ring and
\* stack as before, and no line is left in service; only line 15 is different,
\* and then no interrupt comes any more.
IrqTransparent ==
  at = "code" =>
    IF lost THEN ~IfSet /\ cpl = 0
    ELSE Here = interrupted /\ in_service = {}

\* No code is resumed after an exception, and what repeated exceptions in the
\* stub leave on the stack is bounded: three frames.
ExceptionsEndThere ==
  raised => at # "code" /\ Len(stack) <= Len(interrupted.stack) + 5 + 3 * 11 + 2 * 2

\* Every exception ends in the loop of isr_handler or in a panic.
ExceptionStops == raised ~> at \in {"hung", "panic"}
=============================================================================

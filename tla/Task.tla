-------------------------------- MODULE Task --------------------------------
(***************************************************************************)
(* Preemptive multitasking: kmain's set-up of the tasks, the interrupt     *)
(* stubs that save the interrupted context on a kernel stack, the timer    *)
(* handler that runs the scheduler, and the switch that resumes the next   *)
(* task from its saved trap frame.                                         *)
(*                                                                         *)
(* Gates are interrupt gates (flags 0x8E) and the stubs start with cli, so *)
(* a handler runs to its iret with interrupts off: one IRQ is one action.  *)
(* Between IRQs the interrupted code calls, returns and computes at will.  *)
(*                                                                         *)
(* Memory is what the stacks hold.  Stack s belongs to task s (1 is the    *)
(* boot stack, the others are pages from vmm_alloc_page); stack 0 is the   *)
(* memory under address 0, where tss.esp0 points until it is first set.    *)
(* A slot of a stack is large enough for one trap frame.                   *)
(***************************************************************************)
EXTENDS Integers, FiniteSetsExt

CONSTANTS
  MaxTasks,  \* bound: struct task allocations (kmain makes three)
  MaxDepth,  \* bound: nesting of calls a kernel stack is used for
  TickMod    \* range of the tick counter (2^32 in the code)

ASSUME TaskConstants ==
  /\ MaxTasks \in Nat \ {0}
  /\ MaxDepth \in Nat
  /\ TickMod \in Nat \ {0}

NULL     == 0
Tid      == 1..MaxTasks          \* addresses of struct task, in kmalloc order
BootTask == 1

IRQ_TIMER    == 0
IRQ_KEYBOARD == 1
Lines        == {IRQ_TIMER, IRQ_KEYBOARD}

Handlers == {"none", "pic_callback", "isr_key_press"}
Phases   == {"interrupt_init", "task_init", "task_create", "keyboard_init",
             "pic_init", "kshell"}

\* The registers a trap frame holds: whose code they belong to, where it is
\* (two values tell apart any two successive points), the privilege level and
\* the interrupt flag.
Context == [own : 0..MaxTasks, pc : 0..1, user : BOOLEAN, ints : BOOLEAN]
Slot    == (0..MaxTasks) \X (1..MaxDepth + 1)
Data    == [own |-> NULL, pc |-> 0, user |-> FALSE, ints |-> FALSE]

Struct == [pid : Nat, is_user : BOOLEAN, next_task : 0..MaxTasks,
           trapframe : Slot, kernel_stack_base : 0..MaxTasks]
Zeroed == [pid |-> 0, is_user |-> FALSE, next_task |-> NULL,
           trapframe |-> <<0, 1>>, kernel_stack_base |-> 0]

VARIABLES
  boot,                   \* the next initialisation call of kmain
  idt_handlers,           \* C handler installed for each line
  in_service,             \* lines the PIC holds in service
  scheduler_initialized,
  ntasks,                 \* struct task allocations so far
  task,                   \* the structs
  current_task, task_list_head, task_list_tail,
  tss_esp0,               \* kernel stack the CPU switches to from ring 3
  tick,
  cpu,                    \* the registers
  sp,                     \* <<stack, slots in use>> while in ring 0
  stack,                  \* contents of every stack slot
  last                    \* history: context each task was last stopped at

vars == <<boot, idt_handlers, in_service, scheduler_initialized, ntasks, task,
          current_task, task_list_head, task_list_tail, tss_esp0, tick, cpu,
          sp, stack, last>>

listVars  == <<ntasks, task_list_head, task_list_tail>>
setupVars == <<boot, idt_handlers, scheduler_initialized>>
runVars   == <<cpu, sp, stack>>

Init ==
  /\ boot = "interrupt_init"
  /\ idt_handlers = [l \in Lines |-> "none"]
  /\ in_service = {}
  /\ scheduler_initialized = FALSE
  /\ ntasks = 0
  /\ task = [t \in Tid |-> Zeroed]
  /\ current_task = NULL /\ task_list_head = NULL /\ task_list_tail = NULL
  /\ tss_esp0 = 0
  /\ tick = 0
  /\ cpu = [own |-> BootTask, pc |-> 0, user |-> FALSE, ints |-> FALSE]
  /\ sp = <<BootTask, 0>>
  /\ stack = [s \in Slot |-> Data]
  /\ last = [t \in Tid |-> Data]

-----------------------------------------------------------------------------
(* kmain, running as the boot task *)

InKmain(phase) == boot = phase /\ cpu.own = BootTask

interrupt_init ==
  /\ InKmain("interrupt_init")
  /\ idt_handlers' = [l \in Lines |-> "none"]
  /\ cpu' = [cpu EXCEPT !.ints = TRUE]
  /\ boot' = "task_init"
  /\ UNCHANGED <<in_service, scheduler_initialized, task, current_task,
                 tss_esp0, tick, sp, stack, last, listVars>>

task_init ==
  /\ InKmain("task_init")
  /\ ntasks' = 1
  /\ task' = [task EXCEPT ![BootTask] = [Zeroed EXCEPT !.next_task = BootTask]]
  /\ current_task' = BootTask
  /\ task_list_head' = BootTask
  /\ task_list_tail' = BootTask
  /\ boot' = "task_create"
  /\ UNCHANGED <<idt_handlers, in_service, scheduler_initialized, tss_esp0,
                 tick, last, runVars>>

\* The part task_create_kernel and task_create_user share: a zeroed struct
\* whose initial trap frame sits at the top of a stack page of its own,
\* appended to the circular list.
InitialFrame(new, user) == [own |-> new, pc |-> 0, user |-> user, ints |-> FALSE]

\* Fault: the new task is not linked back to the head of the list.
task_create_open_ended(user) ==
  LET new == ntasks + 1 IN
  /\ InKmain("task_create") /\ ~scheduler_initialized
  /\ ntasks < MaxTasks
  /\ ntasks' = new
  /\ task' = [task EXCEPT
       ![new] = [Zeroed EXCEPT !.pid = task[task_list_tail].pid + 1,
                               !.is_user = user, !.trapframe = <<new, 1>>,
                               !.kernel_stack_base = new],
       ![task_list_tail].next_task = new]
  /\ task_list_tail' = new
  /\ stack' = [stack EXCEPT ![<<new, 1>>] = InitialFrame(new, user)]
  /\ last' = [last EXCEPT ![new] = InitialFrame(new, user)]
  /\ UNCHANGED <<in_service, current_task, task_list_head, tss_esp0, tick, cpu,
                 sp, setupVars>>

task_create(user) ==
  LET new == ntasks + 1 IN
  /\ InKmain("task_create") /\ ~scheduler_initialized
  /\ ntasks < MaxTasks
  /\ ntasks' = new
  /\ task' = [task EXCEPT
       ![new] = [pid |-> task[task_list_tail].pid + 1, is_user |-> user,
                 next_task |-> task_list_head, trapframe |-> <<new, 1>>,
                 kernel_stack_base |-> new],
       ![task_list_tail].next_task = new]
  /\ task_list_tail' = new
  /\ stack' = [stack EXCEPT ![<<new, 1>>] = InitialFrame(new, user)]
  /\ last' = [last EXCEPT ![new] = InitialFrame(new, user)]
  /\ UNCHANGED <<in_service, current_task, task_list_head, tss_esp0, tick, cpu,
                 sp, setupVars>>

task_create_kernel == task_create(FALSE)
task_create_user   == task_create(TRUE)

scheduler_init ==
  /\ InKmain("task_create") /\ ~scheduler_initialized
  /\ scheduler_initialized' = TRUE
  /\ boot' = "keyboard_init"
  /\ UNCHANGED <<idt_handlers, in_service, task, current_task, tss_esp0, tick,
                 last, listVars, runVars>>

keyboard_init ==
  /\ InKmain("keyboard_init")
  /\ idt_handlers' = [idt_handlers EXCEPT ![IRQ_KEYBOARD] = "isr_key_press"]
  /\ boot' = "pic_init"
  /\ UNCHANGED <<in_service, scheduler_initialized, task, current_task,
                 tss_esp0, tick, last, listVars, runVars>>

pic_init ==
  /\ InKmain("pic_init")
  /\ idt_handlers' = [idt_handlers EXCEPT ![IRQ_TIMER] = "pic_callback"]
  /\ boot' = "kshell"
  /\ UNCHANGED <<in_service, scheduler_initialized, task, current_task,
                 tss_esp0, tick, last, listVars, runVars>>

kmain == \/ interrupt_init \/ task_init \/ task_create_kernel
         \/ task_create_user \/ scheduler_init \/ keyboard_init \/ pic_init

-----------------------------------------------------------------------------
(* Task code between interrupts *)

Advanced == [cpu EXCEPT !.pc = 1 - @]

Call ==
  /\ ~cpu.user /\ sp[2] < MaxDepth
  /\ stack' = [stack EXCEPT ![<<sp[1], sp[2] + 1>>] = Data]
  /\ sp' = <<sp[1], sp[2] + 1>>
  /\ cpu' = Advanced
  /\ UNCHANGED <<in_service, task, current_task, tss_esp0, tick, last,
                 listVars, setupVars>>

Return ==
  /\ ~cpu.user /\ sp[2] > 0
  /\ sp' = <<sp[1], sp[2] - 1>>
  /\ cpu' = Advanced
  /\ UNCHANGED <<in_service, task, current_task, tss_esp0, tick, stack, last,
                 listVars, setupVars>>

task_userspace ==
  /\ cpu.user
  /\ cpu' = Advanced
  /\ UNCHANGED <<in_service, task, current_task, tss_esp0, tick, sp, stack,
                 last, listVars, setupVars>>

-----------------------------------------------------------------------------
(* Interrupt delivery, the stubs and the handlers *)

\* 8259 in fully nested mode: a line is held back by itself and by the more
\* urgent lines in service; a non-specific EOI retires the most urgent one.
Deliverable(l) == cpu.ints /\ \A k \in in_service : k > l
EOI(S)         == IF S = {} THEN S ELSE S \ {Min(S)}

\* Where the CPU and the stub leave the frame: on the stack in use, or at the
\* top of tss.esp0's stack when ring 3 was interrupted.
FrameSlot == IF cpu.user THEN <<tss_esp0, 1>> ELSE <<sp[1], sp[2] + 1>>

Pushed == [stack EXCEPT ![FrameSlot] = cpu]

\* Fault: the stub does not record where it left the frame.
task_update_trapframe_missing == task

task_update_trapframe ==
  IF current_task = NULL THEN task
  ELSE [task EXCEPT ![current_task].trapframe = FrameSlot]

Stopped == [last EXCEPT ![cpu.own] = cpu]

\* Fault: iret leaves the stack pointer one frame too high.
PoppedTwice(frame, f) ==
  /\ cpu' = frame
  /\ sp' = IF frame.user THEN <<0, 0>> ELSE <<f[1], f[2] - 2>>

\* Registers and stack after the frame in slot f has been popped by iret.
Popped(frame, f) ==
  /\ cpu' = frame
  /\ sp' = IF frame.user THEN <<0, 0>> ELSE <<f[1], f[2] - 1>>

StubReturn == Popped(cpu, FrameSlot) /\ UNCHANGED <<current_task, tss_esp0>>

\* Fault: current_task keeps naming the task that was stopped.
task_switch_same_task(next) ==
  LET f == task_update_trapframe[next].trapframe IN
  /\ UNCHANGED current_task
  /\ Popped([Pushed[f] EXCEPT !.ints = TRUE], f)

\* Fault: eflags is restored as saved, without "or dword [esp + 8], 0x200".
task_switch_eflags_as_saved(next) ==
  LET f == task_update_trapframe[next].trapframe IN
  /\ current_task' = next
  /\ Popped(Pushed[f], f)

task_switch_asm(next) ==
  LET f == task_update_trapframe[next].trapframe IN
  /\ current_task' = next
  /\ Popped([Pushed[f] EXCEPT !.ints = TRUE], f)

\* Faults: the TSS is never updated; it is given the stack of the task that
\* is being stopped.
gdt_update_tss_missing(next) == UNCHANGED tss_esp0
gdt_update_tss_current(next) ==
  tss_esp0' = IF task[next].is_user THEN task[current_task].kernel_stack_base
              ELSE tss_esp0

gdt_update_tss(next) ==
  tss_esp0' = IF task[next].is_user THEN task[next].kernel_stack_base
              ELSE tss_esp0

SwitchingOn ==
  /\ scheduler_initialized
  /\ current_task # NULL
  /\ task[current_task].next_task # NULL

scheduler ==
  IF SwitchingOn
  THEN /\ gdt_update_tss(task[current_task].next_task)
       /\ task_switch_asm(task[current_task].next_task)
  ELSE StubReturn

pic_callback == tick' = (tick + 1) % TickMod /\ scheduler

\* Fault: the acknowledgement follows the handler, so a switch skips it.
irq_timer_late_eoi ==
  /\ Deliverable(IRQ_TIMER)
  /\ stack' = Pushed
  /\ task' = task_update_trapframe
  /\ last' = Stopped
  /\ \/ /\ idt_handlers[IRQ_TIMER] = "none" /\ StubReturn /\ UNCHANGED tick
        /\ in_service' = EOI(in_service \cup {IRQ_TIMER})
     \/ /\ idt_handlers[IRQ_TIMER] = "pic_callback" /\ pic_callback
        /\ in_service' = in_service \cup {IRQ_TIMER}
  /\ UNCHANGED <<listVars, setupVars>>

\* irq0: irq_handler acknowledges first, because pic_callback may not return.
irq_timer ==
  /\ Deliverable(IRQ_TIMER)
  /\ stack' = Pushed
  /\ task' = task_update_trapframe
  /\ last' = Stopped
  /\ in_service' = EOI(in_service \cup {IRQ_TIMER})
  /\ \/ idt_handlers[IRQ_TIMER] = "none" /\ StubReturn /\ UNCHANGED tick
     \/ idt_handlers[IRQ_TIMER] = "pic_callback" /\ pic_callback
  /\ UNCHANGED <<listVars, setupVars>>

\* irq1: the handler acknowledges once more, except when it leaves early (the
\* 0xe0 prefix byte, ctrl-l).  What it does to the key buffer is in Keyboard.
irq_keyboard ==
  LET acked == EOI(in_service \cup {IRQ_KEYBOARD}) IN
  /\ Deliverable(IRQ_KEYBOARD)
  /\ stack' = Pushed
  /\ task' = task_update_trapframe
  /\ last' = Stopped
  /\ \/ in_service' = acked
     \/ idt_handlers[IRQ_KEYBOARD] = "isr_key_press" /\ in_service' = EOI(acked)
  /\ StubReturn
  /\ UNCHANGED <<tick, listVars, setupVars>>

-----------------------------------------------------------------------------
Next == kmain \/ Call \/ Return \/ task_userspace \/ irq_timer \/ irq_keyboard

Spec == Init /\ [][Next]_vars

\* The PIT keeps raising line 0 and kmain is straight-line code.
FairSpec == Spec /\ WF_vars(irq_timer) /\ WF_vars(kmain)

-----------------------------------------------------------------------------
(* Properties *)

Linked == 1..ntasks
Ready  == Linked \ {current_task}

TypeOK ==
  /\ boot \in Phases
  /\ idt_handlers \in [Lines -> Handlers]
  /\ in_service \in SUBSET Lines
  /\ scheduler_initialized \in BOOLEAN
  /\ ntasks \in 0..MaxTasks
  /\ task \in [Tid -> Struct]
  /\ current_task \in 0..MaxTasks
  /\ task_list_head \in 0..MaxTasks
  /\ task_list_tail \in 0..MaxTasks
  /\ tss_esp0 \in 0..MaxTasks
  /\ tick \in 0..TickMod - 1
  /\ cpu \in Context
  /\ sp \in (0..MaxTasks) \X (0..MaxDepth)
  /\ stack \in [Slot -> Context]
  /\ last \in [Tid -> Context]

\* The trap frame of every task that is waiting for the processor still holds,
\* untouched, the registers the task was stopped with (task_switch_asm will
\* load them), however the other tasks used their stacks in the meantime.
SavedContextIntact == \A t \in Ready : stack[task[t].trapframe] = last[t]

\* The code on the processor is current_task's, at the privilege level the
\* struct says: the trap frame pushed by the next interrupt is stored into the
\* struct of the task it belongs to (task_update_trapframe).
RunsCurrentTask ==
  current_task # NULL => /\ cpu.own = current_task
                         /\ cpu.user = task[current_task].is_user

\* While ring 3 runs, tss.esp0 names the running task's own kernel stack, so
\* the next interrupt's frame cannot land on the frame of a waiting task.
KernelEntryStack ==
  cpu.user => tss_esp0 = task[current_task].kernel_stack_base

\* next_task closes one ring over all tasks in creation order, the list head
\* and tail are its ends and pids count from the boot task's 0.
RingComplete ==
  /\ ntasks > 0 => task_list_head = BootTask /\ task_list_tail = ntasks
  /\ \A t \in Linked : /\ task[t].next_task = IF t = ntasks THEN BootTask ELSE t + 1
                       /\ task[t].pid = t - 1

\* A switch resumes the next task exactly where it was last stopped, with
\* interrupts on.
ResumesWhereStopped ==
  [][current_task # NULL /\ current_task' # current_task
       => cpu' = [last'[current_task'] EXCEPT !.ints = TRUE]]_vars

\* Once kmain has installed the timer handler, every task gets the processor
\* again and again.
NoStarvation ==
  \A t \in Tid : (boot = "kshell" /\ t \in Linked) ~> (current_task = t)

\* The machine implements the abstract round-robin scheduler, fairness included.
RR == INSTANCE RoundRobin
        WITH n <- ntasks, cur <- current_task,
             on <- (idt_handlers[IRQ_TIMER] # "none")
RoundRobinImplemented == RR!FairRRSpec
=============================================================================

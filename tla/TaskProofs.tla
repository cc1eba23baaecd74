----------------------------- MODULE TaskProofs -----------------------------
(***************************************************************************)
(* Proofs about Task for any number of tasks and any depth of the stacks.  *)
(***************************************************************************)
EXTENDS Task, TLAPS

-----------------------------------------------------------------------------
(* The inductive invariant *)

\* There is no task exactly while kmain has not run task_init, and afterwards
\* current_task is one of the linked tasks.
Started ==
  /\ ntasks = 0 <=> boot \in {"interrupt_init", "task_init"}
  /\ ntasks = 0 => current_task = NULL /\ ~cpu.user
  /\ ntasks > 0 => current_task \in Linked

\* The timer handler is installed by the last step of kmain.
TimerLast == idt_handlers[IRQ_TIMER] # "none" => boot = "kshell"

\* The processor runs the current task (the boot code before there is one), in
\* ring 0 on that task's own stack.
Running ==
  /\ cpu.own = IF ntasks = 0 THEN BootTask ELSE current_task
  /\ ~cpu.user => sp[1] = cpu.own

\* A user task's kernel stack is the one allocated with its struct.
OwnBase == \A t \in Linked : task[t].is_user => task[t].kernel_stack_base = t

\* The saved frame of a waiting task is on the task's own stack and holds the
\* context of that task.
OwnFrame ==
  \A t \in Ready : /\ task[t].trapframe[1] = t
                   /\ last[t].own = t
                   /\ last[t].user = task[t].is_user

IInv == /\ TypeOK /\ Started /\ TimerLast /\ RingComplete /\ Running
        /\ RunsCurrentTask /\ KernelEntryStack /\ OwnBase /\ OwnFrame
        /\ SavedContextIntact

-----------------------------------------------------------------------------
(* Type correctness of the pieces the actions are built from *)

\* A struct fresh from kmalloc and memset is a struct; empty memory is a context.
LEMMA ZeroedType == Zeroed \in Struct /\ Data \in Context
<1>1. <<0, 1>> \in Slot
  BY TaskConstants DEF Slot
<1> QED
  BY <1>1, TaskConstants DEF Zeroed, Struct, Data, Context, NULL

\* The slot the stub pushes to is a slot of some stack.
LEMMA FrameSlotType == TypeOK => FrameSlot \in Slot
BY TaskConstants DEF TypeOK, FrameSlot, Slot, Context

\* A frame can be pushed and recorded without leaving the types.
LEMMA PushType ==
  TypeOK => /\ Pushed \in [Slot -> Context]
            /\ task_update_trapframe \in [Tid -> Struct]
            /\ (cpu.own # NULL => Stopped \in [Tid -> Context])
<1> SUFFICES ASSUME TypeOK
             PROVE  /\ Pushed \in [Slot -> Context]
                    /\ task_update_trapframe \in [Tid -> Struct]
                    /\ (cpu.own # NULL => Stopped \in [Tid -> Context])
  OBVIOUS
<1>1. FrameSlot \in Slot /\ cpu \in Context /\ MaxTasks \in Nat
  BY FrameSlotType, TaskConstants DEF TypeOK
<1>2. Pushed \in [Slot -> Context]
  BY <1>1 DEF TypeOK, Pushed
<1>3. task_update_trapframe \in [Tid -> Struct]
  <2>1. CASE current_task = NULL
    BY <2>1 DEF TypeOK, task_update_trapframe
  <2>2. CASE current_task # NULL
    <3>1. current_task \in Tid /\ task[current_task] \in Struct
      BY <1>1, <2>2 DEF TypeOK, Tid, NULL
    <3>2. [task[current_task] EXCEPT !.trapframe = FrameSlot] \in Struct
      BY <1>1, <3>1 DEF Struct
    <3> QED
      BY <2>2, <3>1, <3>2 DEF TypeOK, task_update_trapframe
  <2> QED
    BY <2>1, <2>2
<1>4. cpu.own # NULL => Stopped \in [Tid -> Context]
  <2>1. cpu.own # NULL => cpu.own \in Tid
    BY <1>1 DEF Context, Tid, NULL
  <2> QED
    BY <1>1, <2>1 DEF TypeOK, Stopped
<1> QED
  BY <1>2, <1>3, <1>4

\* The initial state satisfies the invariant: there are no tasks yet.
LEMMA InitIInv == Init => IInv
<1> SUFFICES ASSUME Init PROVE IInv
  OBVIOUS
<1>a. Zeroed \in Struct /\ Data \in Context
  BY ZeroedType
<1>b. cpu \in Context /\ sp \in (0..MaxTasks) \X (0..MaxDepth)
  BY TaskConstants DEF Init, Context, BootTask
<1>c. /\ task \in [Tid -> Struct] /\ stack \in [Slot -> Context]
      /\ last \in [Tid -> Context]
  BY <1>a DEF Init
<1>d. idt_handlers \in [Lines -> Handlers] /\ in_service \in SUBSET Lines
  BY DEF Init, Handlers
<1>e. scheduler_initialized \in BOOLEAN
  BY Zenon DEF Init
<1>f. /\ ntasks \in 0..MaxTasks /\ current_task \in 0..MaxTasks
      /\ task_list_head \in 0..MaxTasks /\ task_list_tail \in 0..MaxTasks
      /\ tss_esp0 \in 0..MaxTasks /\ tick \in 0..TickMod - 1
  BY TaskConstants DEF Init, NULL
<1>1. TypeOK
  BY <1>b, <1>c, <1>d, <1>e, <1>f, Zenon DEF Init, TypeOK, Phases
<1>2. Started /\ TimerLast /\ Running /\ KernelEntryStack
  BY DEF Init, Started, TimerLast, Running, KernelEntryStack, Lines, BootTask,
         IRQ_TIMER, IRQ_KEYBOARD, NULL
<1>3. Linked = {} /\ Ready = {}
  BY DEF Init, Linked, Ready
<1>4. RingComplete /\ RunsCurrentTask /\ OwnBase /\ OwnFrame /\ SavedContextIntact
  BY <1>3
  DEF Init, RingComplete, RunsCurrentTask, OwnBase, OwnFrame, SavedContextIntact, NULL
<1> QED
  BY <1>1, <1>2, <1>4 DEF IInv

-----------------------------------------------------------------------------
(* What the interrupt entry does *)

\* Recording the frame changes one field of one struct.
LEMMA UpdateFields ==
  ASSUME TypeOK
  PROVE  /\ \A t \in Tid :
              /\ task_update_trapframe[t].next_task = task[t].next_task
              /\ task_update_trapframe[t].pid = task[t].pid
              /\ task_update_trapframe[t].is_user = task[t].is_user
              /\ task_update_trapframe[t].kernel_stack_base = task[t].kernel_stack_base
              /\ t # current_task =>
                   task_update_trapframe[t].trapframe = task[t].trapframe
         /\ current_task # NULL =>
              task_update_trapframe[current_task].trapframe = FrameSlot
<1>1. CASE current_task = NULL
  BY <1>1, TaskConstants DEF task_update_trapframe, Tid, NULL
<1>2. CASE current_task # NULL
  <2>1. current_task \in Tid
    BY <1>2 DEF TypeOK, Tid, NULL
  <2>2. task_update_trapframe
          = [task EXCEPT ![current_task].trapframe = FrameSlot]
    BY <1>2 DEF task_update_trapframe
  <2> QED
    BY <2>1, <2>2 DEF TypeOK, Struct
<1> QED
  BY <1>1, <1>2

\* The entry stores the registers in one slot and no other.
LEMMA PushedFrame ==
  ASSUME TypeOK
  PROVE  /\ Pushed[FrameSlot] = cpu
         /\ \A s \in Slot : s # FrameSlot => Pushed[s] = stack[s]
BY FrameSlotType DEF TypeOK, Pushed

\* Once there is a task, the interrupted context is saved on the stack that
\* belongs to the current task: directly in ring 0, through tss.esp0 in ring 3.
LEMMA OwnStack ==
  ASSUME IInv, ntasks > 0
  PROVE  /\ current_task \in Tid /\ current_task # NULL
         /\ cpu.own = current_task
         /\ FrameSlot[1] = current_task
<1>1. current_task \in Linked /\ current_task \in Tid /\ current_task # NULL
  BY TaskConstants DEF IInv, Started, TypeOK, Linked, Tid, NULL
<1>2. cpu.own = current_task
  BY DEF IInv, Running
<1>3. CASE cpu.user
  <2>1. tss_esp0 = current_task
    BY <1>1, <1>3 DEF IInv, KernelEntryStack, RunsCurrentTask, OwnBase
  <2> QED
    BY <1>1, <1>2, <1>3, <2>1 DEF FrameSlot
<1>4. CASE ~cpu.user
  BY <1>1, <1>2, <1>4 DEF IInv, Running, FrameSlot
<1> QED
  BY <1>3, <1>4

-----------------------------------------------------------------------------
(* The invariant is preserved *)

\* The part of an interrupt that every handler shares.
Entered == /\ stack' = Pushed /\ task' = task_update_trapframe /\ last' = Stopped
           /\ UNCHANGED <<listVars, setupVars>>
           /\ in_service' \in SUBSET Lines /\ tick' \in 0..TickMod - 1

\* Saving a frame disturbs no waiting task.
LEMMA EnteredWaiting ==
  ASSUME IInv, Entered, NEW t \in Ready
  PROVE  /\ t \in Tid /\ t \in Linked /\ current_task \in Tid
         /\ task'[t] = task[t]
         /\ last'[t] = last[t]
         /\ stack'[task[t].trapframe] = stack[task[t].trapframe]
<1>1. t \in Tid /\ t \in Linked /\ ntasks > 0 /\ t # current_task
  BY TaskConstants DEF IInv, TypeOK, Ready, Linked, Tid
<1>2. current_task \in Tid /\ current_task # NULL /\ cpu.own = current_task
      /\ FrameSlot[1] = current_task
  BY <1>1, OwnStack
<1>3. task'[t] = task[t]
  BY <1>1, <1>2 DEF Entered, task_update_trapframe, IInv, TypeOK
<1>4. last'[t] = last[t]
  BY <1>1, <1>2 DEF Entered, Stopped, IInv, TypeOK
<1>5. task[t].trapframe # FrameSlot /\ task[t].trapframe \in Slot
  BY <1>1, <1>2 DEF IInv, OwnFrame, TypeOK, Struct
<1>6. stack'[task[t].trapframe] = stack[task[t].trapframe]
  BY <1>5, PushedFrame DEF Entered, IInv
<1> QED
  BY <1>1, <1>2, <1>3, <1>4, <1>6

\* A handler that returns through the stub resumes the interrupted code.
LEMMA StubReturnIInv ==
  ASSUME IInv, Entered, StubReturn
  PROVE  IInv'
<1> USE DEF IInv
<1>1. cpu.own # NULL /\ cpu' = cpu
  BY OwnStack DEF Running, TypeOK, BootTask, NULL, StubReturn, Popped
<1>2. ntasks > 0 => FrameSlot[1] = cpu.own
  BY OwnStack DEF TypeOK
<1>3. ~cpu.user => sp' = sp
  BY DEF StubReturn, Popped, FrameSlot, TypeOK
<1>4. cpu.user => sp' = <<0, 0>>
  BY DEF StubReturn, Popped
<1>5. TypeOK'
  <2>1. sp' \in (0..MaxTasks) \X (0..MaxDepth)
    BY <1>3, <1>4, TaskConstants DEF TypeOK
  <2> QED
    BY <1>1, <2>1, PushType
    DEF TypeOK, Entered, StubReturn, listVars, setupVars
<1>6. \A t \in Tid :
        /\ task'[t].next_task = task[t].next_task
        /\ task'[t].pid = task[t].pid
        /\ task'[t].is_user = task[t].is_user
        /\ task'[t].kernel_stack_base = task[t].kernel_stack_base
  BY UpdateFields DEF Entered
<1>7. /\ UNCHANGED <<boot, idt_handlers, ntasks, current_task, tss_esp0>>
      /\ UNCHANGED <<task_list_head, task_list_tail>>
      /\ Linked' = Linked /\ Ready' = Ready /\ Linked \subseteq Tid
  BY TaskConstants
  DEF Entered, StubReturn, listVars, setupVars, Linked, Ready, TypeOK, Tid
<1>8. Started' /\ TimerLast'
  BY <1>1, <1>7 DEF Started, TimerLast
<1>9. Running'
  BY <1>1, <1>3, <1>7 DEF Running
<1>10. RunsCurrentTask' /\ KernelEntryStack' 
  <2>1. current_task # NULL => current_task \in Tid
    BY DEF TypeOK, Tid, NULL
  <2>2. cpu.user => current_task # NULL
    BY DEF Started, TypeOK, NULL, Linked
  <2> QED
    BY <1>1, <1>6, <1>7, <2>1, <2>2 DEF RunsCurrentTask, KernelEntryStack
<1>11. RingComplete' /\ OwnBase'
  BY <1>6, <1>7 DEF RingComplete, OwnBase
<1>12. OwnFrame' /\ SavedContextIntact'
  BY <1>7, EnteredWaiting DEF OwnFrame, SavedContextIntact
<1> QED
  BY <1>5, <1>8, <1>9, <1>10, <1>11, <1>12

\* Stopping a task adds it to the ones whose saved frame is good: after the
\* entry that holds for every task.
LEMMA AllFramesGood ==
  ASSUME IInv, Entered, ntasks > 0, NEW t \in Linked
  PROVE  /\ t \in Tid
         /\ task'[t].trapframe \in Slot
         /\ task'[t].trapframe[1] = t
         /\ stack'[task'[t].trapframe] = last'[t]
         /\ last'[t] \in Context
         /\ last'[t].own = t
         /\ last'[t].user = task'[t].is_user
<1>1. t \in Tid
  BY TaskConstants DEF IInv, TypeOK, Linked, Tid
<1>2. /\ current_task \in Tid /\ current_task # NULL
      /\ cpu.own = current_task /\ FrameSlot[1] = current_task
  BY OwnStack
<1>3. task'[t].trapframe \in Slot /\ last'[t] \in Context
  BY <1>1, <1>2, PushType DEF Entered, IInv, Struct
<1>4. CASE t = current_task
  <2>1. task'[t].trapframe = FrameSlot /\ task'[t].is_user = task[t].is_user
    BY <1>2, <1>4, UpdateFields DEF Entered, IInv
  <2>2. last'[t] = cpu
    BY <1>2, <1>4 DEF Entered, Stopped, IInv, TypeOK
  <2>3. stack'[FrameSlot] = cpu
    BY PushedFrame DEF Entered, IInv
  <2>4. cpu.user = task[t].is_user
    BY <1>2, <1>4 DEF IInv, RunsCurrentTask
  <2> QED
    BY <1>1, <1>2, <1>3, <1>4, <2>1, <2>2, <2>3, <2>4
<1>5. CASE t # current_task
  <2>1. t \in Ready
    BY <1>5 DEF Ready
  <2> QED
    BY <1>1, <1>3, <2>1, EnteredWaiting DEF IInv, OwnFrame, SavedContextIntact
<1> QED
  BY <1>4, <1>5

\* The successor in the ring is a linked task.
LEMMA Successor ==
  ASSUME IInv, ntasks > 0
  PROVE  /\ task[current_task].next_task \in Linked
         /\ task[current_task].next_task
              = IF current_task = ntasks THEN BootTask ELSE current_task + 1
<1>1. current_task \in Linked /\ ntasks \in Nat
  BY TaskConstants DEF IInv, Started, TypeOK
<1> QED
  BY <1>1 DEF IInv, RingComplete, Linked, BootTask

\* A switch puts the next task of the ring on the processor.
LEMMA SwitchIInv ==
  ASSUME IInv, Entered, NEW next, next = task[current_task].next_task,
         SwitchingOn, gdt_update_tss(next), task_switch_asm(next)
  PROVE  /\ IInv'
         /\ cpu' = [last'[next] EXCEPT !.ints = TRUE]
<1> DEFINE f == task'[next].trapframe
<1>1. ntasks > 0
  <2>1. ntasks \in Nat
    BY TaskConstants DEF IInv, TypeOK
  <2> QED
    BY <2>1 DEF IInv, Started, SwitchingOn
<1>2. next \in Linked /\ Linked \subseteq Tid
  BY <1>1, Successor, TaskConstants DEF IInv, TypeOK, Linked, Tid
<1>3. /\ f \in Slot /\ f[1] = next /\ last'[next] \in Context
      /\ last'[next].own = next /\ last'[next].user = task'[next].is_user
      /\ stack'[f] = last'[next]
  BY <1>1, <1>2, AllFramesGood
<1>4. /\ cpu' = [last'[next] EXCEPT !.ints = TRUE]
      /\ sp' = IF cpu'.user THEN <<0, 0>> ELSE <<f[1], f[2] - 1>>
      /\ current_task' = next
  BY <1>3 DEF task_switch_asm, Entered, Popped
<1>5. cpu' \in Context /\ cpu'.own = next /\ cpu'.user = task'[next].is_user
  BY <1>3, <1>4 DEF Context
<1>6. \A t \in Tid :
        /\ task'[t].next_task = task[t].next_task
        /\ task'[t].pid = task[t].pid
        /\ task'[t].is_user = task[t].is_user
        /\ task'[t].kernel_stack_base = task[t].kernel_stack_base
  BY UpdateFields DEF Entered, IInv
<1>7. /\ UNCHANGED <<boot, idt_handlers, ntasks, task_list_head, task_list_tail>>
      /\ Linked' = Linked /\ Ready' = Linked \ {next}
  BY <1>4 DEF Entered, listVars, setupVars, Linked, Ready
<1>8. TypeOK'
  <2>1. sp' \in (0..MaxTasks) \X (0..MaxDepth)
    <3> HIDE DEF f
    <3>1. f[1] \in 0..MaxTasks /\ f[2] - 1 \in 0..MaxDepth
      BY <1>3, TaskConstants DEF Slot
    <3>2. 0 \in 0..MaxTasks /\ 0 \in 0..MaxDepth
      BY TaskConstants
    <3> QED
      BY <1>4, <3>1, <3>2
  <2>2. tss_esp0' \in 0..MaxTasks /\ current_task' \in 0..MaxTasks
    <3>1. /\ task[next].kernel_stack_base \in 0..MaxTasks
          /\ tss_esp0 \in 0..MaxTasks
      BY <1>2 DEF IInv, TypeOK, Struct
    <3>2. next \in 0..MaxTasks
      BY <1>2, TaskConstants DEF Tid
    <3> QED
      BY <1>4, <3>1, <3>2 DEF gdt_update_tss
  <2>3. cpu.own # NULL
    BY <1>1, OwnStack
  <2> QED
    BY <1>5, <2>1, <2>2, <2>3, PushType
    DEF TypeOK, Entered, listVars, setupVars, IInv
<1>9. Started' /\ TimerLast'
  BY <1>1, <1>2, <1>4, <1>7 DEF IInv, Started, TimerLast
<1>10. Running'
  BY <1>1, <1>3, <1>4, <1>5, <1>7 DEF Running
<1>11. RunsCurrentTask' /\ KernelEntryStack'
  BY <1>2, <1>4, <1>5, <1>6
  DEF RunsCurrentTask, KernelEntryStack, gdt_update_tss
<1>12. RingComplete' /\ OwnBase'
  BY <1>2, <1>6, <1>7 DEF IInv, RingComplete, OwnBase
<1>13. OwnFrame' /\ SavedContextIntact'
  BY <1>1, <1>7, AllFramesGood DEF OwnFrame, SavedContextIntact
<1> QED
  BY <1>4, <1>8, <1>9, <1>10, <1>11, <1>12, <1>13 DEF IInv

\* Appending a task leaves the ring complete and the other tasks alone.
LEMMA CreateIInv ==
  ASSUME IInv, NEW user \in BOOLEAN, task_create(user)
  PROVE  IInv'
<1> DEFINE new == ntasks + 1
           F   == InitialFrame(new, user)
           S   == [pid |-> task[task_list_tail].pid + 1, is_user |-> user,
                   next_task |-> task_list_head, trapframe |-> <<new, 1>>,
                   kernel_stack_base |-> new]
<1>1. /\ ntasks \in Nat /\ ntasks > 0 /\ ntasks < MaxTasks
      /\ task_list_head = BootTask /\ task_list_tail = ntasks
      /\ boot = "task_create"
  BY TaskConstants
  DEF task_create, InKmain, IInv, Started, TypeOK, RingComplete
<1>2. new \in Tid /\ ntasks \in Tid /\ new # ntasks /\ Linked \subseteq Tid
      /\ current_task \in Linked /\ new \notin Linked
      /\ Linked' = Linked \cup {new} /\ Ready' = Ready \cup {new}
  <2>1. current_task \in Linked
    BY <1>1 DEF IInv, Started
  <2>2. ntasks' = new /\ current_task' = current_task
    BY DEF task_create
  <2> QED
    BY <1>1, <2>1, <2>2, TaskConstants DEF Linked, Ready, Tid
<1>3. F \in Context /\ S \in Struct /\ <<new, 1>> \in Slot
  <2>1. new \in 0..MaxTasks /\ task_list_head \in 0..MaxTasks
    BY <1>1, TaskConstants DEF BootTask
  <2>2. <<new, 1>> \in Slot
    BY <2>1, TaskConstants DEF Slot
  <2>3. task[task_list_tail].pid + 1 \in Nat
    BY <1>1, <1>2 DEF IInv, TypeOK, Struct
  <2> QED
    BY <2>1, <2>2, <2>3 DEF InitialFrame, Context, Struct
<1>4. /\ task' = [task EXCEPT ![new] = S, ![ntasks].next_task = new]
      /\ stack' = [stack EXCEPT ![<<new, 1>>] = F]
      /\ last' = [last EXCEPT ![new] = F]
      /\ task_list_tail' = new /\ ntasks' = new
      /\ UNCHANGED <<boot, idt_handlers, scheduler_initialized, in_service>>
      /\ UNCHANGED <<current_task, task_list_head, tss_esp0, tick, cpu, sp>>
  BY <1>1 DEF task_create, setupVars
<1>5. /\ task' \in [Tid -> Struct]
      /\ task'[new] = S
      /\ task'[ntasks] = [task[ntasks] EXCEPT !.next_task = new]
      /\ \A t \in Linked : t # ntasks => task'[t] = task[t]
  <2>1. new \in 0..MaxTasks
    BY <1>2 DEF Tid
  <2>2. [task[ntasks] EXCEPT !.next_task = new] \in Struct
    BY <1>2, <2>1 DEF IInv, TypeOK, Struct
  <2> HIDE DEF S, new
  <2> QED
    BY <1>2, <1>3, <1>4, <2>2 DEF IInv, TypeOK
<1>6. \A t \in Linked :
        /\ task'[t].pid = task[t].pid
        /\ task'[t].is_user = task[t].is_user
        /\ task'[t].trapframe = task[t].trapframe
        /\ task'[t].kernel_stack_base = task[t].kernel_stack_base
        /\ task'[t].next_task = IF t = ntasks THEN new ELSE task[t].next_task
  BY <1>2, <1>5 DEF IInv, TypeOK, Struct
<1>7. TypeOK'
  <2>1. stack' \in [Slot -> Context] /\ last' \in [Tid -> Context]
    BY <1>2, <1>3, <1>4 DEF IInv, TypeOK
  <2>2. ntasks' \in 0..MaxTasks /\ task_list_tail' \in 0..MaxTasks
    BY <1>2, <1>4 DEF Tid
  <2> QED
    BY <1>4, <1>5, <2>1, <2>2 DEF IInv, TypeOK
<1>8. Started' /\ TimerLast' /\ Running'
  BY <1>1, <1>2, <1>4 DEF IInv, Started, TimerLast, Running
<1>9. RunsCurrentTask' /\ KernelEntryStack' /\ OwnBase'
  BY <1>2, <1>4, <1>5, <1>6
  DEF IInv, RunsCurrentTask, KernelEntryStack, OwnBase
<1>10. RingComplete'
  <2>1. task'[new].pid = ntasks /\ task'[new].next_task = BootTask
    BY <1>1, <1>2, <1>5 DEF IInv, RingComplete, Linked
  <2>2. ASSUME NEW t \in Linked
        PROVE  task'[t].next_task = t + 1 /\ task'[t].pid = t - 1 /\ t # new
    BY <1>1, <1>2, <1>6 DEF IInv, RingComplete, Linked
  <2>3. ASSUME NEW t \in Linked'
        PROVE  /\ task'[t].next_task = IF t = ntasks' THEN BootTask ELSE t + 1
               /\ task'[t].pid = t - 1
    <3>1. CASE t = new
      BY <1>1, <1>4, <2>1, <3>1
    <3>2. CASE t \in Linked
      BY <1>4, <2>2, <3>2
    <3> QED
      BY <1>2, <3>1, <3>2
  <2> QED
    BY <1>1, <1>4, <2>3 DEF RingComplete
<1>11. OwnFrame' /\ SavedContextIntact'
  <2>1. /\ task'[new].trapframe = <<new, 1>> /\ task'[new].is_user = user
        /\ last'[new] = F /\ stack'[<<new, 1>>] = F
        /\ F.own = new /\ F.user = user
    <3>1. task'[new].trapframe = <<new, 1>> /\ task'[new].is_user = user
      BY <1>5
    <3>2. F.own = new /\ F.user = user
      BY DEF InitialFrame
    <3> HIDE DEF F
    <3>3. last'[new] = F /\ stack'[<<new, 1>>] = F
      BY <1>2, <1>3, <1>4 DEF IInv, TypeOK
    <3> QED
      BY <3>1, <3>2, <3>3
  <2>2. ASSUME NEW t \in Ready
        PROVE  /\ task'[t].trapframe = task[t].trapframe
               /\ task'[t].is_user = task[t].is_user
               /\ last'[t] = last[t]
               /\ stack'[task[t].trapframe] = stack[task[t].trapframe]
    <3>1. t \in Linked /\ t \in Tid /\ t # new
      BY <1>2 DEF Ready
    <3>2. task[t].trapframe \in Slot /\ task[t].trapframe # <<new, 1>>
      BY <3>1 DEF IInv, TypeOK, Struct, OwnFrame
    <3> QED
      BY <1>2, <1>4, <1>6, <3>1, <3>2 DEF IInv, TypeOK
  <2> QED
    BY <1>2, <2>1, <2>2 DEF IInv, OwnFrame, SavedContextIntact
<1> QED
  BY <1>7, <1>8, <1>9, <1>10, <1>11 DEF IInv

\* The list starts with the boot task, running on the boot stack.
LEMMA TaskInitIInv == IInv /\ task_init => IInv'
<1> SUFFICES ASSUME IInv, task_init PROVE IInv'
  OBVIOUS
<1> DEFINE S == [Zeroed EXCEPT !.next_task = BootTask]
<1>1. BootTask \in Tid /\ BootTask \in 0..MaxTasks /\ ntasks = 0
  BY TaskConstants DEF BootTask, Tid, task_init, InKmain, IInv, Started
<1>2. S \in Struct /\ S.next_task = BootTask /\ S.pid = 0 /\ S.is_user = FALSE
  BY <1>1, ZeroedType DEF Struct, Zeroed
<1>3. /\ task' = [task EXCEPT ![BootTask] = S]
      /\ ntasks' = 1 /\ boot' = "task_create"
      /\ current_task' = BootTask /\ task_list_head' = BootTask
      /\ task_list_tail' = BootTask
      /\ UNCHANGED <<idt_handlers, in_service, scheduler_initialized>>
      /\ UNCHANGED <<tss_esp0, tick, last, cpu, sp, stack>>
  BY DEF task_init, runVars
<1> HIDE DEF S
<1>4. task' \in [Tid -> Struct] /\ task'[BootTask] = S
  BY <1>1, <1>2, <1>3 DEF IInv, TypeOK
<1>5. TypeOK'
  BY <1>1, <1>3, <1>4, TaskConstants DEF IInv, TypeOK, Phases
<1>6. Linked' = {BootTask} /\ Ready' = {}
  BY <1>3 DEF Linked, Ready, BootTask
<1>7. ~cpu.user /\ cpu.own = BootTask /\ idt_handlers[IRQ_TIMER] = "none"
  BY <1>1 DEF IInv, Started, TimerLast, Running, task_init, InKmain
<1>8. Started' /\ TimerLast' /\ Running' /\ KernelEntryStack'
  BY <1>3, <1>6, <1>7
  DEF Started, TimerLast, Running, KernelEntryStack, BootTask, NULL, IInv
<1>9. RingComplete' /\ OwnBase' /\ RunsCurrentTask'
  <2>1. RingComplete'
    BY <1>2, <1>3, <1>4, <1>6 DEF RingComplete, BootTask
  <2>2. ~task'[BootTask].is_user /\ ~cpu'.user
    BY <1>2, <1>3, <1>4, <1>7
  <2>3. cpu'.user \in BOOLEAN /\ task'[BootTask].is_user \in BOOLEAN
    BY <1>1, <1>5 DEF TypeOK, Context, Struct
  <2>4. cpu'.own = current_task' /\ cpu'.user = task'[current_task'].is_user
    BY <1>3, <1>7, <2>2, <2>3
  <2>5. OwnBase' /\ RunsCurrentTask'
    BY <1>6, <2>2, <2>4 DEF OwnBase, RunsCurrentTask
  <2> QED
    BY <2>1, <2>5
<1>10. OwnFrame' /\ SavedContextIntact'
  BY <1>6 DEF OwnFrame, SavedContextIntact
<1> QED
  BY <1>5, <1>8, <1>9, <1>10 DEF IInv

\* Task code moves its own stack pointer and writes above it, where no waiting
\* task has its frame.
LEMMA TaskCodeIInv == IInv /\ (Call \/ Return \/ task_userspace) => IInv'
<1> SUFFICES ASSUME IInv, Call \/ Return \/ task_userspace PROVE IInv'
  OBVIOUS
<1>1. /\ UNCHANGED <<in_service, task, current_task, tss_esp0, tick, last>>
      /\ UNCHANGED <<ntasks, task_list_head, task_list_tail>>
      /\ UNCHANGED <<boot, idt_handlers, scheduler_initialized>>
      /\ cpu' = Advanced
  BY DEF Call, Return, task_userspace, listVars, setupVars
<1>2. cpu' \in Context /\ cpu'.own = cpu.own /\ cpu'.user = cpu.user
  BY <1>1 DEF IInv, TypeOK, Advanced, Context
<1>3. /\ sp' \in (0..MaxTasks) \X (0..MaxDepth)
      /\ sp'[1] = sp[1]
  BY TaskConstants DEF IInv, TypeOK, Call, Return, task_userspace
<1>4. \/ stack' = stack
      \/ /\ ~cpu.user /\ <<sp[1], sp[2] + 1>> \in Slot
         /\ stack' = [stack EXCEPT ![<<sp[1], sp[2] + 1>>] = Data]
  BY TaskConstants DEF IInv, TypeOK, Call, Return, task_userspace, Slot
<1>5. TypeOK'
  <2>1. stack' \in [Slot -> Context]
    BY <1>4, ZeroedType DEF IInv, TypeOK
  <2> QED
    BY <1>1, <1>2, <1>3, <2>1 DEF IInv, TypeOK
<1>6. Linked' = Linked /\ Ready' = Ready
  BY <1>1 DEF Linked, Ready
<1>7. Started' /\ TimerLast' /\ RingComplete' /\ OwnBase' /\ OwnFrame'
  BY <1>1, <1>2, <1>6
  DEF IInv, Started, TimerLast, RingComplete, OwnBase, OwnFrame
<1>8. Running' /\ RunsCurrentTask' /\ KernelEntryStack'
  BY <1>1, <1>2, <1>3 DEF IInv, Running, RunsCurrentTask, KernelEntryStack
<1>9. SavedContextIntact'
  <2> SUFFICES ASSUME NEW t \in Ready
               PROVE  stack'[task[t].trapframe] = stack[task[t].trapframe]
    BY <1>1, <1>6 DEF IInv, SavedContextIntact
  <2>1. t \in Tid /\ t # current_task /\ ntasks > 0
    BY TaskConstants DEF IInv, TypeOK, Ready, Linked, Tid
  <2>2. ~cpu.user => task[t].trapframe # <<sp[1], sp[2] + 1>>
    BY <2>1 DEF IInv, OwnFrame, Running
  <2>3. task[t].trapframe \in Slot
    BY <2>1 DEF IInv, TypeOK, Struct
  <2> QED
    BY <1>4, <2>2, <2>3 DEF IInv, TypeOK
<1> QED
  BY <1>5, <1>7, <1>8, <1>9 DEF IInv

\* The calls of kmain that touch neither the tasks nor their stacks.
LEMMA SetupIInv ==
  IInv /\ (interrupt_init \/ scheduler_init \/ keyboard_init \/ pic_init) => IInv'
<1> SUFFICES ASSUME IInv,
                    interrupt_init \/ scheduler_init \/ keyboard_init \/ pic_init
             PROVE  IInv'
  OBVIOUS
<1>1. /\ UNCHANGED <<in_service, task, current_task, tss_esp0, tick, sp, stack, last>>
      /\ UNCHANGED <<ntasks, task_list_head, task_list_tail>>
  BY DEF interrupt_init, scheduler_init, keyboard_init, pic_init, listVars, runVars
<1>2. cpu' \in Context /\ cpu'.own = cpu.own /\ cpu'.user = cpu.user
  BY DEF interrupt_init, scheduler_init, keyboard_init, pic_init, runVars,
         IInv, TypeOK, Context
<1>3. idt_handlers' \in [Lines -> Handlers]
  BY DEF interrupt_init, scheduler_init, keyboard_init, pic_init, Handlers,
         IInv, TypeOK, Lines
<1>4. boot' \in Phases /\ scheduler_initialized' \in BOOLEAN
  BY DEF interrupt_init, scheduler_init, keyboard_init, pic_init, Phases, IInv, TypeOK
<1>5. TypeOK'
  BY <1>1, <1>2, <1>3, <1>4 DEF IInv, TypeOK
<1>6. (boot \in {"interrupt_init", "task_init"})
        <=> (boot' \in {"interrupt_init", "task_init"})
  BY DEF interrupt_init, scheduler_init, keyboard_init, pic_init, InKmain
<1>7. Linked' = Linked /\ Ready' = Ready
  BY <1>1 DEF Linked, Ready
<1>8. Started'
  BY <1>1, <1>2, <1>6, <1>7 DEF IInv, Started
<1>9. TimerLast'
  BY DEF IInv, TimerLast, interrupt_init, scheduler_init, keyboard_init, pic_init,
         InKmain, TypeOK, Lines, IRQ_TIMER, IRQ_KEYBOARD
<1>10. /\ Running' /\ RunsCurrentTask' /\ KernelEntryStack' /\ RingComplete'
       /\ OwnBase' /\ OwnFrame' /\ SavedContextIntact'
  BY <1>1, <1>2, <1>7
  DEF IInv, Running, RunsCurrentTask, KernelEntryStack, RingComplete, OwnBase,
      OwnFrame, SavedContextIntact
<1> QED
  BY <1>5, <1>8, <1>9, <1>10 DEF IInv

\* Acknowledging keeps the in-service lines lines.
LEMMA EOIType == \A S \in SUBSET Lines : EOI(S) \in SUBSET Lines
BY DEF EOI

\* An interrupt of either line, whatever its handler does.
LEMMA InterruptIInv == IInv /\ (irq_timer \/ irq_keyboard) => IInv'
<1>1. ASSUME IInv, irq_timer PROVE IInv'
  <2>1. in_service' \in SUBSET Lines
    BY <1>1, EOIType DEF irq_timer, IInv, TypeOK, Lines
  <2>2. tick' \in 0..TickMod - 1
    BY <1>1, TaskConstants DEF irq_timer, pic_callback, IInv, TypeOK
  <2>3. Entered
    BY <1>1, <2>1, <2>2 DEF irq_timer, Entered
  <2>4. CASE StubReturn
    BY <1>1, <2>3, <2>4, StubReturnIInv
  <2>5. CASE ~StubReturn
    <3>1. PICK next : next = task[current_task].next_task
      OBVIOUS
    <3>2. SwitchingOn /\ gdt_update_tss(next) /\ task_switch_asm(next)
      BY <1>1, <2>5, <3>1 DEF irq_timer, pic_callback, scheduler
    <3> QED
      BY <1>1, <2>3, <3>1, <3>2, SwitchIInv
  <2> QED
    BY <2>4, <2>5
<1>2. ASSUME IInv, irq_keyboard PROVE IInv'
  <2>1. in_service' \in SUBSET Lines
    BY <1>2, EOIType DEF irq_keyboard, IInv, TypeOK, Lines
  <2>2. Entered
    BY <1>2, <2>1 DEF irq_keyboard, Entered, IInv, TypeOK
  <2> QED
    BY <1>2, <2>2, StubReturnIInv DEF irq_keyboard
<1> QED
  BY <1>1, <1>2

\* Every step of the machine preserves the invariant.
LEMMA NextIInv == IInv /\ [Next]_vars => IInv'
<1> SUFFICES ASSUME IInv, [Next]_vars PROVE IInv'
  OBVIOUS
<1>1. CASE interrupt_init \/ scheduler_init \/ keyboard_init \/ pic_init
  BY <1>1, SetupIInv
<1>2. CASE task_init
  BY <1>2, TaskInitIInv
<1>3. CASE task_create_kernel \/ task_create_user
  BY <1>3, CreateIInv DEF task_create_kernel, task_create_user
<1>4. CASE Call \/ Return \/ task_userspace
  BY <1>4, TaskCodeIInv
<1>5. CASE irq_timer \/ irq_keyboard
  BY <1>5, InterruptIInv
<1>6. CASE UNCHANGED vars
  BY <1>6 DEF vars, IInv, TypeOK, Started, TimerLast, RingComplete, Running,
              RunsCurrentTask, KernelEntryStack, OwnBase, OwnFrame,
              SavedContextIntact, Linked, Ready
<1> QED
  BY <1>1, <1>2, <1>3, <1>4, <1>5, <1>6 DEF Next, kmain

-----------------------------------------------------------------------------
(* The theorems *)

\* The strengthened invariant holds in every reachable state.
THEOREM Invariant == Spec => []IInv
  BY InitIInv, NextIInv, PTL DEF Spec

\* Type correctness: in particular no stack is ever used beyond the room it
\* has for MaxDepth calls and one trap frame.
THEOREM TypeCorrect == Spec => []TypeOK
<1>1. IInv => TypeOK
  BY DEF IInv
<1> QED
  BY <1>1, Invariant, PTL

\* However many tasks there are and however deep their calls nest, a waiting
\* task's trap frame keeps the registers it was stopped with.
THEOREM SavedContext == Spec => []SavedContextIntact
<1>1. IInv => SavedContextIntact
  BY DEF IInv
<1> QED
  BY <1>1, Invariant, PTL

\* current_task always names the code on the processor: the task whose stack and
\* registers are in use is the one the next switch will save.
THEOREM Current == Spec => []RunsCurrentTask
<1>1. IInv => RunsCurrentTask
  BY DEF IInv
<1> QED
  BY <1>1, Invariant, PTL

\* From ring 3 the next interrupt arrives on the running task's own kernel stack.
THEOREM EntryStack == Spec => []KernelEntryStack
<1>1. IInv => KernelEntryStack
  BY DEF IInv
<1> QED
  BY <1>1, Invariant, PTL

\* The task list is one ring over all tasks at every moment.
THEOREM Ring == Spec => []RingComplete
<1>1. IInv => RingComplete
  BY DEF IInv
<1> QED
  BY <1>1, Invariant, PTL

\* Only the timer interrupt moves current_task from one task to another.
LEMMA OnlyTimerSwitches ==
  ASSUME IInv, [Next]_vars, current_task # NULL, current_task' # current_task
  PROVE  irq_timer /\ ~StubReturn
<1>1. ntasks # 0
  BY DEF IInv, Started
<1>2. ~task_init
  BY <1>1 DEF IInv, Started, task_init, InKmain
<1> QED
  BY <1>2
  DEF Next, kmain, vars, interrupt_init, task_create_kernel, task_create_user,
      task_create, scheduler_init, keyboard_init, pic_init, Call, Return,
      task_userspace, irq_timer, irq_keyboard, StubReturn

\* A timer interrupt that does not return through the stub runs the successor
\* in the ring from the context it was last stopped at.
LEMMA TimerSwitch ==
  ASSUME IInv, irq_timer, ~StubReturn
  PROVE  /\ SwitchingOn
         /\ current_task' = task[current_task].next_task
         /\ cpu' = [last'[current_task'] EXCEPT !.ints = TRUE]
         /\ idt_handlers[IRQ_TIMER] = "pic_callback"
         /\ UNCHANGED <<ntasks, idt_handlers>>
<1>1. Entered
  <2>1. in_service' \in SUBSET Lines
    BY EOIType DEF irq_timer, IInv, TypeOK, Lines
  <2>2. tick' \in 0..TickMod - 1
    BY TaskConstants DEF irq_timer, pic_callback, IInv, TypeOK
  <2> QED
    BY <2>1, <2>2 DEF irq_timer, Entered
<1>2. PICK next : next = task[current_task].next_task
  OBVIOUS
<1>3. SwitchingOn /\ gdt_update_tss(next) /\ task_switch_asm(next)
  BY <1>2 DEF irq_timer, pic_callback, scheduler
<1>4. cpu' = [last'[next] EXCEPT !.ints = TRUE]
  BY <1>1, <1>2, <1>3, SwitchIInv
<1>5. current_task' = next
  BY <1>3 DEF task_switch_asm
<1> QED
  BY <1>2, <1>3, <1>4, <1>5 DEF irq_timer, listVars, setupVars

\* Every switch of tasks resumes a task exactly where it was last stopped.
THEOREM Resumes == Spec => ResumesWhereStopped
<1>1. IInv /\ [Next]_vars
        => [current_task # NULL /\ current_task' # current_task
              => cpu' = [last'[current_task'] EXCEPT !.ints = TRUE]]_vars
  BY OnlyTimerSwitches, TimerSwitch
<1> QED
  BY <1>1, Invariant, PTL DEF Spec, ResumesWhereStopped

\* Going to the next number round a circle of n.
LEMMA RoundTheCircle ==
  ASSUME NEW n \in Nat \ {0}, NEW t \in 1..n
  PROVE  (t % n) + 1 = IF t = n THEN 1 ELSE t + 1
<1>1. CASE t = n
  BY <1>1
<1>2. CASE t # n
  <2>1. t % n = t
    BY <1>2
  <2> QED
    BY <1>2, <2>1
<1> QED
  BY <1>1, <1>2

\* With the abstraction of the tasks to their numbers, every step of the
\* machine is a step of the abstract round-robin scheduler or changes nothing
\* the scheduler knows of.
THEOREM ImplementsRoundRobin == Spec => RR!RRSpec
<1>1. Init => RR!RRInit
  BY DEF Init, RR!RRInit, Lines, IRQ_TIMER, IRQ_KEYBOARD, NULL
<1>2. IInv /\ [Next]_vars => [RR!RRNext]_(RR!rrVars)
  <2> SUFFICES ASSUME IInv, [Next]_vars PROVE [RR!RRNext]_(RR!rrVars)
    OBVIOUS
  <2> USE DEF RR!RRNext, RR!rrVars
  <2>1. ntasks \in Nat
    BY TaskConstants DEF IInv, TypeOK
  <2>2. CASE task_init
    <3>1. ntasks = 0 /\ ntasks' = 1 /\ current_task' = 1
      BY <2>2 DEF task_init, InKmain, IInv, Started, BootTask
    <3>2. UNCHANGED idt_handlers
      BY <2>2 DEF task_init
    <3> QED
      BY <3>1, <3>2 DEF RR!Adopt
  <2>3. CASE task_create_kernel \/ task_create_user
    <3>0. boot = "task_create" /\ ntasks' = ntasks + 1
      BY <2>3, Zenon DEF task_create_kernel, task_create_user, task_create, InKmain
    <3>1. ntasks > 0 /\ ntasks' = ntasks + 1 /\ idt_handlers[IRQ_TIMER] = "none"
      BY <2>1, <3>0 DEF IInv, Started, TimerLast
    <3>2. UNCHANGED <<idt_handlers, current_task>>
      BY <2>3 DEF task_create_kernel, task_create_user, task_create, setupVars
    <3> QED
      BY <3>1, <3>2 DEF RR!Add
  <2>4. CASE pic_init
    <3>1. ntasks > 0 /\ idt_handlers[IRQ_TIMER] = "none"
      BY <2>1, <2>4 DEF pic_init, InKmain, IInv, Started, TimerLast
    <3>2. idt_handlers'[IRQ_TIMER] # "none" /\ UNCHANGED <<ntasks, current_task>>
      BY <2>4 DEF pic_init, listVars, IInv, TypeOK, Lines
    <3> QED
      BY <3>1, <3>2 DEF RR!Enable
  <2>5. CASE interrupt_init
    <3>1. idt_handlers[IRQ_TIMER] = "none" /\ idt_handlers'[IRQ_TIMER] = "none"
      BY <2>5 DEF interrupt_init, InKmain, IInv, TimerLast, Lines
    <3> QED
      BY <2>5, <3>1 DEF interrupt_init, listVars
  <2>6. CASE keyboard_init
    <3>1. idt_handlers'[IRQ_TIMER] = idt_handlers[IRQ_TIMER]
      BY <2>6 DEF keyboard_init, IInv, TypeOK, Lines, IRQ_TIMER, IRQ_KEYBOARD
    <3> QED
      BY <2>6, <3>1 DEF keyboard_init, listVars
  <2>7. CASE irq_timer /\ ~StubReturn
    <3>1. ntasks > 0 /\ current_task \in 1..ntasks
      BY <2>1, <2>7, TimerSwitch DEF IInv, Started, SwitchingOn, Linked
    <3>2. current_task' = (current_task % ntasks) + 1
      BY <2>1, <2>7, <3>1, TimerSwitch, Successor, RoundTheCircle DEF BootTask
    <3> QED
      BY <2>7, <3>2, TimerSwitch DEF RR!Turn
  <2>8. CASE \/ irq_timer /\ StubReturn
             \/ irq_keyboard \/ scheduler_init \/ Call \/ Return \/ task_userspace
             \/ UNCHANGED vars
    BY <2>8 DEF irq_timer, irq_keyboard, scheduler_init, Call, Return,
                task_userspace, vars, StubReturn, listVars, setupVars
  <2> QED
    BY <2>2, <2>3, <2>4, <2>5, <2>6, <2>7, <2>8 DEF Next, kmain
<1> QED
  BY <1>1, <1>2, Invariant, PTL DEF Spec, RR!RRSpec
=============================================================================

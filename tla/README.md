# AOSIS in TLA+

A verification project for the AOSIS kernel: a 32-bit x86 kernel with interrupt
handling, preemptive tasks, physical and virtual memory management, a heap, a
PS/2 keyboard and a small console. The modules model the kernel's own logic,
translated from the sources; TLC checks them on small instances, and TLAPS
proves the main safety results about task switching, the three memory managers,
the keyboard, the console, the terminal and the C library for every value of the
constants.

## The system

| component | state | operations | correct when |
|---|---|---|---|
| tasks (`task/`) | ring of `struct task`, `current_task`, list head and tail, a kernel stack per task | `task_init`, `task_create_kernel/user`, `scheduler`, `task_switch_asm`, `task_update_trapframe` | a waiting task's context survives until it is resumed; nobody starves |
| interrupts and timer (`interrupt/`) | IDT, `idt_handlers`, tick, the PIC's in-service lines | stubs, `irq_handler`, `isr_handler`, `pic_callback` | every interrupt returns to where it came from; the timer keeps firing |
| descriptor tables (`memory/gdt.c`) | GDT, TSS | `gdt_init`, `gdt_update_tss` | `esp0` is the running user task's stack |
| physical memory (`memory/pmm.c`) | first frame, page count, bitmap | `pmm_init`, `pmm_alloc_page`, `pmm_free_page` | a frame has one owner, and is real memory |
| virtual memory (`memory/vmm.c`, `paging.c`) | list of blocks (bitmap, counters, page table), page directory | `vmm_alloc_page`, `vmm_free_page`, `vmm_get_phys_addr`, `paging_*` | a page has one owner, is mapped, and its frame is not shared |
| heap (`memory/kmalloc.c`) | linked list of free blocks | `kmalloc`, `kfree` | free and held memory partition the heap |
| keyboard (`interrupt/keyboard.c`) | ring of keys, modifier state | interrupt handler, `kb_get_key` | keys arrive once, in order, none is lost |
| console (`terminal/kshell.c`) | command line | line editor, commands | what runs is what was typed |
| terminal (`terminal/tty.c`) | cursor, screen | `tty_putc`, `tty_scroll`, `kprintf` | the cursor stays on the screen |
| C library (`libc/`) | none | `ctype`, `string` | the functions agree with the standard |

`kmain` calls the initialisers in a fixed order with interrupts on, then becomes
the console and the first task. The timer interrupt runs the scheduler on the
stack of the interrupted task and leaves on another task's. The keyboard
interrupt shares the key buffer with the console. `kmalloc` calls
`vmm_alloc_page` when it runs out, `vmm_alloc_page` calls `kmalloc` for a new
block's descriptor and `pmm_alloc_page` for frames.

What is hard here: an interrupt may come between any two instructions of a task;
a frame pushed on the wrong stack is noticed only when its owner is resumed; the
keyboard handler and `kb_get_key` update the same counter; allocators are called
in any order for a long time; tables live in the pages they describe. The list
of hazards, line by line, is in `PROJECT.json`.

## Modules

| module | models | abstract counterpart |
|---|---|---|
| `Task` | tasks, IRQ stubs, timer, TSS, `kmain`'s set-up of tasks and handlers | `RoundRobin` |
| `TaskProofs` | theorems about `Task` | |
| `Pmm`, `MCPmm` | `pmm.c`; small memory maps | `FrameAllocator` |
| `PmmProofs` | theorems about `Pmm` | |
| `Vmm` | `vmm.c` and the parts of `paging.c` it uses | |
| `VmmProofs` | theorems about `Vmm` | |
| `Kmalloc` | `kmalloc.c` | |
| `KmallocProofs` | theorems about `Kmalloc` | |
| `Keyboard` | `keyboard.c`, the layout tables, `kshell`'s loop around `kb_get_key` | |
| `Kshell`, `MCKshell` | `kshell.c` composed with `Keyboard` | an editor in one recursion (`Edited`, `edits`) |
| `ConsoleProofs` | theorems about `Keyboard` and `Kshell` | |
| `Tty`, `MCTty` | cursor and screen of `tty.c` | endless paper (`paper`) |
| `TtyProofs` | theorems about `Tty` | |
| `Descriptors` | packing of descriptors and gates, and how the processor reads them | |
| `Interrupt`, `MCInterrupt` | `init_idt.asm`, `interrupt.c` word by word, with `Descriptors` | |
| `InterruptProofs` | theorems about `Interrupt` and `Descriptors` | |
| `Libc` | `libc/string`, `tty_printint`, `tty_printhex`, `kprintf` | definitions in the properties |
| `LibcProofs` | theorems about `Libc` | |

Definitions named `..._missing`, `..._late_eoi` and the like, marked "Fault" in
their comment, are faulty variants of the definition that follows. They are not
part of any specification; replacing the definition by its variant must make the
property that watches it fail.

### Task

Gates are interrupt gates and the stubs start with `cli`, so a handler runs
undisturbed to its `iret`: one interrupt is one action (`irq_timer`,
`irq_keyboard`), from the push of the frame through `task_update_trapframe`, the
acknowledgement, the C handler and, for the timer, `scheduler` and
`task_switch_asm`. Between interrupts task code calls and returns at will
(`Call`, `Return`, and `task_userspace` in ring 3), each time at a new point of
its code. A trap frame is abstracted to whose code it belongs to, where it is,
its privilege level and its interrupt flag; stacks have slots the size of a frame. Where
the frame goes is the code's rule: the stack in use, or the top of `tss.esp0`'s
stack from ring 3. The 8259 is modelled in fully nested mode with non-specific
end of interrupt (external). `kmain` creates any number of tasks up to `MaxTasks`,
kernel or user in any order, where the code creates one of each.

### Pmm

Addresses, page size, word size and bitmap length are parameters, so that the
code's arithmetic is kept: trimming of the first and last page, the byte distance
used as a page index for the boot module, the product that should be a sum in
`pmm_free_page`, the scan over whole words. Panics and accesses outside the
bitmap are end states. Callers free what they were given, by any address in the
page. The list of set bits is a set. A module is always loaded, as `grub.cfg` has
it: the code does not look at `mods_count`, and without a module would read
whatever `mods_addr` points to.

### Vmm

Pages and frames are numbers; a block is its descriptor and its page table. The
first block maps the first frames one to one, as `paging_init` does. One call of
`vmm_alloc_page` is one action, nested `vmm_add_vmm_block` included; when
`kmalloc` has no room for the descriptor the NULL it returns is written through,
and with the pool used up a second new table lies at frame 0 and `memset` wipes
the first: in both cases the model ends (`AllocBlockLost`).
`paging_add_temp_userspace` makes three calls in three steps that nothing comes
between; the page a step has been given is written before the next one. Frames
come from `Pmm`'s promise: the lowest free one. `CallerWritesTable` stands for a
write, by a caller or by `paging_add_temp_userspace`, to a page whose frame is also
a page table (`OverTable`): after it nothing is known.

### Kmalloc

Memory in granules of 8 bytes, headers at addresses, the list as links. `intact`
becomes false when a block is handed out whole or the heap grows behind a stale
tail; the model stops there, because from then on the list shares memory with
callers. Headers of merged blocks are cleared, since nobody reads them. A size is
rounded up modulo `SizeMod`, the range of `size_t`; `RequestsSmall` says that no
request is so large that this wraps. The kernel asks for the sizes of its own
structures, and the request after a wrap would be for less than was asked.

### Keyboard

The handler is one action. `kb_get_key` is four steps, because the kernel is
built without optimisation and `keyboard.len--` is a load and a store. The layout
has one entry for each way the handler treats a code. The first write past the
end of `buff` overwrites `len` and `head`; the model stops there.

### Kshell

Extends `Keyboard`: the handler and the four steps of `kb_get_key` are the same
actions. The line is a local array, so what happens to it between two calls is one
step. A call that prints has two: the console goes into it (`Prints`), and comes
back with the output done (`tty_putc`, `tty_deleteprev`, `command_start`, the output
of a command). Between the two the handler queues keys and clears the screen on
ctrl-l, and `task_test`, the task that prints a line every few ticks
(`task_test_prints`, `task_test_printed`), may begin or end its own output. A
backspace calls `kb_get_key` again and waits for its steps. `hlt` is left by any
interrupt. Each test of the loop that strips the command is a step; with nothing
left it reads the byte below the array, which is unknown, so it may stop there or
run on (`"below"`, the end of the model). A command that returns, one that loops
(`exit`) and one that resets are told apart. The library's `isspace` and `isprint`
answer 0 for yes, and the console uses them so.

What the screen shows is abstracted to the cells since the prompt, the last
clearing or `task_test`'s last line (`echo`, `origin`). Two history variables record
when it no longer tells anything of the line: `parted`, after a tab was erased or an
erase went back beyond these cells into the row above, until the next prompt, row
or clearing; and `caught`, after two outputs, or an output and a clearing, have
overlapped, until the next clearing that comes when nobody prints. What overlapping
outputs do to the cursor is `Tty`'s subject.

### Tty

Every load and store of `tty_xpos` and `tty_ypos` is a step, since the code is
built without optimisation and nothing is locked, except that two coordinates
passed to one function are loaded together; the loops over cells are one step. Arithmetic is modulo the range of `size_t`, so a decrement of 0 shows.
`Exposed` names the steps at which another actor may do harm: between an increment
that reaches the edge and the step that takes it back, in `tty_scroll`, and between
the test and the load of `tty_deleteprev`. Nothing in the module bounds the calls.
`paper` is what a terminal with
endless paper would hold; it is kept until calls overlap.

### Interrupt and Descriptors

Words are pushed and popped one by one; a word is a selector, flags, a number or
the unknown value of a register. The processor (delivery, gates, `iret`, segment
checks) and the 8259s (external) are as the manuals have them. `isr_pop` keeps the
stub's `pop ebx` before `pop ds`: `ds` takes the word of `edi`, all registers the
next word's value, and `iret` the saved `cs` as address and the saved flags as `cs`.
Flags have bit 1 set and bit 5 clear, so as a selector they never name a code
segment of the table, and the `iret` faults. The second fault of the same number
ends in `isr_handler`'s loop. `other_interrupt` is installed without a stub, from
vector 47 on. That a timer interrupt may leave to another task is in `Task`.

### Libc

A loop iteration is a step over a memory of a few bytes; arguments are all that
the functions' contracts allow. Bytes in the upper half are negative chars. The
conversions keep their loops, with smaller radices.

## Runs

| run | what it shows |
|---|---|
| `task` | with up to 4 tasks: saved contexts are intact, the processor runs `current_task`, `esp0` is right in ring 3, the ring is complete, a switch resumes a task where it stopped, every task runs again and again, and all of it implements `RoundRobin` with its fairness |
| `pmm` | for maps with an odd number of pages, a hole, a critical size and more memory than the bitmap covers: the bitmap is exact, frames lie in memory, and the pool implements `FrameAllocator` |
| `vmm` | through three blocks, with frees and an exhausted pool: pages are handed out once, mapped, and reachable through the directory; a frame of the pool has one use outside the first block; counters are sound; without frees the next block is always in place in time |
| `kmalloc` | while the list is intact, any order of allocation and freeing leaves every granule in one free block or one caller's and in no two, the list sorted and coalesced; a refused request succeeds when repeated |
| `keyboard` | first in first out under every interleaving; the length is wrong by exactly the lost updates; the overrun comes with key Capacity + 1 after boot |
| `kshell` | with keys typed ahead, ctrl-l, a full line and `task_test` printing: line and commands are what editing the keys taken gives, except that the key waiting behind a backspace is lost (`EditsAsTyped`); between outputs the screen shows the line, or its end after ctrl-l or a line of `task_test`, until it is `parted` or `caught` (`EchoesLine`); the stripping loop takes the blanks at the end of the typed line and nothing else, and leaves the array only if there was nothing else (`StripsLine`); every key is taken in the end, also one typed between the check of the buffer and `hlt` (`KeysConsumed`) |
| `tty` | one printer at a time: the screen is the end of the paper, through wraps, tabs, scrolls, erasing at the edge and clearing. Two at once, and ctrl-l: no cell beside the screen is written and the cursor stays on it unless somebody acts while another is `Exposed`, stale arguments of `update_cursor` notwithstanding |
| `interrupt` | for 30 exceptions and all lines, in both rings: selectors name the segments meant, `struct idt_registers` matches the stack, interrupts are transparent and acknowledged, except for line 15, after which no interrupt comes any more; no exception returns, all end in the loop or a panic, with at most three frames on the stack |
| `libc` | `memmove` under every overlap, `memcpy` where dest is not inside the source, equality by `memcmp` and `strcmp`, `strlen`, `strcat`; digits denote their number; `kprintf` agrees with counting percent signs |

Three more runs end in a violation: each checks what a comment of the code
says and the code does not do. The findings in `PROJECT.json` quote the comment.

| run | comment | what happens |
|---|---|---|
| `pmm_module` | reserve the module's memory | another bit is set; the module's page is handed out |
| `kmalloc_free` | a list of the free memory is kept | a block handed out whole stays in the list |
| `vmm_table` | leave a buffer of two pages | the next block's page table is handed out |

Disagreements of the same sort that the models contain and no run singles out:
`get_mem_size` keeps only the end of the last available region, so reserved holes
are handed out (pmm.c:95); up to 31 pages at the end of the pool are never looked
at although the warning says that all are allocated (pmm.c:151); the bitmap is
accessed beyond its words for a large pool or a module far from the kernel
(pmm.c:23); `kmalloc_coalesce` does not move the tail when the last block is merged
to the left (kmalloc.c:65); `vmm_free_page` and `vmm_get_phys_addr` take every page
for one of the first block's, their range test being a disjunction (vmm.c:203, 248);
`pmm_free_page` multiplies where it should add and refuses pages of the pool for
some pool sizes (pmm.c:163, "check if page is in page pool"); the second page the
heap grows by replaces the first in the list (kmalloc.c:146); `vmm_free_page` does
not count `free_pages` up (vmm.c:216); the frame of the user stack already backs a
page in use, because the first block maps the pool's frames one to one
(paging.c:295; `FramesUsedOnce` says what remains true). `isr_common_stub` pops a
word too many, so `iret` does not pop what its comment says (init_idt.asm:32, 43);
vector 47 loses its stub (interrupt.c:207); a backspace swallows a key typed ahead
(kshell.c:159); enter on a blank line reads, and may write, below the line
(kshell.c:119); `strnlen` always answers 0 and the classes of characters answer 0
for yes, which their callers allow for.

### Bounds

- `Task`: 4 tasks (kernel and user in every order; two user tasks are needed to
  confuse their entry stacks, and a third task to tell next from other), one level
  of calls, ticks modulo 2. The proofs remove these bounds.
- `Pmm`: pages of 4 bytes, words of 2 bits, 4 words, 7-bit addresses; pools of 6
  to 11 pages, on both sides of the bitmap's 8 bits. The proofs remove these bounds.
- `Vmm`: tables of 7 entries with the threshold at 5, so that two pages precede
  it; 3 blocks, so that a block has both neighbours; 10 frames, so that the pool
  runs out in the second block; 4 frees, enough to use up `free_pages` of the
  first block.
- `Kmalloc`: pages of 8 granules, two pages beside the first block, requests of 0,
  1, 9 and 64 bytes (none, one granule, two, and one that no page can satisfy);
  sizes modulo 80, just beyond the largest request.
- `Keyboard`: 3 elements of 2 bytes; one overrun, and a key typed after a lost
  update, both need this many.
- `Kshell`: `Keyboard`'s bounds, a line of 2 characters, so that it fills up before
  the keys run out; tab stops of 4 columns behind a prompt of 3, so that a tab is
  one cell or four, and the blank at the end of a command; a command of each kind.
- `Tty`: a screen of 2 by 2 with tab stops of 2, so that a few calls reach every
  edge; two printers, interchangeable, with any number of calls. The bound is a
  constraint of `MCTty`: the search does not go on where somebody was caught, when
  `CursorOnScreen` says no more, nor where the paper, which grows only until calls
  overlap, is longer than `MaxRows`, two screens.
- `Interrupt`: bytes of 4 values, 50 vectors (all after 47 are alike), flags that
  as a selector are null or name an entry of the table; other flags lie beyond it.
- `Libc`: 5 bytes of 3 values, so that regions overlap both ways with bytes beside
  them; numbers of 4 binary digits; formats of up to 5 characters.

`CHECK_DEADLOCK` is off only where a panic or an undefined access ends the model.

### Fairness

`Task` assumes weak fairness of the timer interrupt (the PIT is periodic and its
line is acknowledged before the handler runs, so it stays deliverable whenever
interrupts are on) and of `kmain`'s straight-line code. `Kshell` assumes the
timer, which ends `hlt`, and that the console keeps getting the processor, as
`Task` shows it does; nothing is assumed of the keyboard. `Interrupt` assumes that
stubs and handlers, which run with interrupts off, go on, not that interrupts come.

## Proofs

`TaskProofs` proves, for any number of tasks, any depth of calls and any tick
range: type correctness, `SavedContextIntact`, `RunsCurrentTask` and
`KernelEntryStack`, `RingComplete`, the action property `ResumesWhereStopped`, and
that the specification implements `RoundRobin!RRSpec`. The only assumption is
`TaskConstants`. `SavedContextIntact` is not inductive: that pushing a frame
disturbs no waiting task needs that every waiting task's frame is on its own
stack (`OwnFrame`) and that the frame being pushed goes to the current task's
stack, in ring 0 because the stack pointer is on it (`Running`), from ring 3
because `esp0` is its base (`KernelEntryStack`, `OwnBase`). That a switch keeps
this needs that the successor in the ring is a linked task (`RingComplete`).
`IInv` is the conjunction.

`PmmProofs` proves, for every memory map, module address, page and word size and
bitmap length that satisfy `PmmConstants` and `MapsReachPool`: type correctness,
`BitmapExact`, `FramesInMemory`, and that `Pmm` implements `FrameAllocator`. The
inductive invariant says that the pool starts at the first page and ends within
memory (`PoolShape`), and that the held frames are exactly those of the set bits
other than the boot module's, all among the bits the scan looks at (`HeldBits`).
The arithmetic rests on lemmas about multiples, quotients and rounding.

`VmmProofs` proves, for every size of a page table, threshold, pool and bound on
blocks and frees that satisfy `VmmConstants`: type correctness, `BitmapExact`,
`PagesMapped`, `CountersSound`, `NextBlockInTime`, `FramesUsedOnce`, and the action
property `HandedOutOnce`. None of the first five is inductive alone. Where the
next page comes from depends on the high water marks (`Marks`: no bit is set
above the mark, and a block has a successor exactly when it has reached the
threshold), what a page is mapped to on the tables (`Tables`: the first maps one
to one, every other is mapped at the threshold of the block before), and that no
frame is used twice on what the pool has granted (`FrameUse`).

`KmallocProofs` proves, for any page size, number of pages and requests that
satisfy `KmallocConstants` and `RequestsSmall`: `HeapPartitioned`, `ListCoalesced`
and `RetrySucceeds`. The list is given by links, so the invariant first says that
following them from the head visits the blocks in address order (`Chain`), and that
these and the callers' blocks tile the heap (`Tiling`) without a block being both in
the list and a caller's (`Given`); a split, an insertion and a merge on either side
each keep all three. That the walk `Block` reaches every block is shown by
a least counterexample. The assumption that a block is at least two granules
(32 bytes are four) makes room for a header in what a split leaves.

`ConsoleProofs` proves about `Keyboard`, for every capacity, key size and set of
scan codes: type correctness, `FirstInFirstOut`, `LenAccounting` and
`OverrunAfterCapacity`. The argument is that neither index has wrapped before the
overrun (`IndicesCount`), so that every slot still holds the key put there
(`SlotsKept`), and that the copy of `len` the reader will store back is at most
`len`, because only the handler runs in between (`ReaderEntitled`). About `Kshell`,
for every length of the line and table of commands: the keyboard's invariant holds
in the composition, the line stays inside the array (`ShellTypeOK`: an erasure
finds a character although the handler has run since the test), the array is zero
behind it (`ZeroBehind`, also while the loop strips it), and `StepEdits`: the line
and the commands run change only when a key is handled, and then as the editor
`Edited` says. `EditsAsTyped`, `StripsLine` and `EchoesLine` compare the line with
what a recursion over all keys, or over all its characters, gives. Their invariants
carry a solution of the recursion along: `Pending` says that it ends in `Due`, what
the editor will have made of the keys when the console is done with the one it is
at (a key taken out but not handled, a backspace whose second `kb_get_key` is still
running, an enter whose command is being stripped or has not run); `Drawn` that the
cells shown are what the line prints from some character on, from the first one
while the prompt is there, less the new character inside `tty_putc` and with one
cell more inside `tty_deleteprev`. A step extends the solution by a key or shortens
it by a character, and a least counterexample shows that the recursion has no
other. `StripsLine` (`LoopStrips`) follows from `Pending`: overwriting a blank at the
end leaves `Stripped` of what is left in the array the same (`StrippedFront`), where
the loop stops there is no blank left, so what is left is its own `Stripped`
(`StrippedDone`), and the commands recorded for the two are the same only if
these are.

`TtyProofs` proves `CursorOnScreen` for any number of printers, screen and tab stop
and without a bound on the calls. Its invariant gives, for every step of every printer, what the
operands it has loaded can be, and where a printer that is `Exposed` has left the
cursor; until somebody is caught, at most one is. `ScreenShowsPaper` is proved from
it for the same constants. Its invariant `Shown` says, until two calls have met,
what is left to do for the one call that is under way, step by step (`ToDo`): a cell
to write (`Passes`) or to erase (`Erases`), the cursor to take to the next row and
the screen to scroll (`Turns`), the hardware cursor to set. Every step of a call
takes something off that, and at its end the screen `Shows` the paper.

`LibcProofs` proves `MovesExactly`, `ComparesEqual`, `PrintsNumber`, `ReadsFormat` and
type correctness for any memory size, byte size, radix, width of word, arguments
and format: one loop invariant per function, in terms of
what has been moved, compared or shown so far. `memmove` needs one for each
direction, `strcat` that the strings do not overlap, which `Call` demands, and
`kprintf` that its flag says whether an odd run of percent signs precedes.
`tty_printint` divides and then prints, so its invariant has the list of quotients:
going up, the last one is left of the number, coming down, it is what has been
printed; the last quotient before 0 is the leading digit, which is therefore not 0,
and the number is below a power of the radix that shrinks with each division, so
that the digits fit the array. `tty_printhex` shifts: the digits printed, times the
word size, plus what is left, are the number times a power of the radix. Powers
and values of digits are recursive functions; that they exist and are what their
recursion says is proved for `Horner`, of which both are cases.

`InterruptProofs` proves, for every size of a byte, place of the stubs and of the
task state segment, number of vectors, set of exceptions and values of the flags
that satisfy `DescriptorConstants` and `InterruptConstants`: type correctness,
`SelectorsUsable`, `FrameMatchesStruct`, `IrqTransparent` and `ExceptionsEndThere`.
The first rests on lemmas about packing: what `gdt_create_entry` and
`idt_set_entry` take apart, the processor puts together again. The other
three need to know the stack word by word at each place of the stubs: `First` and
`Frame` say that it is what the processor and the stub pushed of the interrupted
context and nothing else, `Serving` which line is in service until `irq_handler`
ends it, and, after an exception, `Again`, `Above` and the `At...` conjuncts where
the saved flags are and how many words may lie above the interrupted stack.
`isr_common_stub` pops one word too many, so `iret` takes these flags for `cs`;
`NoReturn` shows that no value of the flags with bits 3 and 5 clear names a code
segment, which makes this end in a fault of vector 13, and `prev_int` bounds how
often. `InterruptConstants` therefore says that flags are flags: bits 3 and 5
clear, bits 1 and 9 not an instruction's result. It also leaves out exceptions 17
and 21, which push an error code their stubs do not expect: alignment checks are
never turned on, and the processors the kernel is for have no control protection.

The library's induction theorems are out of the provers' reach, since they take
an operator as a parameter. Where a fact needs induction over numbers (recursive
functions, walks, lengths of strings) it is proved from `Least`: a set of numbers
that is not empty has a least element, and the least counterexample contradicts
the recursion.

Each inductive invariant was checked by TLC on the run's instance before it was
proved.

Only model-checked:

- the liveness properties (`NoStarvation`, `KeysConsumed`, `ExceptionStops`, the
  fairness part of `RoundRobinImplemented`), which are out of this prover's reach.

Every invariant and every action property of a passing run is stated by a theorem.
The type invariants of `Keyboard`, `Kshell`, `Tty`, `Kmalloc`, `Interrupt` and `Libc`
describe their state and are part of no run; all but `Kmalloc`'s, whose links may
be anything once the list is lost, are proved.

## Not modelled

Boot code, port I/O, VGA cells and colours, build files, the user program and the
Rust test are left out: straight-line set-up, single instructions, or nothing the
kernel runs. `paging_create_userspace`, `strnlen`, `stdio` and most classes of
characters are never called. The check of the boot loader's magic number is a
panic at start-up. Exceptions that come while a stub or handler runs (other than
those the stubs themselves cause), non-maskable interrupts among them, are not
modelled.

## Plan

In order of importance; all but 10 are done.

1. `Task` with `RoundRobin`, and its proofs.
2. `Pmm` with `FrameAllocator`, and its proofs.
3. `Keyboard`.
4. `Kmalloc`.
5. `Vmm`.
6. `Kshell`, composing the line editor with `Keyboard` and `task_test`: the command that runs
   against the keys typed; backspace with keys typed ahead; the full line.
7. `Tty`: cursor and scrolling with preemption and printing from handlers;
   invariant: the cursor stays on the screen unless two printers meet in
   `tty_putc`.
8. `Interrupt` and `Descriptors`: the stubs word by word, error codes, nested
   exceptions, the table of vectors.
9. `Libc`: the string functions and conversions against reference definitions.
10. A composition of `Pmm` and `Vmm` through `FrameAllocator`.
11. Proofs about `Vmm`, `Kmalloc`, `Keyboard`, `Kshell`, `Tty` and `Libc`.
12. Proofs about `Interrupt` and `Descriptors`.
13. `ScreenShowsPaper` of `Tty`, `EditsAsTyped` and `EchoesLine` of `Kshell`,
    `PrintsNumber` of `Libc`.

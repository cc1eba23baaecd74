-------------------------------- MODULE Vmm ---------------------------------
(***************************************************************************)
(* The virtual memory manager and the page tables it fills: one block of   *)
(* pages, with a bitmap and a page table, after another, and the set-up of *)
(* the user half of the address space.                                     *)
(*                                                                         *)
(* Virtual pages are numbered from KERNEL_VIRT_BASE, physical frames from  *)
(* address 0.  Block b holds the pages from (b - 1) * PAGE_TABLE_INDICES   *)
(* on.  pmm_alloc_page is Pmm's, where it is shown to hand out the lowest  *)
(* free frame; frames are never freed, so they come in order.              *)
(***************************************************************************)
EXTENDS Integers, Sequences, FiniteSets

CONSTANTS
  PAGE_TABLE_INDICES,    \* 1024
  HIGH_WATER_THRESHOLD,  \* 1022
  FirstFrame,            \* first frame of the pmm's pool
  PoolFrames,            \* number of its frames
  MaxBlocks,             \* bound: vmm blocks
  MaxFrees               \* bound: calls of vmm_free_page

ASSUME VmmConstants ==
  /\ PAGE_TABLE_INDICES \in Nat /\ HIGH_WATER_THRESHOLD \in 1..PAGE_TABLE_INDICES - 1
  /\ FirstFrame \in Nat \ {0} /\ FirstFrame + 2 < HIGH_WATER_THRESHOLD
  /\ PoolFrames \in Nat \ {0, 1}
  /\ MaxBlocks \in Nat \ {0} /\ MaxFrees \in Nat

None    == -1
Indices == 0..PAGE_TABLE_INDICES - 1

BlockOf(page)  == page \div PAGE_TABLE_INDICES + 1
IndexOf(page)  == page % PAGE_TABLE_INDICES          \* PAGE_TABLE_INDEX
PageAt(b, i)   == (b - 1) * PAGE_TABLE_INDICES + i

VARIABLES
  phase,        \* next call of kmain; "ready" in between; a panic; "undefined"
  granted,      \* frames pmm_alloc_page has handed out
  blocks,       \* list of vmm_block_desc
  entries,      \* the page table of each block: frame or None
  directory,    \* frame of the page table in each block's directory entry
  user_table, user_stack,  \* frames of the user half: code table, stack page
  user_pages,   \* pages that hold the tables of the user half
  held,         \* pages vmm_alloc_page returned and nobody freed
  ret, asked,   \* its last answer, and a bit that flips with every answer
  freed         \* history: number of pages freed

vars == <<phase, granted, blocks, entries, directory, user_table, user_stack,
          user_pages, held, ret, asked, freed>>
userVars == <<user_table, user_stack, user_pages>>

Init ==
  /\ phase = "paging_init"
  /\ granted = 0
  /\ blocks = <<>> /\ entries = <<>> /\ directory = <<>>
  /\ user_table = None /\ user_stack = None /\ user_pages = {}
  /\ held = {} /\ ret = None /\ asked = 0 /\ freed = 0

\* The k-th frame from now; NULL, which is frame 0, when the pool is used up.
NextFrame(k) == IF granted + k <= PoolFrames THEN FirstFrame + granted + k - 1 ELSE 0

-----------------------------------------------------------------------------
(* Initialisation *)

\* A frame for the directory, one for a page table that maps the first frames
\* one to one.
paging_init ==
  /\ phase = "paging_init"
  /\ granted' = granted + 2
  /\ entries' = <<[i \in Indices |-> i]>>
  /\ directory' = <<NextFrame(2)>>
  /\ phase' = "vmm_init"
  /\ UNCHANGED <<blocks, held, ret, asked, freed, userVars>>

\* The initial page table is the last page in use.
first_free_page == directory[1] + 1

\* Fault: the page of the initial page table itself is left out.
vmm_init_short ==
  /\ phase = "vmm_init"
  /\ blocks' = <<[bitmap |-> 0..first_free_page - 2,
                  high_water_mark |-> first_free_page,
                  free_pages |-> PAGE_TABLE_INDICES - first_free_page,
                  page_table |-> directory[1]]>>
  /\ phase' = "ready"
  /\ UNCHANGED <<granted, entries, directory, held, ret, asked, freed, userVars>>

vmm_init ==
  /\ phase = "vmm_init"
  /\ blocks' = <<[bitmap |-> 0..first_free_page - 1,
                  high_water_mark |-> first_free_page,
                  free_pages |-> PAGE_TABLE_INDICES - first_free_page,
                  page_table |-> directory[1]]>>
  /\ phase' = "ready"
  /\ UNCHANGED <<granted, entries, directory, held, ret, asked, freed, userVars>>

-----------------------------------------------------------------------------
(* vmm_alloc_page *)

ClearBits(b) == Indices \ blocks[b].bitmap

\* Fault: a block is searched although it counts no free page.
FoundUncounted(b, i) ==
  /\ i \in ClearBits(b)
  /\ \A j \in ClearBits(b) : i <= j
  /\ \A c \in 1..b - 1 : ClearBits(c) = {}

\* The page the search comes to: the lowest clear bit of the first block that
\* counts a free page and has one.
Found(b, i) ==
  /\ blocks[b].free_pages # 0 /\ i \in ClearBits(b)
  /\ \A j \in ClearBits(b) : i <= j
  /\ \A c \in 1..b - 1 : blocks[c].free_pages = 0 \/ ClearBits(c) = {}

\* Fault: the bit of the page is not set.
TakenUnmarked(b, i) ==
  [blocks[b] EXCEPT !.free_pages = @ - 1,
                    !.high_water_mark = IF i + 1 >= @ THEN i + 1 ELSE @]

\* The descriptor of the block once the page is taken.
Taken(b, i) ==
  [blocks[b] EXCEPT !.bitmap = @ \cup {i},
                    !.free_pages = @ - 1,
                    !.high_water_mark = IF i + 1 >= @ THEN i + 1 ELSE @]

\* Fault: the mark is compared with a value that it never has.
AtHighWaterNever(b, i) ==
  Taken(b, i).high_water_mark = PAGE_TABLE_INDICES + 1 /\ b = Len(blocks)

AtHighWater(b, i) ==
  Taken(b, i).high_water_mark = HIGH_WATER_THRESHOLD /\ b = Len(blocks)

\* The page table once the page has a frame.
Mapped(table, i, frame) ==
  IF table[i] = None THEN [table EXCEPT ![i] = frame] ELSE table

AllocInBlock(b, i) ==
  /\ ~AtHighWater(b, i)
  /\ blocks' = [blocks EXCEPT ![b] = Taken(b, i)]
  /\ entries' = [entries EXCEPT ![b] = Mapped(@, i, NextFrame(1))]
  /\ granted' = granted + (IF entries[b][i] = None THEN 1 ELSE 0)
  /\ UNCHANGED directory

\* Fault: the directory entry refers to the frame of the page being allocated.
vmm_add_vmm_block_wrong_frame(b, i) ==
  LET table == [entries[b] EXCEPT ![HIGH_WATER_THRESHOLD] = NextFrame(1)] IN
  /\ blocks' = Append([blocks EXCEPT ![b] = Taken(b, i)],
                      [bitmap |-> {}, high_water_mark |-> 0,
                       free_pages |-> PAGE_TABLE_INDICES,
                       page_table |-> PageAt(b, HIGH_WATER_THRESHOLD)])
  /\ entries' = Append([entries EXCEPT ![b] = Mapped(table, i, NextFrame(2))],
                       [j \in Indices |-> None])
  /\ directory' = Append(directory, NextFrame(2))
  /\ granted' = granted + (IF entries[b][i] = None THEN 2 ELSE 1)

\* The new block's page table gets a fresh frame, mapped at the page of index
\* HIGH_WATER_THRESHOLD of this block; then the page itself is mapped.  Once the
\* pool is used up that frame is 0, again and again: see AllocBlockLost.
vmm_add_vmm_block(b, i) ==
  LET table == [entries[b] EXCEPT ![HIGH_WATER_THRESHOLD] = NextFrame(1)] IN
  /\ \A c \in DOMAIN directory : directory[c] # NextFrame(1)
  /\ blocks' = Append([blocks EXCEPT ![b] = Taken(b, i)],
                      [bitmap |-> {}, high_water_mark |-> 0,
                       free_pages |-> PAGE_TABLE_INDICES,
                       page_table |-> PageAt(b, HIGH_WATER_THRESHOLD)])
  /\ entries' = Append([entries EXCEPT ![b] = Mapped(table, i, NextFrame(2))],
                       [j \in Indices |-> None])
  /\ directory' = Append(directory, NextFrame(1))
  /\ granted' = granted + (IF entries[b][i] = None THEN 2 ELSE 1)

\* The answer, and where kmain goes on.
Answer(page, then) ==
  /\ held' = held \cup {page}
  /\ ret' = page /\ asked' = 1 - asked
  /\ phase' = then

\* kmalloc has no room for the new descriptor, and its NULL is written through;
\* or the new table lies where another block's does, and memset wipes that.
AllocBlockLost ==
  /\ phase' = "undefined"
  /\ UNCHANGED <<granted, blocks, entries, directory, held, ret, asked>>

AllocPanic ==
  /\ \A b \in DOMAIN blocks, i \in Indices : ~Found(b, i)
  /\ phase' = "panic: out of memory"
  /\ UNCHANGED <<granted, blocks, entries, directory, held, ret, asked>>

vmm_alloc_page(then) ==
  \/ \E b \in DOMAIN blocks, i \in Indices :
       /\ Found(b, i)
       /\ \/ AllocInBlock(b, i) /\ Answer(PageAt(b, i), then)
          \/ /\ AtHighWater(b, i) /\ b < MaxBlocks
             /\ vmm_add_vmm_block(b, i) /\ Answer(PageAt(b, i), then)
          \/ AtHighWater(b, i) /\ AllocBlockLost
  \/ AllocPanic

-----------------------------------------------------------------------------
(* vmm_free_page, vmm_get_phys_addr *)

\* The range test is a disjunction that is always true: the page is taken for
\* one of the first block's, and a bit outside its bitmap is cleared.
vmm_free_page(page) ==
  /\ phase = "ready"
  /\ IF page \in Indices
     THEN blocks' = [blocks EXCEPT ![1].bitmap = @ \ {page}] /\ phase' = "ready"
     ELSE UNCHANGED blocks /\ phase' = "undefined"
  /\ held' = held \ {page}
  /\ ret' = None
  /\ freed' = freed + 1
  /\ UNCHANGED <<granted, entries, directory, asked, userVars>>

\* The same disjunction: the first block's page table is always the one read.
vmm_get_phys_addr(tables, page) == tables[1][IndexOf(page)]

-----------------------------------------------------------------------------
(* paging_add_temp_userspace, in three steps that nothing comes between; the *)
(* page that one step allocates is written at the beginning of the next      *)

Translate(page) == entries[BlockOf(page)][IndexOf(page)]

\* The page's frame holds a page table (the first block maps one to one the
\* frames that the pool hands out later).
OverTable(page) == \E b \in DOMAIN directory : Translate(page) = directory[b]

TempUserTable ==
  /\ phase = "ready" /\ user_table = None
  /\ vmm_alloc_page("stack table")
  /\ IF phase' = "stack table"
     THEN /\ user_table' = vmm_get_phys_addr(entries', ret')
          /\ user_pages' = user_pages \cup {ret'}
     ELSE UNCHANGED <<user_table, user_pages>>
  /\ UNCHANGED <<user_stack, freed>>

TempStackTable ==
  /\ phase = "stack table" /\ ~OverTable(ret)
  /\ vmm_alloc_page("stack")
  /\ user_pages' = IF phase' = "stack" THEN user_pages \cup {ret'} ELSE user_pages
  /\ UNCHANGED <<user_table, user_stack, freed>>

\* Fault: the frame can be handed out again.
TempStack_unmarked ==
  /\ phase = "stack" /\ ~OverTable(ret)
  /\ user_stack' = NextFrame(1)
  /\ phase' = "ready"
  /\ UNCHANGED <<granted, blocks, entries, directory, user_table, user_pages, held,
                 ret, asked, freed>>

TempStack ==
  /\ phase = "stack" /\ ~OverTable(ret)
  /\ user_stack' = NextFrame(1)
  /\ granted' = granted + 1
  /\ phase' = "ready"
  /\ UNCHANGED <<blocks, entries, directory, user_table, user_pages, held, ret,
                 asked, freed>>

paging_add_temp_userspace == TempUserTable \/ TempStackTable \/ TempStack

-----------------------------------------------------------------------------
\* A caller writes to its page, or paging_add_temp_userspace to the one it has
\* just been given, and thereby over a page table.
CallerWritesTable ==
  /\ phase \in {"ready", "stack table", "stack"}
  /\ \E page \in IF phase = "ready" THEN held ELSE {ret} : OverTable(page)
  /\ phase' = "undefined"
  /\ UNCHANGED <<granted, blocks, entries, directory, held, ret, asked, freed,
                 userVars>>

\* A caller frees what it was given; the tables of the user half stay.
Next ==
  \/ paging_init \/ vmm_init \/ paging_add_temp_userspace
  \/ phase = "ready" /\ vmm_alloc_page("ready") /\ UNCHANGED <<freed, userVars>>
  \/ CallerWritesTable
  \/ \E page \in held \ user_pages : freed < MaxFrees /\ vmm_free_page(page)

Spec == Init /\ [][Next]_vars

-----------------------------------------------------------------------------
(* Properties *)

Phases == {"paging_init", "vmm_init", "ready", "stack table", "stack",
           "undefined", "panic: out of memory"}
Desc   == [bitmap : SUBSET Indices, high_water_mark : 0..PAGE_TABLE_INDICES,
           free_pages : 0..PAGE_TABLE_INDICES, page_table : Nat]

TypeOK ==
  /\ phase \in Phases
  /\ granted \in Nat
  /\ blocks \in Seq(Desc)
  /\ entries \in Seq([Indices -> Nat \cup {None}])
  /\ directory \in Seq(Nat)
  /\ user_table \in Nat \cup {None} /\ user_stack \in Nat \cup {None}
  /\ user_pages \in SUBSET Nat /\ held \in SUBSET Nat
  /\ ret \in Nat \cup {None} /\ asked \in {0, 1} /\ freed \in 0..MaxFrees

Working == phase \in {"ready", "stack table", "stack"}

\* The set bits are those of the boot pages and of the pages callers hold.
BitmapExact ==
  Working => \A b \in DOMAIN blocks :
    blocks[b].bitmap = {IndexOf(p) : p \in {q \in held : BlockOf(q) = b}}
                         \cup (IF b = 1 THEN 0..first_free_page - 1 ELSE {})

\* Until a caller writes over a page table, every page handed out can be used:
\* it has a frame in its block's page table, and the page directory leads to the
\* very table that the descriptor names.
PagesMapped ==
  Working => /\ \A p \in held : Translate(p) # None
             /\ \A b \in DOMAIN blocks : directory[b] = Translate(blocks[b].page_table)

\* A page in use is not handed out again.
HandedOutOnce == [][asked' # asked => ret' \notin held]_vars

\* A block never counts more free pages than it has, and as long as nothing is
\* freed it counts them exactly, with the high water mark at the first of them.
CountersSound ==
  Working => \A b \in DOMAIN blocks :
    /\ blocks[b].free_pages <= Cardinality(ClearBits(b))
    /\ freed = 0 =>
         /\ blocks[b].free_pages = Cardinality(ClearBits(b))
         /\ blocks[b].bitmap = 0..blocks[b].high_water_mark - 1

\* As long as nothing is freed, the next block is in place before the last one
\* is used up: the allocator does not run out of pages.
NextBlockInTime == phase = "panic: out of memory" => freed > 0

\* A frame of the pool has one use: no two pages outside the one-to-one mapping,
\* tables of blocks included, nor the user stack nor the first page table, share
\* one, as long as there are any.  (Pages of the first block do share frames.)
FramesUsedOnce ==
  LET fresh == { p \in 0..Len(blocks) * PAGE_TABLE_INDICES - 1 :
                   /\ Translate(p) \notin {None, 0}
                   /\ BlockOf(p) > 1 \/ \E b \in 2..Len(blocks) : blocks[b].page_table = p } IN
  Working => /\ \A p, q \in fresh : Translate(p) = Translate(q) => p = q
             /\ \A p \in fresh : Translate(p) \notin {user_stack, directory[1]}

(* What a comment of the code says and the code does not do *)

\* "Leave a buffer of two pages": the page a page table is mapped at is not
\* handed out.
TablePagesKept == Working => \A b \in DOMAIN blocks : blocks[b].page_table \notin held
=============================================================================

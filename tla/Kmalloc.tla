------------------------------ MODULE Kmalloc -------------------------------
(***************************************************************************)
(* The kernel heap: a first-fit allocator over a linked list of free       *)
(* blocks in address order, in the manner of Kernighan and Ritchie.        *)
(*                                                                         *)
(* Memory is counted in granules of 8 bytes, the unit the code rounds      *)
(* sizes up to.  A block is a header of one granule (size, next_block) and *)
(* the memory after it.  The third field of struct memory_block,           *)
(* free_memory, lies in the first granule of that memory, so whoever is    *)
(* given the block overwrites it.                                          *)
(*                                                                         *)
(* Two things ruin the list: an allocation that takes a whole block, which *)
(* stays in the list, and a growth while block_list_tail is not the last   *)
(* block, which cuts the list or links the page to nothing.  `intact' says *)
(* that neither has happened, and the model stops when one does.           *)
(***************************************************************************)
EXTENDS Integers

CONSTANTS
  SizeMod,              \* range of size_t (2^32)
  GRANULE,              \* 8 bytes
  BLOCK_HEADER_SIZE,    \* in granules: 1
  SMALLEST_BLOCK_SIZE,  \* in granules: 4
  PAGE_SIZE,            \* in granules: 512
  InitBlock,            \* address of kmalloc_init_block
  FirstPage,            \* address of the first page vmm_alloc_page returns
  MaxPages,             \* bound: pages the heap grows by
  Requests              \* sizes asked for, in bytes

ASSUME KmallocConstants ==
  /\ GRANULE \in Nat \ {0} /\ BLOCK_HEADER_SIZE = 1
  /\ SMALLEST_BLOCK_SIZE \in Nat \ {0, 1}
  /\ PAGE_SIZE \in Nat /\ PAGE_SIZE > SMALLEST_BLOCK_SIZE + BLOCK_HEADER_SIZE
  /\ InitBlock \in Nat \ {0} /\ FirstPage \in Nat /\ MaxPages \in Nat
  /\ InitBlock + PAGE_SIZE <= FirstPage
  /\ SizeMod \in Nat /\ Requests \subseteq Nat

\* Rounding a request up does not wrap: what the kernel asks for are the sizes of
\* its structures.
ASSUME RequestsSmall == \A bytes \in Requests : bytes + GRANULE - 1 < SizeMod

NULL    == 0
Garbage == -1   \* what a caller left in its memory

\* vmm_alloc_page hands out ascending pages (its first fit; nothing is freed).
Page(k)    == FirstPage + PAGE_SIZE * k
Extent(a, n) == a..a + n - 1
Address    == Extent(InitBlock, PAGE_SIZE) \cup Extent(FirstPage, PAGE_SIZE * MaxPages)

VARIABLES
  size, next_block,        \* the header at each address
  free_memory,             \* the field after it
  block_list_head, block_list_tail,
  pages,                   \* pages obtained from vmm_alloc_page
  held,                    \* <<pointer, granules>> given to callers
  refused,                 \* granules of the request just answered with NULL
  intact

vars == <<size, next_block, free_memory, block_list_head, block_list_tail,
          pages, held, refused, intact>>

\* kmalloc_init
Init ==
  /\ size = [a \in Address |-> IF a = InitBlock THEN PAGE_SIZE ELSE 0]
  /\ next_block = [a \in Address |-> NULL]
  /\ free_memory = [a \in Address |-> IF a = InitBlock
                                      THEN InitBlock + BLOCK_HEADER_SIZE ELSE 0]
  /\ block_list_head = InitBlock /\ block_list_tail = InitBlock
  /\ pages = 0 /\ held = {} /\ refused = 0 /\ intact = TRUE

-----------------------------------------------------------------------------
(* The list *)

\* Block number i of the list, NULL after its end.  A block takes at least two
\* granules.
Block[i \in 0..(PAGE_SIZE * (MaxPages + 1)) \div 2] ==
  IF i = 0 THEN block_list_head
  ELSE LET b == Block[i - 1] IN IF b = NULL THEN NULL ELSE next_block[b]

FreeList  == {Block[i] : i \in DOMAIN Block} \ {NULL}
LastBlock == CHOOSE b \in FreeList : next_block[b] = NULL

-----------------------------------------------------------------------------
(* kmalloc *)

alloc_size(bytes) == ((bytes + GRANULE - 1) % SizeMod) \div GRANULE

Fits(b, n)     == n <= size[b] - BLOCK_HEADER_SIZE
LeftOver(b, n) == size[b] - BLOCK_HEADER_SIZE - n

\* The first block of the list that is large enough.
FirstFit(b, n) ==
  \E i \in DOMAIN Block :
    /\ Block[i] = b /\ b # NULL /\ Fits(b, n)
    /\ \A j \in 0..i - 1 : ~Fits(Block[j], n)

\* Fault: the block that is split keeps its size.
kmalloc_split_block_unshrunk(b, n) ==
  LET new == b + size[b] - (n + BLOCK_HEADER_SIZE) IN
  /\ size' = [size EXCEPT ![new] = n + BLOCK_HEADER_SIZE]
  /\ next_block' = [next_block EXCEPT ![new] = NULL]
  /\ free_memory' = [free_memory EXCEPT ![new] = Garbage]
  /\ held' = held \cup {<<new + BLOCK_HEADER_SIZE, n>>}

\* The caller gets the end of the block, and overwrites free_memory.
kmalloc_split_block(b, n) ==
  LET new == b + size[b] - (n + BLOCK_HEADER_SIZE) IN
  /\ size' = [size EXCEPT ![new] = n + BLOCK_HEADER_SIZE,
                          ![b] = @ - (n + BLOCK_HEADER_SIZE)]
  /\ next_block' = [next_block EXCEPT ![new] = NULL]
  /\ free_memory' = [free_memory EXCEPT ![new] = Garbage]
  /\ held' = held \cup {<<new + BLOCK_HEADER_SIZE, n>>}

Split(n) ==
  \E b \in FreeList :
    /\ FirstFit(b, n) /\ LeftOver(b, n) >= SMALLEST_BLOCK_SIZE
    /\ kmalloc_split_block(b, n)
    /\ refused' = 0
    /\ UNCHANGED <<block_list_head, block_list_tail, pages, intact>>

Whole(n) ==
  \E b \in FreeList :
    /\ FirstFit(b, n) /\ LeftOver(b, n) < SMALLEST_BLOCK_SIZE
    /\ held' = held \cup {<<free_memory[b], n>>}
    /\ refused' = 0
    /\ intact' = FALSE
    /\ UNCHANGED <<size, next_block, free_memory, block_list_head,
                   block_list_tail, pages>>

\* Fault: the new page is not linked to the list.
GrowUnlinked(n) ==
  LET new == Page(pages) IN
  /\ \A b \in FreeList : ~Fits(b, n)
  /\ pages < MaxPages
  /\ pages' = pages + 1
  /\ size' = [size EXCEPT ![new] = PAGE_SIZE]
  /\ free_memory' = [free_memory EXCEPT ![new] = new + BLOCK_HEADER_SIZE]
  /\ refused' = n
  /\ UNCHANGED <<next_block, block_list_head, block_list_tail, held, intact>>

\* No block is large enough: a page is linked after block_list_tail, which is
\* left as it is, and the answer is NULL all the same.
Grow(n) ==
  LET new == Page(pages) IN
  /\ \A b \in FreeList : ~Fits(b, n)
  /\ pages < MaxPages
  /\ pages' = pages + 1
  /\ size' = [size EXCEPT ![new] = PAGE_SIZE]
  /\ free_memory' = [free_memory EXCEPT ![new] = new + BLOCK_HEADER_SIZE]
  /\ next_block' = [next_block EXCEPT ![new] = NULL, ![block_list_tail] = new]
  /\ refused' = n
  /\ intact' = (block_list_tail = LastBlock)
  /\ UNCHANGED <<block_list_head, block_list_tail, held>>

kmalloc(bytes) ==
  /\ intact
  /\ \/ bytes = 0 /\ refused' = 0
        /\ UNCHANGED <<size, next_block, free_memory, block_list_head,
                       block_list_tail, pages, held, intact>>
     \/ bytes # 0 /\ (\/ Split(alloc_size(bytes))
                      \/ Whole(alloc_size(bytes))
                      \/ Grow(alloc_size(bytes)))

-----------------------------------------------------------------------------
(* kfree *)

\* The neighbours of a block in the list, NULL where there is none.
PrevBlock(new) ==
  IF new < block_list_head \/ {b \in FreeList : b < new} = {} THEN NULL
  ELSE CHOOSE b \in FreeList :
         b < new /\ (next_block[b] > new \/ next_block[b] = NULL)
NextBlock(new) ==
  IF new < block_list_head THEN block_list_head
  ELSE IF PrevBlock(new) = NULL THEN NULL ELSE next_block[PrevBlock(new)]

Adjacent(a, b) == a # NULL /\ b # NULL /\ a + size[a] = b

\* Fault: the block is not merged with the free block before it.
kmalloc_coalesce_right_only(prev, new, next) ==
  LET right == Adjacent(new, next) IN
  /\ size' = [b \in Address |-> IF right /\ b = next THEN 0
                                ELSE IF right /\ b = new THEN size[new] + size[next]
                                ELSE size[b]]
  /\ next_block' = [b \in Address |-> IF right /\ b = next THEN NULL
                                      ELSE IF b = new
                                      THEN IF right THEN next_block[next] ELSE next
                                      ELSE IF b = prev THEN new ELSE next_block[b]]
  /\ block_list_tail' = IF right /\ block_list_tail = next THEN new
                        ELSE IF prev # NULL /\ next = NULL THEN new
                        ELSE block_list_tail
  /\ UNCHANGED free_memory

\* The block is linked between its neighbours and merged with the one after
\* it, and the result with the one before.  Only the first merge looks at the
\* tail of the list.  The header of a merged block is dead memory that nobody
\* reads, and the model clears it.
kmalloc_coalesce(prev, new, next) ==
  LET right  == Adjacent(new, next)
      left   == Adjacent(prev, new)
      into   == IF left THEN prev ELSE new
      merged == size[new] + (IF right THEN size[next] ELSE 0)
                          + (IF left THEN size[prev] ELSE 0)
      after  == IF right THEN next_block[next] ELSE next
      dead   == (IF right THEN {next} ELSE {}) \cup (IF left THEN {new} ELSE {})
  IN
  /\ size' = [b \in Address |-> IF b \in dead THEN 0
                                ELSE IF b = into THEN merged ELSE size[b]]
  /\ next_block' = [b \in Address |-> IF b \in dead THEN NULL
                                      ELSE IF b = into THEN after
                                      ELSE IF b = prev THEN new ELSE next_block[b]]
  /\ free_memory' = [b \in Address |-> IF b \in dead THEN 0 ELSE free_memory[b]]
  /\ block_list_tail' = IF right /\ block_list_tail = next THEN new
                        ELSE IF prev # NULL /\ next = NULL THEN new
                        ELSE block_list_tail

\* A caller frees what it was given.
kfree(block) ==
  LET new == block[1] - BLOCK_HEADER_SIZE IN
  /\ intact
  /\ block_list_head' = IF PrevBlock(new) = NULL THEN new ELSE block_list_head
  /\ kmalloc_coalesce(PrevBlock(new), new, NextBlock(new))
  /\ held' = held \ {block}
  /\ refused' = 0
  /\ UNCHANGED <<pages, intact>>

-----------------------------------------------------------------------------
Next == \/ \E bytes \in Requests : kmalloc(bytes)
        \/ \E block \in held : kfree(block)

Spec == Init /\ [][Next]_vars

-----------------------------------------------------------------------------
(* Properties *)

TypeOK ==
  /\ size \in [Address -> 0..PAGE_SIZE * (MaxPages + 1)]
  /\ next_block \in [Address -> Address \cup {NULL}]
  /\ free_memory \in [Address -> Address \cup {0, Garbage}]
  /\ block_list_head \in Address /\ block_list_tail \in Address
  /\ pages \in 0..MaxPages
  /\ held \subseteq (Address \cup {Garbage}) \X Nat
  /\ refused \in Nat /\ intact \in BOOLEAN

HeapMemory == Extent(InitBlock, PAGE_SIZE) \cup Extent(FirstPage, PAGE_SIZE * pages)
FreeExtent(b) == Extent(b, size[b])
HeldExtent(h) == Extent(h[1] - BLOCK_HEADER_SIZE, h[2] + BLOCK_HEADER_SIZE)

\* Whatever the order of kmalloc and kfree, every granule of the heap is in one
\* free block or in one caller's block, and in one only: no two free blocks
\* overlap, no two callers share memory, and nothing a caller holds is free, so
\* nothing that is held can be handed out again.
HeapPartitioned ==
  intact =>
    /\ UNION ({FreeExtent(b) : b \in FreeList} \cup {HeldExtent(h) : h \in held}) = HeapMemory
    /\ \A b, c \in FreeList : b # c => FreeExtent(b) \cap FreeExtent(c) = {}
    /\ \A g, h \in held : g # h => HeldExtent(g) \cap HeldExtent(h) = {}
    /\ \A b \in FreeList, h \in held : FreeExtent(b) \cap HeldExtent(h) = {}

\* The list is in address order, and kfree leaves no two neighbours unmerged
\* (a page is never merged with the block before it when the heap grows).
ListCoalesced ==
  intact => \A b \in FreeList : next_block[b] # NULL =>
    /\ b < next_block[b]
    /\ b + size[b] = next_block[b] => \E k \in 0..MaxPages : next_block[b] = Page(k)

\* A request for less than a page that was answered with NULL succeeds when it
\* is made again: the page it brought in is reachable from the list.
RetrySucceeds ==
  intact /\ refused # 0 /\ refused + BLOCK_HEADER_SIZE <= PAGE_SIZE
    => \E b \in FreeList : Fits(b, refused)

(* What a comment of the code says and the code does not do *)

\* "a linked list of the free memory is kept": what a caller holds is not in it.
FreeListIsFree ==
  \A b \in FreeList, h \in held : h[1] \notin Extent(b, size[b])
=============================================================================

-------------------------------- MODULE Pmm ---------------------------------
(***************************************************************************)
(* The physical memory manager: a pool of page frames between the end of   *)
(* the kernel image and the end of memory, and one bit per frame.          *)
(*                                                                         *)
(* The bitmap is the set of the numbers of its set bits; bit n is bit      *)
(* n % 32 of word n / 32.  The word width, the page size, the length of    *)
(* the bitmap and the width of an address are parameters, so that small    *)
(* values keep the arithmetic of the code.                                 *)
(***************************************************************************)
EXTENDS Integers, FiniteSetsExt

CONSTANTS
  PAGE_SIZE,     \* 4096
  WORD_BITS,     \* 32
  BITMAP_WORDS,  \* 8192
  ADDR_MOD,      \* 2^32
  KernelEnd,     \* &kernel_end_addr_phys
  MemMaps,       \* memory maps the boot loader may pass
  ModPages       \* where it may load the module: pages after the pool's first
                 \* (grub.cfg always loads one; mods_count is not looked at)

Available(map) == {i \in DOMAIN map : map[i].available}

ASSUME PmmConstants ==
  /\ PAGE_SIZE \in Nat \ {0} /\ WORD_BITS \in Nat \ {0}
  /\ PAGE_SIZE % WORD_BITS = 0
  /\ BITMAP_WORDS \in Nat \ {0} /\ ADDR_MOD \in Nat \ {0}
  /\ KernelEnd \in Nat \ {0}
  /\ ModPages \subseteq Nat

NULL == 0
None == -1

VARIABLES
  phase,          \* "boot", "ready", a panic, or "undefined" after an access
                  \* outside the bitmap
  memmap,         \* history: the memory map that was passed
  starting_addr,
  page_count,
  bitmap,
  user_task,      \* phys_addr_start of the boot module
  held,           \* addresses returned by pmm_alloc_page and not freed
  ret,            \* answer of the last pmm_alloc_page
  asked           \* history: flips with every pmm_alloc_page that answers

vars     == <<phase, memmap, starting_addr, page_count, bitmap, user_task, held,
              ret, asked>>
poolVars == <<memmap, starting_addr, page_count, user_task>>

Init ==
  /\ phase = "boot"
  /\ memmap = <<>>
  /\ starting_addr = NULL
  /\ page_count = 0
  /\ bitmap = {}
  /\ user_task = NULL
  /\ held = {}
  /\ ret = None
  /\ asked = 0

PAGE_ALIGN(x) == x - (x % PAGE_SIZE)

-----------------------------------------------------------------------------
(* pmm_init *)

FirstPage == IF PAGE_ALIGN(KernelEnd) < KernelEnd
             THEN PAGE_ALIGN(KernelEnd) + PAGE_SIZE
             ELSE PAGE_ALIGN(KernelEnd)

\* Every available entry overwrites what the ones before it said.
LastMemAddr(map) ==
  LET last == Max(Available(map)) IN (map[last].addr + map[last].len) % ADDR_MOD

\* Some region is available (the kernel was loaded into one), and the last one
\* does not end before the kernel does.
ASSUME MapsReachPool ==
  \A map \in MemMaps : /\ Available(map) # {}
                       /\ LastMemAddr(map) \in Nat /\ LastMemAddr(map) >= FirstPage

\* Fault: the last, partial page is not trimmed.
LastPageUntrimmed(last_mem_addr) == PAGE_ALIGN(last_mem_addr)

LastPage(last_mem_addr) ==
  IF PAGE_ALIGN(last_mem_addr) + PAGE_SIZE > last_mem_addr
  THEN PAGE_ALIGN(last_mem_addr) - PAGE_SIZE
  ELSE PAGE_ALIGN(last_mem_addr)

\* Fault: the ends of the pool are subtracted the wrong way round.
pmm_init_struct_swapped(last_mem_addr) ==
  /\ starting_addr' = FirstPage
  /\ page_count' = (FirstPage - (LastPage(last_mem_addr) + PAGE_SIZE)) \div PAGE_SIZE

pmm_init_struct(last_mem_addr) ==
  /\ starting_addr' = FirstPage
  /\ page_count' = (LastPage(last_mem_addr) + PAGE_SIZE - FirstPage) \div PAGE_SIZE

BitmapBits == BITMAP_WORDS * WORD_BITS

\* The bit pmm_init_user_task sets.  `page' is a distance in bytes, and modules
\* are page aligned, so it is bit 0 of word page >> 5.
ModuleBit(start, mod_start) == ((mod_start - start) \div WORD_BITS) * WORD_BITS

pmm_init_user_task(mod_start) ==
  /\ user_task' = mod_start
  /\ IF ModuleBit(FirstPage, mod_start) < BitmapBits
     THEN bitmap' = {ModuleBit(FirstPage, mod_start)} /\ phase' = "ready"
     ELSE bitmap' = {} /\ phase' = "undefined"

pmm_init(map, mod_page) ==
  /\ phase = "boot"
  /\ memmap' = map
  /\ pmm_init_struct(LastMemAddr(map))
  /\ pmm_init_user_task(FirstPage + PAGE_SIZE * mod_page)
  /\ UNCHANGED <<held, ret, asked>>

\* The loader did not set bit 6 of the flags.
pmm_init_no_map ==
  /\ phase = "boot"
  /\ phase' = "panic: invalid GRUB memory map"
  /\ UNCHANGED <<bitmap, held, ret, asked, poolVars>>

-----------------------------------------------------------------------------
(* pmm_alloc_page, pmm_free_page *)

Frame(p) == starting_addr + PAGE_SIZE * p

\* The bits of the page_count / 32 words the loop looks at.
Scanned == 0..(page_count \div WORD_BITS) * WORD_BITS - 1
Free    == {p \in Scanned : p < BitmapBits} \ bitmap

\* Fault: the bit of the page that is returned is not set.
AllocFreeUnmarked ==
  \E p \in Free :
    /\ \A q \in Free : p <= q
    /\ held' = held \cup {Frame(p)}
    /\ ret' = Frame(p) /\ asked' = 1 - asked
    /\ UNCHANGED <<phase, bitmap>>

AllocFree ==
  \E p \in Free :
    /\ \A q \in Free : p <= q
    /\ bitmap' = bitmap \cup {p}
    /\ held' = held \cup {Frame(p)}
    /\ ret' = Frame(p) /\ asked' = 1 - asked
    /\ UNCHANGED phase

AllocNone ==
  /\ Free = {} /\ \A p \in Scanned : p < BitmapBits
  /\ ret' = NULL /\ asked' = 1 - asked
  /\ UNCHANGED <<phase, bitmap, held>>

\* The loop runs on past the end of the bitmap.
AllocOutside ==
  /\ Free = {} /\ \E p \in Scanned : p >= BitmapBits
  /\ phase' = "undefined"
  /\ UNCHANGED <<bitmap, held, ret, asked>>

pmm_alloc_page ==
  /\ phase = "ready"
  /\ AllocFree \/ AllocNone \/ AllocOutside
  /\ UNCHANGED poolVars

\* line 163: starting_addr * (PAGE_SIZE * (page_count - 1)) in 32 bits
LastPageAddr == (starting_addr * (PAGE_SIZE * (page_count - 1))) % ADDR_MOD

Index(addr) == (PAGE_ALIGN(addr) - starting_addr) \div PAGE_SIZE

\* Fault: SET_BIT where CLEAR_BIT is meant.
pmm_free_page_sets(page) ==
  /\ phase = "ready"
  /\ IF PAGE_ALIGN(page) >= starting_addr /\ PAGE_ALIGN(page) <= LastPageAddr
     THEN /\ bitmap' = bitmap \cup {Index(page)}
          /\ held' = held \ {PAGE_ALIGN(page)}
          /\ ret' = None
          /\ UNCHANGED phase
     ELSE /\ phase' = "panic: page not in page pool"
          /\ UNCHANGED <<bitmap, held, ret>>
  /\ UNCHANGED <<asked, poolVars>>

pmm_free_page(page) ==
  /\ phase = "ready"
  /\ IF PAGE_ALIGN(page) >= starting_addr /\ PAGE_ALIGN(page) <= LastPageAddr
     THEN /\ bitmap' = bitmap \ {Index(page)}
          /\ held' = held \ {PAGE_ALIGN(page)}
          /\ ret' = None
          /\ UNCHANGED phase
     ELSE /\ phase' = "panic: page not in page pool"
          /\ UNCHANGED <<bitmap, held, ret>>
  /\ UNCHANGED <<asked, poolVars>>

-----------------------------------------------------------------------------
\* A caller frees what it was given, by any address inside the page.
Next ==
  \/ \E map \in MemMaps, k \in ModPages : pmm_init(map, k)
  \/ pmm_init_no_map
  \/ pmm_alloc_page
  \/ \E f \in held, offset \in {0, PAGE_SIZE - 1} : pmm_free_page(f + offset)

Spec == Init /\ [][Next]_vars

-----------------------------------------------------------------------------
(* Properties *)

Phases == {"boot", "ready", "undefined", "panic: invalid GRUB memory map",
           "panic: page not in page pool"}

TypeOK ==
  /\ phase \in Phases
  /\ memmap \in MemMaps \cup {<<>>}
  /\ starting_addr \in Nat /\ page_count \in Nat
  /\ bitmap \in SUBSET Nat
  /\ user_task \in Nat
  /\ held \in SUBSET Nat
  /\ ret \in Nat \cup {None} /\ asked \in {0, 1}

\* While the allocator works, the set bits are those of the frames callers hold
\* and the one set at boot: no frame is lost and none is held unmarked,
\* whatever the order of allocations and frees.
BitmapExact ==
  phase = "ready" => bitmap = {Index(f) : f \in held}
                                \cup {ModuleBit(starting_addr, user_task)}

\* A frame a caller holds is page aligned and lies wholly between the end of
\* the kernel image and the end of memory (the trimming in pmm_init_struct).
FramesInMemory ==
  \A f \in held : /\ f % PAGE_SIZE = 0
                  /\ KernelEnd <= f /\ f + PAGE_SIZE <= LastMemAddr(memmap)

\* The frames pmm_alloc_page can ever return: whole words of the bitmap, without
\* the bit that was set for the module.
Pool == {Frame(p) : p \in {q \in Scanned : q < BitmapBits}
                            \ {ModuleBit(starting_addr, user_task)}}

\* First fit over the bitmap implements the abstract allocator: a frame is never
\* handed out twice, and NULL means that the pool is used up.
FA == INSTANCE FrameAllocator WITH pool <- Pool, out <- held
AllocatorImplemented == FA!FASpec

(* What a comment of the code says and the code does not do *)

\* "I need to reserve the memory (assuming that the size of the user task is
\* <PAGE_SIZE)": the module's page is never handed out.
ModuleReserved == phase = "ready" => user_task \notin held
=============================================================================

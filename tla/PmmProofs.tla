----------------------------- MODULE PmmProofs ------------------------------
(***************************************************************************)
(* Proofs about Pmm for any page size, word width, bitmap length and       *)
(* memory map.                                                             *)
(***************************************************************************)
EXTENDS Pmm, TLAPS

-----------------------------------------------------------------------------
(* Arithmetic *)

\* A non-negative number that is a multiple of d is no smaller than d unless it
\* is zero.
LEMMA MultipleOf ==
  ASSUME NEW d \in Nat \ {0}, NEW a \in Nat, NEW b \in Nat, a < b
  PROVE  d * a + d <= d * b
<1>1. b - a - 1 \in Nat /\ d \in Nat
  OBVIOUS
<1>2. d * (b - a - 1) >= 0
  BY <1>1
<1>3. d * b = d * a + d + d * (b - a - 1)
  OBVIOUS
<1> QED
  BY <1>1, <1>2, <1>3

\* Division with remainder is unique.
LEMMA DivMod ==
  ASSUME NEW d \in Nat \ {0}, NEW q \in Nat, NEW r \in 0..d - 1
  PROVE  /\ (d * q + r) \div d = q
         /\ (d * q + r) % d = r
<1> DEFINE x == d * q + r
           e == x \div d
           s == x % d
<1>1. x \in Nat /\ e \in Nat /\ s \in 0..d - 1 /\ x = d * e + s
  OBVIOUS
<1> HIDE DEF e, s
<1>2. ~(e < q)
  BY <1>1, MultipleOf
<1>3. ~(q < e)
  BY <1>1, MultipleOf
<1>4. e = q
  BY <1>1, <1>2, <1>3
<1> QED
  BY <1>1, <1>4 DEF e, s

\* Rounding down to a multiple.
LEMMA RoundDown ==
  ASSUME NEW d \in Nat \ {0}, NEW x \in Nat
  PROVE  /\ (x \div d) \in Nat /\ (x \div d) * d <= x
         /\ x - (x % d) = d * (x \div d)
OBVIOUS

-----------------------------------------------------------------------------
(* The inductive invariant *)

mb     == ModuleBit(starting_addr, user_task)
Usable == {p \in Scanned : p < BitmapBits}

\* Before pmm_init the pool is empty; afterwards it starts at the first whole
\* page after the kernel and ends within memory.
PoolShape ==
  \/ starting_addr = NULL /\ page_count = 0 /\ phase # "ready"
  \/ /\ starting_addr = FirstPage
     /\ phase # "boot" /\ memmap \in MemMaps
     /\ FirstPage + PAGE_SIZE * page_count <= LastMemAddr(memmap)

\* The frames held are those of the set bits other than the module's, and only
\* bits the scan looks at are ever set for them.
HeldBits ==
  /\ held = {Frame(p) : p \in bitmap \ {mb}}
  /\ bitmap \subseteq Usable \cup {mb}
  /\ phase = "ready" => mb \in bitmap

IInv == TypeOK /\ PoolShape /\ HeldBits

\* The pool starts on a page boundary at or after the end of the kernel.
LEMMA FirstPageAligned ==
  /\ FirstPage \in Nat /\ FirstPage >= KernelEnd
  /\ \E k \in Nat : FirstPage = PAGE_SIZE * k
<1> DEFINE k == KernelEnd \div PAGE_SIZE
<1>1. k \in Nat /\ PAGE_ALIGN(KernelEnd) = PAGE_SIZE * k
  BY PmmConstants, RoundDown DEF PAGE_ALIGN
<1>2. KernelEnd - PAGE_ALIGN(KernelEnd) \in 0..PAGE_SIZE - 1
  BY PmmConstants DEF PAGE_ALIGN
<1>3. PAGE_SIZE * k + PAGE_SIZE = PAGE_SIZE * (k + 1)
  BY <1>1, PmmConstants
<1> HIDE DEF k
<1>4. CASE PAGE_ALIGN(KernelEnd) < KernelEnd
  <2>1. FirstPage = PAGE_SIZE * (k + 1) /\ k + 1 \in Nat
    BY <1>1, <1>3, <1>4 DEF FirstPage
  <2>2. FirstPage >= KernelEnd /\ FirstPage \in Nat
    BY <1>1, <1>2, <1>4, PmmConstants DEF FirstPage
  <2> QED
    BY <2>1, <2>2
<1>5. CASE ~(PAGE_ALIGN(KernelEnd) < KernelEnd)
  <2>1. FirstPage = PAGE_SIZE * k
    BY <1>1, <1>5 DEF FirstPage
  <2>2. FirstPage >= KernelEnd /\ FirstPage \in Nat
    BY <1>1, <1>5, <2>1, PmmConstants
  <2> QED
    BY <1>1, <2>1, <2>2
<1> QED
  BY <1>4, <1>5

\* Frames are page aligned, distinct and in the order of their bits, and a bit
\* is found again from any address inside its frame.
LEMMA Frames ==
  ASSUME starting_addr = FirstPage, NEW p \in Nat
  PROVE  /\ Frame(p) \in Nat /\ Frame(p) % PAGE_SIZE = 0 /\ Frame(p) >= KernelEnd
         /\ \A offset \in 0..PAGE_SIZE - 1 :
               /\ PAGE_ALIGN(Frame(p) + offset) = Frame(p)
               /\ Index(Frame(p) + offset) = p
         /\ \A q \in Nat : p < q => Frame(p) + PAGE_SIZE <= Frame(q)
<1>1. PICK k \in Nat : FirstPage = PAGE_SIZE * k
  BY FirstPageAligned
<1>2. Frame(p) = PAGE_SIZE * (k + p) /\ k + p \in Nat
  BY <1>1, PmmConstants DEF Frame
<1>3. Frame(p) \in Nat /\ Frame(p) >= KernelEnd
  <2>1. PAGE_SIZE * p \in Nat
    BY PmmConstants
  <2> QED
    BY <2>1, FirstPageAligned, PmmConstants DEF Frame
<1>4. ASSUME NEW offset \in 0..PAGE_SIZE - 1
      PROVE  /\ (Frame(p) + offset) % PAGE_SIZE = offset
             /\ PAGE_ALIGN(Frame(p) + offset) = Frame(p)
             /\ Index(Frame(p) + offset) = p
  <2>1. (Frame(p) + offset) % PAGE_SIZE = offset
    <3>1. PICK j \in Nat : j = k + p
      BY <1>2
    <3>2. (PAGE_SIZE * j + offset) % PAGE_SIZE = offset
      BY PmmConstants, DivMod
    <3> QED
      BY <1>2, <3>1, <3>2
  <2>2. PAGE_ALIGN(Frame(p) + offset) = Frame(p)
    BY <1>3, <2>1, PmmConstants DEF PAGE_ALIGN
  <2>3. Frame(p) - starting_addr = PAGE_SIZE * p + 0
    BY FirstPageAligned, PmmConstants DEF Frame
  <2>4. (PAGE_SIZE * p + 0) \div PAGE_SIZE = p
    BY PmmConstants, DivMod
  <2> QED
    BY <2>1, <2>2, <2>3, <2>4 DEF Index
<1>5. Frame(p) % PAGE_SIZE = 0
  <2>1. 0 \in 0..PAGE_SIZE - 1 /\ Frame(p) + 0 = Frame(p)
    BY <1>3, PmmConstants
  <2> QED
    BY <1>4, <2>1
<1>6. ASSUME NEW q \in Nat, p < q
      PROVE  Frame(p) + PAGE_SIZE <= Frame(q)
  <2>1. PAGE_SIZE * p + PAGE_SIZE <= PAGE_SIZE * q
    BY <1>6, PmmConstants, MultipleOf
  <2>2. PAGE_SIZE * p \in Nat /\ PAGE_SIZE * q \in Nat
    BY PmmConstants
  <2> QED
    BY <2>1, <2>2, FirstPageAligned, PmmConstants DEF Frame
<1> QED
  BY <1>3, <1>4, <1>5, <1>6

\* Bits the scan looks at are numbers of pages of the pool.
LEMMA ScannedPages ==
  ASSUME page_count \in Nat
  PROVE  \A p \in Scanned : p \in Nat /\ p < page_count
<1>1. (page_count \div WORD_BITS) * WORD_BITS <= page_count
  BY PmmConstants, RoundDown
<1>2. (page_count \div WORD_BITS) * WORD_BITS \in Nat
  BY PmmConstants
<1> QED
  BY <1>1, <1>2 DEF Scanned

-----------------------------------------------------------------------------
(* The invariant is preserved *)

\* Before pmm_init the invariant holds.
LEMMA InitIInv == Init => IInv
<1> SUFFICES ASSUME Init PROVE IInv
  OBVIOUS
<1>1. TypeOK
  BY DEF Init, TypeOK, Phases, NULL, None
<1>2. PoolShape
  BY DEF Init, PoolShape
<1>3. held = {Frame(p) : p \in bitmap \ {mb}}
  BY DEF Init
<1>4. HeldBits
  BY <1>3 DEF Init, HeldBits
<1> QED
  BY <1>1, <1>2, <1>4 DEF IInv

\* What pmm_init computes: a pool that ends within memory.
LEMMA PoolEnds ==
  ASSUME NEW last \in Nat, last >= FirstPage
  PROVE  LET n == (LastPage(last) + PAGE_SIZE - FirstPage) \div PAGE_SIZE
         IN  n \in Nat /\ FirstPage + PAGE_SIZE * n <= last
<1>1. PICK k \in Nat : FirstPage = PAGE_SIZE * k
  BY FirstPageAligned
<1> DEFINE j == last \div PAGE_SIZE
<1>a. j \in Nat /\ PAGE_ALIGN(last) = PAGE_SIZE * j
  BY PmmConstants, RoundDown DEF PAGE_ALIGN
<1>b. last % PAGE_SIZE \in 0..PAGE_SIZE - 1 /\ last % PAGE_SIZE <= last
  BY PmmConstants
<1>c. /\ PAGE_ALIGN(last) \in Nat
      /\ PAGE_ALIGN(last) <= last /\ last < PAGE_ALIGN(last) + PAGE_SIZE
  BY <1>b, PmmConstants DEF PAGE_ALIGN
<1>2. j \in Nat /\ PAGE_ALIGN(last) = PAGE_SIZE * j /\ PAGE_ALIGN(last) \in Nat
      /\ PAGE_ALIGN(last) <= last /\ last < PAGE_ALIGN(last) + PAGE_SIZE
  BY <1>a, <1>c
<1> HIDE DEF j
<1>3. LastPage(last) + PAGE_SIZE = PAGE_SIZE * j /\ LastPage(last) \in Int
  BY <1>2, PmmConstants DEF LastPage
<1>4. k <= j
  <2>1. ~(j < k)
    BY <1>1, <1>2, MultipleOf, PmmConstants
  <2> QED
    BY <1>2, <2>1
<1>5. PICK i \in Nat : i = j - k
  BY <1>2, <1>4
<1>6. PAGE_SIZE * j - PAGE_SIZE * k = PAGE_SIZE * i + 0
  BY <1>2, <1>5, PmmConstants
<1>7. (PAGE_SIZE * i + 0) \div PAGE_SIZE = i
  BY PmmConstants, DivMod
<1>8. (LastPage(last) + PAGE_SIZE - FirstPage) \div PAGE_SIZE = i
  <2>1. LastPage(last) + PAGE_SIZE - FirstPage = PAGE_SIZE * i + 0
    BY <1>1, <1>2, <1>3, <1>6, FirstPageAligned, PmmConstants
  <2> QED
    BY <2>1, <1>7, Zenon
<1>9. FirstPage + PAGE_SIZE * i = PAGE_ALIGN(last)
  BY <1>1, <1>2, <1>6, PmmConstants
<1> QED
  BY <1>2, <1>8, <1>9

\* The bit set for the module is a number of a bit.
LEMMA ModuleBitType ==
  ASSUME NEW start \in Nat, NEW mod \in Nat, mod >= start
  PROVE  ModuleBit(start, mod) \in Nat
<1>1. (mod - start) \div WORD_BITS \in Nat
  BY PmmConstants
<1> QED
  BY <1>1, PmmConstants DEF ModuleBit

\* pmm_init establishes the invariant for every memory map and module address.
LEMMA InitStepIInv ==
  ASSUME IInv, NEW map \in MemMaps, NEW k \in ModPages, pmm_init(map, k)
  PROVE  IInv'
<1> DEFINE mod  == FirstPage + PAGE_SIZE * k
           last == LastMemAddr(map)
           n    == (LastPage(last) + PAGE_SIZE - FirstPage) \div PAGE_SIZE
<1>1. last \in Nat /\ last >= FirstPage
  BY MapsReachPool
<1>2. n \in Nat /\ FirstPage + PAGE_SIZE * n <= last
  BY <1>1, PoolEnds
<1>3. FirstPage \in Nat /\ mod \in Nat /\ mod >= FirstPage
  BY FirstPageAligned, PmmConstants
<1>4. ModuleBit(FirstPage, mod) \in Nat
  BY <1>3, ModuleBitType
<1>5. /\ memmap' = map /\ starting_addr' = FirstPage /\ page_count' = n
      /\ user_task' = mod
      /\ UNCHANGED <<held, ret, asked>>
      /\ \/ bitmap' = {ModuleBit(FirstPage, mod)} /\ phase' = "ready"
         \/ bitmap' = {} /\ phase' = "undefined"
  BY DEF pmm_init, pmm_init_struct, pmm_init_user_task
<1>6. held = {}
  <2>1. phase = "boot" /\ page_count = 0
    BY DEF pmm_init, IInv, PoolShape
  <2>2. Scanned = {}
    BY <2>1, PmmConstants DEF Scanned
  <2> QED
    BY <2>2 DEF IInv, HeldBits, Usable
<1> HIDE DEF mod, last, n
<1>7. TypeOK'
  BY <1>2, <1>3, <1>4, <1>5 DEF IInv, TypeOK, Phases
<1>8. PoolShape'
  BY <1>2, <1>5 DEF PoolShape, last
<1>9. HeldBits'
  BY <1>5, <1>6 DEF HeldBits, mb
<1> QED
  BY <1>7, <1>8, <1>9 DEF IInv

\* A step that leaves the pool where it is.
LEMMA SamePool ==
  ASSUME UNCHANGED poolVars
  PROVE  /\ mb' = mb /\ Scanned' = Scanned /\ Usable' = Usable /\ Pool' = Pool
         /\ \A p : Frame(p)' = Frame(p)
         /\ \A a : Index(a)' = Index(a)
BY DEF poolVars, mb, Scanned, Usable, Pool, Frame, Index

\* While the allocator works the pool has been set up, and its frames are
\* distinct.
LEMMA Ready ==
  ASSUME IInv, phase = "ready"
  PROVE  /\ starting_addr = FirstPage
         /\ mb \in bitmap
         /\ \A p \in Usable : p \in Nat /\ p < page_count
         /\ \A p, q \in Usable : Frame(p) = Frame(q) => p = q
         /\ \A p, q \in Usable : p <= q => Frame(p) <= Frame(q)
<1>1. starting_addr = FirstPage /\ mb \in bitmap
  BY DEF IInv, PoolShape, HeldBits
<1>2. \A p \in Usable : p \in Nat /\ p < page_count
  BY ScannedPages DEF IInv, TypeOK, Usable
<1>3. ASSUME NEW p \in Usable, NEW q \in Usable
      PROVE  /\ Frame(p) \in Nat /\ Frame(q) \in Nat
             /\ p < q => Frame(p) < Frame(q)
             /\ q < p => Frame(q) < Frame(p)
  <2>1. p \in Nat /\ q \in Nat
    BY <1>2
  <2>2. Frame(p) \in Nat /\ Frame(q) \in Nat
    BY <1>1, <2>1, Frames
  <2>3. /\ p < q => Frame(p) + PAGE_SIZE <= Frame(q)
        /\ q < p => Frame(q) + PAGE_SIZE <= Frame(p)
    BY <1>1, <2>1, Frames
  <2> QED
    BY <2>2, <2>3, PmmConstants
<1>4. ASSUME NEW p \in Usable, NEW q \in Usable
      PROVE  /\ Frame(p) = Frame(q) => p = q
             /\ p <= q => Frame(p) <= Frame(q)
  <2>1. p \in Nat /\ q \in Nat
    BY <1>2
  <2> QED
    BY <1>3, <2>1
<1> QED
  BY <1>1, <1>2, <1>4

\* pmm_alloc_page preserves the invariant.
LEMMA AllocIInv ==
  ASSUME IInv, pmm_alloc_page
  PROVE  IInv'
<1>1. UNCHANGED poolVars /\ phase = "ready"
  BY DEF pmm_alloc_page
<1>2. CASE AllocFree
  <2>1. PICK p \in Free : /\ bitmap' = bitmap \cup {p}
                          /\ held' = held \cup {Frame(p)}
                          /\ ret' = Frame(p) /\ asked' = 1 - asked
                          /\ phase' = phase
    BY <1>2 DEF AllocFree
  <2>2. p \in Usable /\ p \notin bitmap /\ p # mb /\ p \in Nat
    BY <1>1, Ready DEF Free, Usable
  <2>3. Frame(p) \in Nat
    BY <1>1, <2>2, Ready, Frames
  <2>4. TypeOK'
    <3>1. asked' \in {0, 1}
      BY <2>1 DEF IInv, TypeOK
    <3>2. bitmap' \in SUBSET Nat /\ held' \in SUBSET Nat /\ ret' \in Nat \cup {None}
      BY <2>1, <2>2, <2>3 DEF IInv, TypeOK
    <3> QED
      BY <1>1, <2>1, <3>1, <3>2 DEF IInv, TypeOK, poolVars
  <2>5. PoolShape'
    BY <1>1, <2>1 DEF IInv, PoolShape, poolVars
  <2>6. HeldBits'
    BY <1>1, <2>1, <2>2, SamePool DEF IInv, HeldBits
  <2> QED
    BY <2>4, <2>5, <2>6 DEF IInv
<1>3. CASE AllocNone \/ AllocOutside
  <2>1. /\ UNCHANGED <<bitmap, held>>
        /\ phase' \in {phase, "undefined"}
        /\ ret' \in {ret, NULL} /\ asked' \in {asked, 1 - asked}
    BY <1>3 DEF AllocNone, AllocOutside
  <2>2. TypeOK'
    <3>1. asked' \in {0, 1}
      BY <2>1 DEF IInv, TypeOK
    <3>2. ret' \in Nat \cup {None}
      BY <2>1 DEF IInv, TypeOK, NULL
    <3>3. phase' \in Phases
      BY <2>1 DEF IInv, TypeOK, Phases
    <3> QED
      BY <1>1, <2>1, <3>1, <3>2, <3>3 DEF IInv, TypeOK, poolVars
  <2>3. PoolShape'
    BY <1>1, <2>1 DEF IInv, PoolShape, poolVars
  <2>4. HeldBits'
    BY <1>1, <2>1, SamePool DEF IInv, HeldBits
  <2> QED
    BY <2>2, <2>3, <2>4 DEF IInv
<1> QED
  BY <1>2, <1>3 DEF pmm_alloc_page

\* The bit a frame in a caller's hands is found at again.
LEMMA HeldIndex ==
  ASSUME IInv, phase = "ready", NEW f \in held,
         NEW offset \in {0, PAGE_SIZE - 1}
  PROVE  \E p \in bitmap \ {mb} :
           /\ p \in Usable /\ f = Frame(p)
           /\ PAGE_ALIGN(f + offset) = f /\ Index(f + offset) = p
<1>1. PICK p \in bitmap \ {mb} : p \in Usable /\ f = Frame(p)
  BY DEF IInv, HeldBits
<1>2. p \in Nat /\ starting_addr = FirstPage
  BY <1>1, Ready
<1>3. offset \in 0..PAGE_SIZE - 1
  BY PmmConstants
<1> QED
  BY <1>1, <1>2, <1>3, Frames

\* pmm_free_page of an address inside a page that is held preserves it.
LEMMA FreeIInv ==
  ASSUME IInv, NEW f \in held, NEW offset \in {0, PAGE_SIZE - 1},
         pmm_free_page(f + offset)
  PROVE  IInv'
<1>1. UNCHANGED <<asked, poolVars>> /\ phase = "ready"
  BY DEF pmm_free_page
<1>2. PICK p \in bitmap \ {mb} :
        /\ p \in Usable /\ f = Frame(p)
        /\ PAGE_ALIGN(f + offset) = f /\ Index(f + offset) = p
  BY <1>1, HeldIndex
<1>3. CASE /\ bitmap' = bitmap \ {p} /\ held' = held \ {f}
           /\ ret' = None /\ phase' = phase
  <2>1. TypeOK'
    BY <1>1, <1>3 DEF IInv, TypeOK, poolVars
  <2>2. PoolShape'
    BY <1>1, <1>3 DEF IInv, PoolShape, poolVars
  <2>3. \A q \in bitmap \ {mb} : q \in Usable /\ (Frame(q) = f => q = p)
    BY <1>1, <1>2, Ready DEF IInv, HeldBits
  <2>4. held' = {Frame(q) : q \in bitmap' \ {mb}}
    BY <1>3, <2>3, <1>2 DEF IInv, HeldBits
  <2>5. HeldBits'
    BY <1>1, <1>2, <1>3, <2>4, SamePool DEF IInv, HeldBits
  <2> QED
    BY <2>1, <2>2, <2>5 DEF IInv
<1>4. CASE /\ phase' = "panic: page not in page pool"
           /\ UNCHANGED <<bitmap, held, ret>>
  <2>1. TypeOK'
    BY <1>1, <1>4 DEF IInv, TypeOK, poolVars, Phases
  <2>2. PoolShape'
    BY <1>1, <1>4 DEF IInv, PoolShape, poolVars
  <2>3. HeldBits'
    BY <1>1, <1>4, SamePool DEF IInv, HeldBits
  <2> QED
    BY <2>1, <2>2, <2>3 DEF IInv
<1> QED
  BY <1>2, <1>3, <1>4 DEF pmm_free_page

\* Every step preserves the invariant.
LEMMA NextIInv == IInv /\ [Next]_vars => IInv'
<1> SUFFICES ASSUME IInv, [Next]_vars PROVE IInv'
  OBVIOUS
<1>1. ASSUME NEW map \in MemMaps, NEW k \in ModPages, pmm_init(map, k) PROVE IInv'
  BY <1>1, InitStepIInv
<1>2. CASE pmm_init_no_map
  <2>1. /\ UNCHANGED <<bitmap, held, ret, asked, poolVars>>
        /\ phase = "boot" /\ phase' = "panic: invalid GRUB memory map"
    BY <1>2 DEF pmm_init_no_map
  <2>2. TypeOK' /\ PoolShape'
    BY <2>1 DEF IInv, TypeOK, PoolShape, Phases, poolVars
  <2>3. HeldBits'
    BY <2>1, SamePool DEF IInv, HeldBits
  <2> QED
    BY <2>2, <2>3 DEF IInv
<1>3. CASE pmm_alloc_page
  BY <1>3, AllocIInv
<1>4. ASSUME NEW f \in held, NEW offset \in {0, PAGE_SIZE - 1},
             pmm_free_page(f + offset)
      PROVE  IInv'
  BY <1>4, FreeIInv
<1>5. CASE UNCHANGED vars
  <2>1. UNCHANGED poolVars
    BY <1>5 DEF vars, poolVars
  <2> QED
    BY <1>5, <2>1, SamePool DEF vars, IInv, TypeOK, PoolShape, HeldBits
<1> QED
  BY <1>1, <1>2, <1>3, <1>4, <1>5 DEF Next

-----------------------------------------------------------------------------
(* The theorems *)

\* The strengthened invariant holds in every reachable state.
THEOREM Invariant == Spec => []IInv
  BY InitIInv, NextIInv, PTL DEF Spec

\* Type correctness.
THEOREM TypeCorrect == Spec => []TypeOK
<1>1. IInv => TypeOK
  BY DEF IInv
<1> QED
  BY <1>1, Invariant, PTL

\* The bitmap is the exact record of what callers hold, for every size of the
\* memory and every sequence of allocations and frees.
THEOREM Exact == Spec => []BitmapExact
<1>1. IInv => BitmapExact
  <2> SUFFICES ASSUME IInv, phase = "ready"
               PROVE  bitmap = {Index(f) : f \in held} \cup {mb}
    BY DEF BitmapExact, mb
  <2>1. \A p \in bitmap \ {mb} : p \in Usable /\ Index(Frame(p)) = p
    <3> SUFFICES ASSUME NEW p \in bitmap \ {mb}
                 PROVE  p \in Usable /\ Index(Frame(p)) = p
      OBVIOUS
    <3>1. p \in Usable /\ p \in Nat /\ starting_addr = FirstPage
      BY Ready DEF IInv, HeldBits
    <3>2. 0 \in 0..PAGE_SIZE - 1 /\ Frame(p) \in Nat
      BY <3>1, Frames, PmmConstants
    <3>3. Index(Frame(p) + 0) = p /\ Frame(p) + 0 = Frame(p)
      BY <3>1, <3>2, Frames
    <3> QED
      BY <3>1, <3>3
  <2>2. mb \in bitmap /\ held = {Frame(p) : p \in bitmap \ {mb}}
    BY DEF IInv, HeldBits
  <2> QED
    BY <2>1, <2>2
<1> QED
  BY <1>1, Invariant, PTL

\* No caller is ever given a frame that overlaps the kernel image or reaches
\* beyond the end of memory.
THEOREM InMemory == Spec => []FramesInMemory
<1>1. IInv => FramesInMemory
  <2> SUFFICES ASSUME IInv, NEW f \in held
               PROVE  /\ f % PAGE_SIZE = 0 /\ KernelEnd <= f
                      /\ f + PAGE_SIZE <= LastMemAddr(memmap)
    BY DEF FramesInMemory
  <2>1. PICK p \in Usable : f = Frame(p)
    BY DEF IInv, HeldBits
  <2>2. p \in Nat /\ p < page_count /\ page_count \in Nat
    BY <2>1, ScannedPages DEF Usable, IInv, TypeOK
  <2>3. /\ starting_addr = FirstPage /\ memmap \in MemMaps
        /\ FirstPage + PAGE_SIZE * page_count <= LastMemAddr(memmap)
    BY <2>2 DEF IInv, PoolShape
  <2>4. /\ f % PAGE_SIZE = 0 /\ KernelEnd <= f /\ f \in Nat
        /\ f + PAGE_SIZE <= Frame(page_count)
    BY <2>1, <2>2, <2>3, Frames, PmmConstants
  <2>5. LastMemAddr(memmap) \in Nat
    BY <2>3, MapsReachPool
  <2>6. Frame(page_count) \in Nat /\ Frame(page_count) <= LastMemAddr(memmap)
    BY <2>2, <2>3, Frames DEF Frame
  <2> QED
    BY <2>4, <2>5, <2>6, PmmConstants
<1> QED
  BY <1>1, Invariant, PTL

\* First fit over the bitmap implements the abstract allocator, for every value
\* of the constants: no frame is handed out twice, the lowest free one is
\* chosen, and NULL means that none is left.
THEOREM Implements == Spec => AllocatorImplemented
<1>1. Init => FA!FAInit
  <2>1. ASSUME Init PROVE Scanned = {}
    BY <2>1, PmmConstants DEF Init, Scanned
  <2> QED
    BY <2>1 DEF Init, FA!FAInit, Pool
<1>2. IInv /\ [Next]_vars => [FA!FANext]_(FA!faVars)
  <2> SUFFICES ASSUME IInv, [Next]_vars PROVE [FA!FANext]_(FA!faVars)
    OBVIOUS
  <2> USE DEF FA!FANext, FA!faVars
  <2>1. ASSUME NEW map \in MemMaps, NEW k \in ModPages, pmm_init(map, k)
        PROVE  [FA!FANext]_(FA!faVars)
    <3>1. /\ UNCHANGED <<held, ret, asked>> /\ starting_addr' = FirstPage
          /\ phase = "boot"
      BY <2>1 DEF pmm_init, pmm_init_struct
    <3>2. Scanned = {}
      BY <3>1, PmmConstants DEF IInv, PoolShape, Scanned
    <3>3. Pool = {} /\ held = {}
      BY <3>2 DEF Pool, IInv, HeldBits, Usable
    <3>4. \A f \in Pool' : f # 0
      <4>1. IInv'
        BY <2>1, InitStepIInv
      <4>2. \A p \in Scanned' : p \in Nat
        BY <4>1, PmmConstants DEF IInv, TypeOK, Scanned
      <4> QED
        BY <3>1, <4>2, FirstPageAligned, PmmConstants DEF Pool, Frame
    <3> QED
      BY <3>1, <3>3, <3>4 DEF FA!Open, FA!NoFrame
  <2>2. CASE pmm_alloc_page
    <3>1. UNCHANGED poolVars /\ phase = "ready" /\ Pool' = Pool
      BY <2>2, SamePool DEF pmm_alloc_page
    <3>2. Pool = {Frame(p) : p \in Usable \ {mb}}
      BY DEF Pool, Usable, mb
    <3>3. \A q \in Usable \ {mb} : q \notin bitmap <=> Frame(q) \notin held
      BY <3>1, Ready DEF IInv, HeldBits
    <3>4. Free = Usable \ bitmap /\ mb \in bitmap
      BY <3>1, Ready DEF Free, Usable
    <3>5. CASE AllocFree
      <4>1. PICK p \in Free : /\ \A q \in Free : p <= q
                              /\ held' = held \cup {Frame(p)}
                              /\ ret' = Frame(p) /\ asked' = 1 - asked
        BY <3>5 DEF AllocFree
      <4>2. Frame(p) \in Pool \ held
        BY <3>2, <3>3, <3>4, <4>1
      <4>3. \A g \in Pool \ held : Frame(p) <= g
        BY <3>1, <3>2, <3>3, <3>4, <4>1, Ready
      <4> QED
        BY <3>1, <4>1, <4>2, <4>3 DEF FA!Grant
    <3>6. CASE AllocNone
      <4>1. Pool \subseteq held
        BY <3>2, <3>3, <3>4, <3>6 DEF AllocNone
      <4> QED
        BY <3>1, <3>6, <4>1 DEF AllocNone, FA!Refuse, FA!NoFrame, NULL
    <3>7. CASE AllocOutside
      BY <3>1, <3>7 DEF AllocOutside
    <3> QED
      BY <2>2, <3>5, <3>6, <3>7 DEF pmm_alloc_page
  <2>3. ASSUME NEW f \in held, NEW offset \in {0, PAGE_SIZE - 1},
               pmm_free_page(f + offset)
        PROVE  [FA!FANext]_(FA!faVars)
    <3>1. UNCHANGED poolVars /\ phase = "ready" /\ Pool' = Pool
      BY <2>3, SamePool DEF pmm_free_page
    <3>2. PAGE_ALIGN(f + offset) = f
      BY <3>1, HeldIndex
    <3> QED
      BY <2>3, <3>1, <3>2 DEF pmm_free_page, FA!Release
  <2>4. CASE pmm_init_no_map \/ UNCHANGED vars
    <3>1. UNCHANGED <<held, ret, asked, poolVars>>
      BY <2>4 DEF pmm_init_no_map, vars, poolVars
    <3> QED
      BY <3>1, SamePool
  <2> QED
    BY <2>1, <2>2, <2>3, <2>4 DEF Next
<1> QED
  BY <1>1, <1>2, Invariant, PTL DEF Spec, AllocatorImplemented, FA!FASpec
=============================================================================

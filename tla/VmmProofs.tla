----------------------------- MODULE VmmProofs ------------------------------
(***************************************************************************)
(* Proofs about Vmm, for every size of a page table, threshold, pool and   *)
(* bound on blocks and frees.                                              *)
(***************************************************************************)
EXTENDS Vmm, FiniteSetTheorems, WellFoundedInduction, TLAPS

-----------------------------------------------------------------------------
(* The inductive invariant *)

BootPages == FirstFrame + 2   \* first_free_page

\* What kmain's first calls leave behind.
BootState ==
  /\ phase \in {"paging_init", "vmm_init"} =>
       blocks = <<>> /\ held = {} /\ freed = 0 /\ user_stack = None
  /\ phase = "paging_init" => granted = 0
  /\ phase = "vmm_init" => /\ granted = 2
                           /\ entries = <<[i \in Indices |-> i]>>
                           /\ directory = <<FirstFrame + 1>>

\* One page table and one directory entry for each block.
Lists ==
  Working => /\ Len(blocks) > 0
             /\ Len(entries) = Len(blocks) /\ Len(directory) = Len(blocks)
             /\ directory[1] = FirstFrame + 1 /\ granted >= 2

\* The first table maps one to one; the table of every other block is mapped at
\* the threshold of the block before.
Tables ==
  Working => /\ blocks[1].page_table = FirstFrame + 1
             /\ entries[1] \in [Indices -> Nat]
             /\ \A i \in Indices \ {HIGH_WATER_THRESHOLD} : entries[1][i] = i
             /\ \A b \in 2..Len(blocks) :
                  /\ blocks[b].page_table = PageAt(b - 1, HIGH_WATER_THRESHOLD)
                  /\ directory[b] = entries[b - 1][HIGH_WATER_THRESHOLD]

\* No bit is set from the high water mark on, and exactly the blocks that have
\* reached the threshold have a block after them.
Marks ==
  Working => \A b \in 1..Len(blocks) :
    /\ \A i \in blocks[b].bitmap : i < blocks[b].high_water_mark
    /\ blocks[b].high_water_mark >= HIGH_WATER_THRESHOLD <=> b < Len(blocks)

\* Bit by bit: set for the boot pages and for pages held, which have a frame.
Bits ==
  Working =>
    /\ \A p \in held : /\ BlockOf(p) \in 1..Len(blocks) /\ p >= BootPages
                       /\ Translate(p) # None
    /\ \A b \in 1..Len(blocks), i \in Indices :
         i \in blocks[b].bitmap <=> PageAt(b, i) \in held \/ (b = 1 /\ i < BootPages)

\* The frames the pool has granted since boot.
Granted == FirstFrame + 2..FirstFrame + granted - 1

\* An entry that was filled from the pool, which then was not used up.
FromPool(b, i) ==
  /\ entries[b][i] \notin {None, 0}
  /\ b > 1 \/ (i = HIGH_WATER_THRESHOLD /\ Len(blocks) > 1)

FrameUse ==
  Working =>
    /\ user_stack \in {None, 0} \cup Granted
    /\ \A b \in 1..Len(blocks), i \in Indices : FromPool(b, i) =>
         /\ entries[b][i] \in Granted /\ entries[b][i] # user_stack
         /\ \A c \in 1..Len(blocks), j \in Indices :
              FromPool(c, j) /\ entries[c][j] = entries[b][i] => b = c /\ i = j

IInv == /\ TypeOK /\ BootState /\ Lists /\ Tables /\ Marks /\ Bits /\ FrameUse
        /\ CountersSound /\ NextBlockInTime

-----------------------------------------------------------------------------
(* Arithmetic *)

LEMMA Sizes ==
  /\ PAGE_TABLE_INDICES \in Nat \ {0} /\ HIGH_WATER_THRESHOLD \in Indices
  /\ BootPages \in Nat /\ BootPages < HIGH_WATER_THRESHOLD /\ BootPages > 0
BY VmmConstants DEF Indices, BootPages

\* A page is its block and its index in it.
LEMMA PageParts ==
  ASSUME NEW b \in Nat \ {0}, NEW i \in Indices
  PROVE  /\ PageAt(b, i) \in Nat
         /\ BlockOf(PageAt(b, i)) = b /\ IndexOf(PageAt(b, i)) = i
<1> DEFINE d == PAGE_TABLE_INDICES
           q == b - 1
           x == q * d + i
           e == x \div d
           r == x % d
<1>1. d \in Nat \ {0} /\ q \in Nat /\ i \in 0..d - 1
  BY Sizes DEF Indices
<1> HIDE DEF d, q
<1>2. q * d \in Nat
  BY <1>1
<1>3. x \in Nat /\ e \in Nat /\ r \in 0..d - 1 /\ x = e * d + r
  BY <1>1, <1>2
<1> HIDE DEF e, r
<1>4. e = q
  <2>1. ~(e < q)
    <3> SUFFICES ASSUME e < q PROVE FALSE
      OBVIOUS
    <3>1. (q - e - 1) * d >= 0
      BY <1>1, <1>3
    <3>2. q * d = e * d + d + (q - e - 1) * d
      BY <1>1, <1>3
    <3> QED
      BY <1>1, <1>3, <3>1, <3>2
  <2>2. ~(q < e)
    <3> SUFFICES ASSUME q < e PROVE FALSE
      OBVIOUS
    <3>1. (e - q - 1) * d >= 0
      BY <1>1, <1>3
    <3>2. e * d = q * d + d + (e - q - 1) * d
      BY <1>1, <1>3
    <3> QED
      BY <1>1, <1>3, <3>1, <3>2
  <2> QED
    BY <1>1, <1>3, <2>1, <2>2
<1>5. r = i
  BY <1>1, <1>2, <1>3, <1>4
<1> QED
  BY <1>3, <1>4, <1>5 DEF PageAt, BlockOf, IndexOf, d, q, e, r

LEMMA PartsOfPage ==
  ASSUME NEW p \in Nat
  PROVE  /\ BlockOf(p) \in Nat \ {0} /\ IndexOf(p) \in Indices
         /\ PageAt(BlockOf(p), IndexOf(p)) = p
BY Sizes DEF BlockOf, IndexOf, PageAt, Indices

\* Pages of the first block are their indices.
LEMMA FirstBlock ==
  /\ \A p \in Indices : PageAt(1, p) = p /\ BlockOf(p) = 1 /\ IndexOf(p) = p
  /\ \A p \in Nat : p < PAGE_TABLE_INDICES => p \in Indices
<1>1. \A p \in Indices : PageAt(1, p) = p
  BY Sizes DEF PageAt, Indices
<1>2. \A p \in Indices : BlockOf(PageAt(1, p)) = 1 /\ IndexOf(PageAt(1, p)) = p
  BY PageParts
<1>3. \A p \in Nat : p < PAGE_TABLE_INDICES => p \in Indices
  BY Sizes DEF Indices
<1> QED
  BY <1>1, <1>2, <1>3

\* A set of numbers that is not empty has a least element.
LEMMA Least ==
  ASSUME NEW S \in SUBSET Nat, S # {}
  PROVE  \E n \in S : \A m \in S : n <= m
<1> DEFINE R == OpToRel(<, Nat)
<1>1. IsWellFoundedOn(R, Nat)
  BY NatLessThanWellFounded
<1>2. PICK n \in S : \A m \in S : ~(<<m, n>> \in R)
  <2> HIDE DEF R
  <2> QED
    BY <1>1, WFMin, Zenon
<1>3. \A m \in S : ~(m < n)
  BY <1>2 DEF OpToRel
<1> QED
  BY <1>3

-----------------------------------------------------------------------------
(* Boot *)

LEMMA InitIInv == Init => IInv
BY VmmConstants
DEF Init, IInv, TypeOK, Phases, BootState, Working, Lists, Tables, Marks, Bits, FrameUse,
    CountersSound, NextBlockInTime, None

LEMMA PagingInitIInv ==
  ASSUME IInv, paging_init PROVE IInv'
<1> USE DEF IInv
<1>1. directory' = <<FirstFrame + 1>> /\ granted' = 2
  BY VmmConstants DEF paging_init, BootState, NextFrame
<1>2. entries' \in Seq([Indices -> Nat \cup {None}])
  BY Sizes DEF paging_init, Indices
<1>3. TypeOK'
  BY <1>1, <1>2, VmmConstants DEF paging_init, TypeOK, Phases, userVars
<1> QED
  BY <1>1, <1>3 DEF paging_init, BootState, Working, Lists, Tables, Marks, Bits, FrameUse,
                    CountersSound, NextBlockInTime, userVars

LEMMA VmmInitIInv ==
  ASSUME IInv, vmm_init PROVE IInv'
<1> USE DEF IInv
<1> DEFINE first == [bitmap |-> 0..BootPages - 1, high_water_mark |-> BootPages,
                     free_pages |-> PAGE_TABLE_INDICES - BootPages,
                     page_table |-> FirstFrame + 1]
<1>1. first_free_page = BootPages /\ directory[1] = FirstFrame + 1
  BY VmmConstants DEF vmm_init, BootState, first_free_page, BootPages
<1>2. /\ blocks' = <<first>>
      /\ directory' = <<FirstFrame + 1>> /\ granted' = 2 /\ freed' = 0
      /\ entries' = <<[i \in Indices |-> i]>>
      /\ phase' = "ready" /\ held' = {} /\ user_stack' = None
  BY <1>1 DEF vmm_init, BootState, userVars
<1>3. first \in Desc
  BY Sizes, VmmConstants DEF Desc, Indices, BootPages
<1>4. blocks' \in Seq(Desc) /\ Len(blocks') = 1 /\ blocks'[1] = first
  BY <1>2, <1>3
<1>5. entries'[1] = [i \in Indices |-> i] /\ Len(entries') = 1
      /\ directory'[1] = FirstFrame + 1 /\ Len(directory') = 1
  BY <1>2
<1>6. TypeOK'
  BY <1>4 DEF vmm_init, TypeOK, Phases, userVars
<1>7. Lists' /\ Tables' /\ BootState'
  BY <1>2, <1>4, <1>5, Sizes DEF Lists, Tables, BootState, Indices
<1>8. Marks'
  <2>1. \A i \in 0..BootPages - 1 : i < BootPages
    BY Sizes
  <2>2. ~(BootPages >= HIGH_WATER_THRESHOLD)
    BY Sizes DEF Indices
  <2>3. \A b \in 1..Len(blocks') : b = 1 /\ ~(b < Len(blocks'))
    BY <1>4
  <2>4. blocks'[1].bitmap = 0..BootPages - 1 /\ blocks'[1].high_water_mark = BootPages
    BY <1>4
  <2> QED
    BY <2>1, <2>2, <2>3, <2>4 DEF Marks
<1>9. Bits'
  <2>1. \A i \in Indices : i \in first.bitmap <=> i < BootPages
    BY Sizes DEF Indices
  <2>2. \A b \in 1..1 : b = 1
    OBVIOUS
  <2> HIDE DEF first
  <2> QED
    BY <1>2, <1>4, <2>1, <2>2 DEF Bits
<1>10. FrameUse'
  BY <1>2, <1>4 DEF FrameUse, FromPool
<1>11. CountersSound'
  <2>1. ClearBits(1)' = BootPages..PAGE_TABLE_INDICES - 1
    BY <1>4, Sizes DEF ClearBits, Indices
  <2>2. Cardinality(BootPages..PAGE_TABLE_INDICES - 1) = PAGE_TABLE_INDICES - BootPages
    BY FS_Interval, Sizes DEF Indices
  <2>3. DOMAIN blocks' = {1}
    BY <1>2
  <2> QED
    BY <1>4, <2>1, <2>2, <2>3, Sizes DEF CountersSound
<1> QED
  BY <1>2, <1>6, <1>7, <1>8, <1>9, <1>10, <1>11 DEF NextBlockInTime

-----------------------------------------------------------------------------
(* A page is allocated *)

Table == [Indices -> Nat \cup {None}]

\* What vmm_alloc_page does to the lists, entry by entry.
Allocated(b, i) ==
  LET n == Len(blocks) IN
  /\ b \in 1..n /\ i \in Indices
  /\ blocks' \in Seq(Desc) /\ entries' \in Seq(Table) /\ directory' \in Seq(Nat)
  /\ \A c \in 1..n : /\ directory'[c] = directory[c]
                     /\ blocks'[c] = IF c = b THEN Taken(b, i) ELSE blocks[c]
                     /\ c # b => entries'[c] = entries[c]

\* No new block: at most one entry is filled.
AllocatedHere(b, i) ==
  /\ Allocated(b, i)
  /\ ~AtHighWater(b, i)
  /\ Len(blocks') = Len(blocks) /\ Len(entries') = Len(blocks)
  /\ Len(directory') = Len(blocks)
  /\ \A j \in Indices : entries'[b][j] = IF j = i /\ entries[b][i] = None
                                         THEN NextFrame(1) ELSE entries[b][j]
  /\ granted' = IF entries[b][i] = None THEN granted + 1 ELSE granted

\* A block is added; the page that is handed out lies below its table's.
AllocatedBlock(b, i) ==
  LET n == Len(blocks) IN
  /\ Allocated(b, i)
  /\ AtHighWater(b, i) /\ b = n
  /\ Len(blocks') = n + 1 /\ Len(entries') = n + 1 /\ Len(directory') = n + 1
  /\ blocks'[n + 1] = [bitmap |-> {}, high_water_mark |-> 0,
                       free_pages |-> PAGE_TABLE_INDICES,
                       page_table |-> PageAt(b, HIGH_WATER_THRESHOLD)]
  /\ \A j \in Indices : entries'[n + 1][j] = None
  /\ directory'[n + 1] = NextFrame(1)
  /\ i < HIGH_WATER_THRESHOLD
  /\ \A j \in Indices :
       entries'[b][j] = CASE j = HIGH_WATER_THRESHOLD -> NextFrame(1)
                          [] j = i /\ entries[b][i] = None -> NextFrame(2)
                          [] OTHER -> entries[b][j]
  /\ granted' = IF entries[b][i] = None THEN granted + 2 ELSE granted + 1

LEMMA FrameType ==
  ASSUME granted \in Nat, NEW k \in {1, 2}
  PROVE  /\ NextFrame(k) \in Nat
         /\ NextFrame(k) = FirstFrame + granted + k - 1 \/ NextFrame(k) = 0
BY VmmConstants DEF NextFrame

\* The search never skips a page: the page found is at most at the high water
\* mark, which moves up by one or not at all.
LEMMA FoundPage ==
  ASSUME IInv, Working, NEW b \in DOMAIN blocks, NEW i \in Indices, Found(b, i)
  PROVE  /\ b \in 1..Len(blocks) /\ blocks[b] \in Desc /\ entries[b] \in Table
         /\ i \notin blocks[b].bitmap /\ blocks[b].free_pages # 0
         /\ i <= blocks[b].high_water_mark
         /\ Taken(b, i) \in Desc
         /\ Taken(b, i).bitmap = blocks[b].bitmap \cup {i}
         /\ Taken(b, i).free_pages = blocks[b].free_pages - 1
         /\ Taken(b, i).page_table = blocks[b].page_table
         /\ Taken(b, i).high_water_mark =
              IF i = blocks[b].high_water_mark THEN i + 1 ELSE blocks[b].high_water_mark
<1>1. /\ b \in 1..Len(blocks) /\ blocks[b] \in Desc
  BY DEF IInv, TypeOK
<1>2. entries[b] \in Table
  BY <1>1 DEF IInv, TypeOK, Lists, Table
<1>3. i \notin blocks[b].bitmap /\ blocks[b].free_pages # 0
  BY DEF Found, ClearBits
<1> DEFINE mark == blocks[b].high_water_mark
<1>4. mark \in 0..PAGE_TABLE_INDICES /\ blocks[b].free_pages \in 0..PAGE_TABLE_INDICES
      /\ blocks[b].bitmap \in SUBSET Indices /\ blocks[b].page_table \in Nat
  BY <1>1 DEF Desc
<1>5. i <= mark
  <2>1. CASE mark \in Indices
    <3>1. mark \in ClearBits(b)
      BY <1>1, <1>4, <2>1 DEF ClearBits, IInv, Marks, Indices
    <3> QED
      BY <3>1 DEF Found
  <2>2. CASE mark \notin Indices
    BY <1>4, <2>2, Sizes DEF Indices
  <2> QED
    BY <2>1, <2>2
<1>6. /\ Taken(b, i).bitmap = blocks[b].bitmap \cup {i}
      /\ Taken(b, i).free_pages = blocks[b].free_pages - 1
      /\ Taken(b, i).page_table = blocks[b].page_table
      /\ Taken(b, i).high_water_mark = (IF i + 1 >= mark THEN i + 1 ELSE mark)
      /\ Taken(b, i) = [bitmap |-> blocks[b].bitmap \cup {i},
                        high_water_mark |-> IF i + 1 >= mark THEN i + 1 ELSE mark,
                        free_pages |-> blocks[b].free_pages - 1,
                        page_table |-> blocks[b].page_table]
  <2>1. PICK d \in Desc : d = blocks[b]
    BY <1>1
  <2>2. PICK bits \in SUBSET Indices, h \in 0..PAGE_TABLE_INDICES,
             f \in 0..PAGE_TABLE_INDICES, t \in Nat :
          d = [bitmap |-> bits, high_water_mark |-> h, free_pages |-> f, page_table |-> t]
    BY <2>1 DEF Desc
  <2>3. Taken(b, i) = [d EXCEPT !.bitmap = bits \cup {i}, !.free_pages = f - 1,
                                !.high_water_mark = IF i + 1 >= h THEN i + 1 ELSE h]
    BY <2>1, <2>2 DEF Taken
  <2>4. Taken(b, i) = [bitmap |-> bits \cup {i},
                       high_water_mark |-> IF i + 1 >= h THEN i + 1 ELSE h,
                       free_pages |-> f - 1, page_table |-> t]
    BY <2>2, <2>3
  <2>5. blocks[b].bitmap = bits /\ mark = h /\ blocks[b].free_pages = f
        /\ blocks[b].page_table = t
    BY <2>1, <2>2
  <2> QED
    BY <2>4, <2>5
<1>7. (IF i + 1 >= mark THEN i + 1 ELSE mark) = IF i = mark THEN i + 1 ELSE mark
  BY <1>4, <1>5 DEF Indices
<1>8. Taken(b, i) \in Desc
  BY <1>3, <1>4, <1>6, Sizes DEF Desc, Indices
<1> QED
  BY <1>1, <1>2, <1>3, <1>5, <1>6, <1>7, <1>8

LEMMA AllocHere ==
  ASSUME IInv, Working, NEW b \in DOMAIN blocks, NEW i \in Indices,
         Found(b, i), AllocInBlock(b, i)
  PROVE  AllocatedHere(b, i) /\ granted' \in Nat
<1>1. /\ b \in 1..Len(blocks) /\ Taken(b, i) \in Desc /\ entries[b] \in Table
  BY FoundPage
<1>2. /\ blocks \in Seq(Desc) /\ entries \in Seq(Table) /\ directory \in Seq(Nat)
      /\ Len(entries) = Len(blocks) /\ Len(directory) = Len(blocks) /\ granted \in Nat
  BY DEF IInv, TypeOK, Lists, Table
<1>3. NextFrame(1) \in Nat
  BY <1>2, FrameType
<1>4. Mapped(entries[b], i, NextFrame(1)) \in Table
  BY <1>1, <1>3 DEF Mapped, Table
<1>5. /\ blocks' = [blocks EXCEPT ![b] = Taken(b, i)]
      /\ entries' = [entries EXCEPT ![b] = Mapped(entries[b], i, NextFrame(1))]
      /\ directory' = directory
  BY DEF AllocInBlock
<1>6. /\ blocks' \in Seq(Desc) /\ Len(blocks') = Len(blocks)
      /\ \A c \in 1..Len(blocks) : blocks'[c] = IF c = b THEN Taken(b, i) ELSE blocks[c]
  BY <1>1, <1>2, <1>5
<1>7. /\ entries' \in Seq(Table) /\ Len(entries') = Len(blocks)
      /\ \A c \in 1..Len(blocks) :
           entries'[c] = IF c = b THEN Mapped(entries[b], i, NextFrame(1)) ELSE entries[c]
  BY <1>1, <1>2, <1>4, <1>5
<1>8. \A j \in Indices : entries'[b][j] = IF j = i /\ entries[b][i] = None
                                          THEN NextFrame(1) ELSE entries[b][j]
  <2>1. entries'[b] = Mapped(entries[b], i, NextFrame(1))
    BY <1>1, <1>7
  <2> QED
    BY <1>1, <2>1 DEF Mapped, Table
<1>9. granted' \in Nat /\ granted' = IF entries[b][i] = None THEN granted + 1 ELSE granted
  BY <1>2 DEF AllocInBlock
<1> QED
  BY <1>1, <1>2, <1>5, <1>6, <1>7, <1>8, <1>9 DEF AllocatedHere, Allocated, AllocInBlock

LEMMA AllocBlock ==
  ASSUME IInv, Working, NEW b \in DOMAIN blocks, NEW i \in Indices,
         Found(b, i), AtHighWater(b, i), vmm_add_vmm_block(b, i)
  PROVE  AllocatedBlock(b, i) /\ granted' \in Nat
<1> DEFINE n == Len(blocks)
           H == HIGH_WATER_THRESHOLD
           table == [entries[b] EXCEPT ![H] = NextFrame(1)]
           mapped == Mapped(table, i, NextFrame(2))
           desc == [bitmap |-> {}, high_water_mark |-> 0, free_pages |-> PAGE_TABLE_INDICES,
                    page_table |-> PageAt(b, H)]
           unmapped == [j \in Indices |-> None]
<1>1. /\ b \in 1..n /\ Taken(b, i) \in Desc /\ entries[b] \in Table
      /\ i <= blocks[b].high_water_mark /\ blocks[b] \in Desc
      /\ Taken(b, i).high_water_mark =
              IF i = blocks[b].high_water_mark THEN i + 1 ELSE blocks[b].high_water_mark
  BY FoundPage
<1>2. /\ blocks \in Seq(Desc) /\ entries \in Seq(Table) /\ directory \in Seq(Nat)
      /\ Len(entries) = n /\ Len(directory) = n /\ granted \in Nat /\ n \in Nat
  BY DEF IInv, TypeOK, Lists, Table
<1>3. NextFrame(1) \in Nat /\ NextFrame(2) \in Nat
  BY <1>2, FrameType
<1>4. b = n /\ i < H
  <2>1. b = n /\ Taken(b, i).high_water_mark = H
    BY DEF AtHighWater
  <2>2. blocks[b].high_water_mark \in Nat /\ ~(blocks[b].high_water_mark >= H)
    BY <1>1, <1>2, <2>1 DEF IInv, Marks, Desc
  <2> QED
    BY <1>1, <2>1, <2>2, Sizes DEF Indices
<1>5. desc \in Desc /\ unmapped \in Table
  <2>1. H \in Indices /\ b \in Nat \ {0} /\ PAGE_TABLE_INDICES \in Nat
    BY <1>1, <1>2, Sizes
  <2>2. PageAt(b, H) \in Nat
    BY <2>1, PageParts
  <2>3. PAGE_TABLE_INDICES \in 0..PAGE_TABLE_INDICES /\ 0 \in 0..PAGE_TABLE_INDICES
    BY <2>1
  <2>4. desc \in Desc
    BY <2>2, <2>3 DEF Desc
  <2>5. unmapped \in Table
    BY DEF Table
  <2> QED
    BY <2>4, <2>5
<1>6. table \in Table /\ mapped \in Table
  BY <1>1, <1>3, Sizes DEF Mapped, Table
<1>7. \A j \in Indices :
        mapped[j] = CASE j = H -> NextFrame(1)
                      [] j = i /\ entries[b][i] = None -> NextFrame(2)
                      [] OTHER -> entries[b][j]
  <2>1. i # H /\ H \in Indices
    BY <1>4, Sizes DEF Indices
  <2>2. \A j \in Indices : table[j] = IF j = H THEN NextFrame(1) ELSE entries[b][j]
    BY <1>1, Sizes DEF Table
  <2>3. \A j \in Indices : mapped[j] = IF j = i /\ table[i] = None THEN NextFrame(2) ELSE table[j]
    <3> HIDE DEF table
    <3> QED
      BY <1>6 DEF Mapped, Table
  <2> HIDE DEF table, mapped, H
  <2> QED
    BY <2>1, <2>2, <2>3
<1>8. /\ blocks' = Append([blocks EXCEPT ![b] = Taken(b, i)], desc)
      /\ entries' = Append([entries EXCEPT ![b] = mapped], unmapped)
      /\ directory' = Append(directory, NextFrame(1))
      /\ granted' = IF entries[b][i] = None THEN granted + 2 ELSE granted + 1
  BY DEF vmm_add_vmm_block
<1> HIDE DEF mapped, desc, unmapped
<1>9. /\ blocks' \in Seq(Desc) /\ Len(blocks') = n + 1 /\ blocks'[n + 1] = desc
      /\ \A c \in 1..n : blocks'[c] = IF c = b THEN Taken(b, i) ELSE blocks[c]
  BY <1>1, <1>2, <1>5, <1>8
<1>10. /\ entries' \in Seq(Table) /\ Len(entries') = n + 1 /\ entries'[n + 1] = unmapped
       /\ \A c \in 1..n : entries'[c] = IF c = b THEN mapped ELSE entries[c]
  BY <1>1, <1>2, <1>5, <1>6, <1>8
<1>11. /\ directory' \in Seq(Nat) /\ Len(directory') = n + 1
       /\ directory'[n + 1] = NextFrame(1)
       /\ \A c \in 1..n : directory'[c] = directory[c]
  BY <1>2, <1>3, <1>8
<1>12. \A j \in Indices : entries'[n + 1][j] = None
  BY <1>10 DEF unmapped
<1>13. Allocated(b, i)
  BY <1>1, <1>9, <1>10, <1>11 DEF Allocated
<1>14. entries'[b] = mapped
  BY <1>1, <1>10
<1> QED
  BY <1>2, <1>4, <1>7, <1>8, <1>9, <1>10, <1>11, <1>12, <1>13, <1>14
  DEF AllocatedBlock, desc

\* What both cases share: blocks are added empty, and no entry is lost.
Grown(b, i) ==
  LET n == Len(blocks) IN
  /\ Allocated(b, i)
  /\ Len(blocks') \in {n, n + 1}
  /\ \A c \in 1..Len(blocks') : c \notin 1..n =>
       /\ blocks'[c].bitmap = {} /\ blocks'[c].high_water_mark = 0
       /\ blocks'[c].free_pages = PAGE_TABLE_INDICES
  /\ \A c \in 1..n, j \in Indices : entries[c][j] # None => entries'[c][j] # None
  /\ entries'[b][i] # None

LEMMA HereGrown ==
  ASSUME IInv, Working, NEW b \in DOMAIN blocks, NEW i \in Indices, AllocatedHere(b, i)
  PROVE  Grown(b, i)
<1>1. NextFrame(1) # None
  BY FrameType DEF IInv, TypeOK, None
<1>2. Allocated(b, i) /\ Len(blocks') = Len(blocks) /\ Len(blocks) \in Nat /\ b \in 1..Len(blocks)
  BY DEF AllocatedHere, Allocated, IInv, TypeOK
<1>3. \A c \in 1..Len(blocks), j \in Indices : entries[c][j] # None => entries'[c][j] # None
  BY <1>1, <1>2 DEF AllocatedHere, Allocated
<1>4. entries'[b][i] # None
  BY <1>1 DEF AllocatedHere
<1> QED
  BY <1>2, <1>3, <1>4 DEF Grown

LEMMA BlockGrown ==
  ASSUME IInv, Working, NEW b \in DOMAIN blocks, NEW i \in Indices, AllocatedBlock(b, i)
  PROVE  Grown(b, i)
<1>1. NextFrame(1) # None /\ NextFrame(2) # None
  BY FrameType DEF IInv, TypeOK, None
<1>2. /\ Allocated(b, i) /\ Len(blocks') = Len(blocks) + 1 /\ Len(blocks) \in Nat
      /\ b \in 1..Len(blocks)
  BY DEF AllocatedBlock, Allocated, IInv, TypeOK
<1>3. \A j \in Indices : /\ entries[b][j] # None => entries'[b][j] # None
                         /\ j = i => entries'[b][j] # None
  BY <1>1 DEF AllocatedBlock
<1>4. \A c \in 1..Len(blocks), j \in Indices : entries[c][j] # None => entries'[c][j] # None
  BY <1>2, <1>3 DEF Allocated
<1>5. /\ blocks'[Len(blocks) + 1].bitmap = {}
      /\ blocks'[Len(blocks) + 1].high_water_mark = 0
      /\ blocks'[Len(blocks) + 1].free_pages = PAGE_TABLE_INDICES
  BY DEF AllocatedBlock
<1>6. \A c \in 1..Len(blocks') : c \notin 1..Len(blocks) => c = Len(blocks) + 1
  BY <1>2
<1> QED
  BY <1>2, <1>3, <1>4, <1>5, <1>6 DEF Grown

LEMMA GrownBits ==
  ASSUME IInv, Working, NEW b \in DOMAIN blocks, NEW i \in Indices, Found(b, i),
         Grown(b, i), held' = held \cup {PageAt(b, i)}
  PROVE  Bits'
<1> DEFINE n == Len(blocks)
           page == PageAt(b, i)
<1>1. /\ b \in 1..n /\ n \in Nat /\ i \notin blocks[b].bitmap
      /\ Taken(b, i).bitmap = blocks[b].bitmap \cup {i}
  BY FoundPage DEF IInv, TypeOK
<1>2. page \in Nat /\ BlockOf(page) = b /\ IndexOf(page) = i
  BY <1>1, PageParts
<1>3. Bits /\ held \in SUBSET Nat
  BY DEF IInv, TypeOK
<1>4. page >= BootPages
  <2>1. CASE b = 1
    <3>1. ~(i < BootPages) /\ page = i
      BY <1>1, <1>3, <2>1, FirstBlock DEF Bits
    <3> QED
      BY <3>1, Sizes DEF Indices
  <2>2. CASE b > 1
    <3>1. (b - 1) * PAGE_TABLE_INDICES >= PAGE_TABLE_INDICES
      <4>1. \A x \in Nat, y \in Nat : x >= 1 => x * y >= y
        OBVIOUS
      <4> QED
        BY <1>1, <2>2, <4>1, Sizes
    <3> QED
      BY <1>1, <3>1, Sizes DEF PageAt, Indices
  <2> QED
    BY <1>1, <2>1, <2>2
<1>5. ASSUME NEW p \in held'
      PROVE  BlockOf(p) \in 1..Len(blocks') /\ p >= BootPages /\ Translate(p)' # None
  <2>1. Len(blocks') \in {n, n + 1}
    BY DEF Grown
  <2>2. CASE p = page
    BY <1>1, <1>2, <1>4, <2>1, <2>2 DEF Grown, Translate
  <2>3. CASE p \in held
    <3>1. BlockOf(p) \in 1..n /\ p >= BootPages /\ Translate(p) # None /\ IndexOf(p) \in Indices
      BY <1>3, <2>3, PartsOfPage DEF Bits
    <3>2. Translate(p)' # None
      BY <3>1 DEF Translate, Grown
    <3> QED
      BY <1>1, <2>1, <3>1, <3>2
  <2> QED
    BY <2>2, <2>3
<1>6. ASSUME NEW c \in 1..Len(blocks'), NEW j \in Indices
      PROVE  j \in blocks'[c].bitmap <=> PageAt(c, j) \in held' \/ (c = 1 /\ j < BootPages)
  <2>0. c \in Nat \ {0}
    BY <1>1 DEF Grown
  <2>1. PageAt(c, j) = page <=> c = b /\ j = i
    BY <1>2, <2>0, PageParts
  <2>2. CASE c \in 1..n
    <3>1. j \in blocks[c].bitmap <=> PageAt(c, j) \in held \/ (c = 1 /\ j < BootPages)
      BY <1>3, <2>2 DEF Bits
    <3>2. blocks'[c] = IF c = b THEN Taken(b, i) ELSE blocks[c]
      BY <2>2 DEF Grown, Allocated
    <3> QED
      BY <1>1, <2>1, <3>1, <3>2
  <2>3. CASE c \notin 1..n
    <3>1. blocks'[c].bitmap = {} /\ c # b /\ c # 1
      BY <1>1, <2>3 DEF Grown
    <3>2. PageAt(c, j) \notin held
      BY <1>3, <2>0, <2>3, PageParts DEF Bits
    <3> QED
      BY <2>1, <3>1, <3>2
  <2> QED
    BY <2>2, <2>3
<1> QED
  BY <1>5, <1>6 DEF Bits

LEMMA GrownCounters ==
  ASSUME IInv, Working, NEW b \in DOMAIN blocks, NEW i \in Indices, Found(b, i),
         Grown(b, i), freed' = freed
  PROVE  CountersSound'
<1> DEFINE n == Len(blocks)
<1>1. /\ b \in 1..n /\ n \in Nat /\ i \notin blocks[b].bitmap /\ blocks[b] \in Desc
      /\ i <= blocks[b].high_water_mark
      /\ Taken(b, i).bitmap = blocks[b].bitmap \cup {i}
      /\ Taken(b, i).free_pages = blocks[b].free_pages - 1
      /\ Taken(b, i).high_water_mark =
              IF i = blocks[b].high_water_mark THEN i + 1 ELSE blocks[b].high_water_mark
  BY FoundPage DEF IInv, TypeOK
<1>2. CountersSound /\ DOMAIN blocks = 1..n /\ DOMAIN blocks' = 1..Len(blocks')
  BY DEF IInv, TypeOK, Grown, Allocated
<1>3. IsFiniteSet(Indices) /\ Cardinality(Indices) = PAGE_TABLE_INDICES
  BY FS_Interval, Sizes DEF Indices
<1> SUFFICES ASSUME NEW c \in DOMAIN blocks'
             PROVE  /\ blocks'[c].free_pages <= Cardinality(ClearBits(c)')
                    /\ freed = 0 =>
                         /\ blocks'[c].free_pages = Cardinality(ClearBits(c)')
                         /\ blocks'[c].bitmap = 0..blocks'[c].high_water_mark - 1
  BY DEF CountersSound
<1>4. CASE c \in 1..n /\ c # b
  <2>1. blocks'[c] = blocks[c]
    BY <1>4 DEF Grown, Allocated
  <2>2. ClearBits(c)' = ClearBits(c)
    BY <2>1 DEF ClearBits
  <2> QED
    BY <1>2, <1>4, <2>1, <2>2 DEF CountersSound
<1>5. CASE c = b
  <2>1. blocks'[c] = Taken(b, i)
    BY <1>1, <1>5 DEF Grown, Allocated
  <2>2. ClearBits(c)' = ClearBits(b) \ {i} /\ i \in ClearBits(b)
    BY <1>1, <2>1 DEF ClearBits
  <2>3. IsFiniteSet(ClearBits(b))
    BY <1>3, FS_Subset DEF ClearBits
  <2>4. Cardinality(ClearBits(c)') = Cardinality(ClearBits(b)) - 1
    BY <2>2, <2>3, FS_RemoveElement
  <2>5. /\ blocks[b].free_pages \in Nat /\ blocks[b].high_water_mark \in Nat
        /\ Cardinality(ClearBits(b)) \in Nat
    BY <1>1, <2>3, FS_CardinalityType DEF Desc
  <2>6. blocks[b].free_pages <= Cardinality(ClearBits(b))
    BY <1>1, <1>2 DEF CountersSound
  <2>7. ASSUME freed = 0
        PROVE  /\ blocks'[c].free_pages = Cardinality(ClearBits(c)')
               /\ blocks'[c].bitmap = 0..blocks'[c].high_water_mark - 1
    <3>1. /\ blocks[b].free_pages = Cardinality(ClearBits(b))
          /\ blocks[b].bitmap = 0..blocks[b].high_water_mark - 1
      BY <1>1, <1>2, <2>7 DEF CountersSound
    <3>2. i = blocks[b].high_water_mark
      BY <1>1, <2>5, <3>1 DEF Indices
    <3>3. 0..i - 1 \cup {i} = 0..(i + 1) - 1
      BY DEF Indices
    <3>4. blocks'[c].free_pages = Cardinality(ClearBits(c)')
      BY <1>1, <2>1, <2>4, <3>1
    <3>5. blocks'[c].high_water_mark = i + 1 /\ blocks'[c].bitmap = 0..i - 1 \cup {i}
      BY <1>1, <2>1, <3>1, <3>2
    <3> QED
      BY <3>3, <3>4, <3>5
  <2> QED
    BY <1>1, <2>1, <2>4, <2>5, <2>6, <2>7
<1>6. CASE c \notin 1..n
  <2>1. /\ blocks'[c].bitmap = {} /\ blocks'[c].high_water_mark = 0
        /\ blocks'[c].free_pages = PAGE_TABLE_INDICES
    BY <1>2, <1>6 DEF Grown
  <2>2. ClearBits(c)' = Indices
    BY <2>1 DEF ClearBits
  <2>3. 0..0 - 1 = {}
    OBVIOUS
  <2>4. Cardinality(ClearBits(c)') = PAGE_TABLE_INDICES
    BY <1>3, <2>2
  <2>5. PAGE_TABLE_INDICES <= PAGE_TABLE_INDICES
    BY Sizes
  <2> QED
    BY <2>1, <2>3, <2>4, <2>5
<1> QED
  BY <1>1, <1>4, <1>5, <1>6

LEMMA HereShape ==
  ASSUME IInv, Working, NEW b \in DOMAIN blocks, NEW i \in Indices, Found(b, i),
         AllocatedHere(b, i)
  PROVE  Lists' /\ Tables' /\ Marks'
<1> DEFINE n == Len(blocks)
           H == HIGH_WATER_THRESHOLD
<1>1. /\ b \in 1..n /\ n \in Nat /\ n > 0 /\ blocks[b] \in Desc
      /\ i <= blocks[b].high_water_mark
      /\ Taken(b, i).bitmap = blocks[b].bitmap \cup {i}
      /\ Taken(b, i).page_table = blocks[b].page_table
      /\ Taken(b, i).high_water_mark =
              IF i = blocks[b].high_water_mark THEN i + 1 ELSE blocks[b].high_water_mark
  BY FoundPage DEF IInv, TypeOK, Lists
<1>2. /\ Len(blocks') = n /\ Len(entries') = n /\ Len(directory') = n
      /\ \A c \in 1..n : /\ directory'[c] = directory[c]
                         /\ blocks'[c] = IF c = b THEN Taken(b, i) ELSE blocks[c]
      /\ \A c \in 1..n, j \in Indices : entries[c][j] # None => entries'[c][j] = entries[c][j]
  BY <1>1 DEF AllocatedHere, Allocated
<1>3. granted \in Nat /\ granted' \in Nat /\ granted' >= granted
  BY DEF AllocatedHere, IInv, TypeOK
<1>4. Lists'
  BY <1>1, <1>2, <1>3 DEF Lists, IInv
<1>5. Tables'
  <2>1. /\ blocks[1].page_table = FirstFrame + 1
        /\ entries[1] \in [Indices -> Nat]
        /\ \A j \in Indices \ {H} : entries[1][j] = j
        /\ \A c \in 2..n : /\ blocks[c].page_table = PageAt(c - 1, H)
                           /\ directory[c] = entries[c - 1][H]
    BY DEF IInv, Tables
  <2>2. \A c \in 1..n : blocks'[c].page_table = blocks[c].page_table
    BY <1>1, <1>2
  <2>3. \A j \in Indices : entries'[1][j] = entries[1][j] /\ entries[1][j] \in Nat
    BY <1>1, <1>2, <2>1 DEF None
  <2>4. entries'[1] \in Table
    BY <1>1, <1>2 DEF AllocatedHere, Allocated
  <2>5. entries'[1] \in [Indices -> Nat]
    BY <2>3, <2>4 DEF Table
  <2>6. \A c \in 2..n : directory[c] \in Nat /\ c \in 1..n /\ c - 1 \in 1..n
    BY <1>1 DEF IInv, TypeOK, Lists
  <2>7. \A c \in 2..n : entries'[c - 1][H] = entries[c - 1][H]
    <3>1. \A c \in 2..n : entries[c - 1][H] # None
      BY <2>1, <2>6 DEF None
    <3> QED
      BY <1>2, <2>6, <3>1, Sizes
  <2>8. \A c \in 2..n : /\ blocks'[c].page_table = PageAt(c - 1, H)
                        /\ directory'[c] = entries'[c - 1][H]
    BY <1>2, <2>1, <2>2, <2>6, <2>7
  <2> QED
    BY <1>1, <1>2, <2>1, <2>2, <2>3, <2>5, <2>8 DEF Tables
<1>6. ASSUME NEW c \in 1..n
      PROVE  /\ \A j \in blocks'[c].bitmap : j < blocks'[c].high_water_mark
             /\ blocks'[c].high_water_mark >= H <=> c < n
  <2>1. /\ \A j \in blocks[c].bitmap : j < blocks[c].high_water_mark
        /\ blocks[c].high_water_mark >= H <=> c < n
    BY DEF IInv, Marks
  <2>2. CASE c # b
    BY <1>2, <2>1, <2>2
  <2>3. CASE c = b
    <3>1. blocks[b].high_water_mark \in Nat /\ blocks[b].bitmap \in SUBSET Indices
      BY <1>1 DEF Desc
    <3>2. blocks'[c] = Taken(b, i)
      BY <1>2, <2>3
    <3>3. \A j \in blocks'[c].bitmap : j < blocks'[c].high_water_mark
      BY <1>1, <2>1, <2>3, <3>1, <3>2 DEF Indices
    <3>4. ~(Taken(b, i).high_water_mark = H /\ b = n)
      BY DEF AllocatedHere, AtHighWater
    <3>5. blocks'[c].high_water_mark >= H <=> c < n
      BY <1>1, <2>1, <2>3, <3>1, <3>2, <3>4, Sizes DEF Indices
    <3> QED
      BY <3>3, <3>5
  <2> QED
    BY <2>2, <2>3
<1> QED
  BY <1>2, <1>4, <1>5, <1>6 DEF Marks

LEMMA BlockShape ==
  ASSUME IInv, Working, NEW b \in DOMAIN blocks, NEW i \in Indices, Found(b, i),
         AllocatedBlock(b, i)
  PROVE  Lists' /\ Tables' /\ Marks'
<1> DEFINE n == Len(blocks)
           H == HIGH_WATER_THRESHOLD
<1>1. /\ b \in 1..n /\ n \in Nat /\ n > 0 /\ blocks[b] \in Desc
      /\ i <= blocks[b].high_water_mark
      /\ Taken(b, i).bitmap = blocks[b].bitmap \cup {i}
      /\ Taken(b, i).page_table = blocks[b].page_table
      /\ Taken(b, i).high_water_mark =
              IF i = blocks[b].high_water_mark THEN i + 1 ELSE blocks[b].high_water_mark
  BY FoundPage DEF IInv, TypeOK, Lists
<1>2. /\ b = n /\ Len(blocks') = n + 1 /\ Len(entries') = n + 1 /\ Len(directory') = n + 1
      /\ \A c \in 1..n : /\ directory'[c] = directory[c]
                         /\ blocks'[c] = IF c = b THEN Taken(b, i) ELSE blocks[c]
                         /\ c # b => entries'[c] = entries[c]
      /\ directory'[n + 1] = NextFrame(1)
      /\ blocks'[n + 1].bitmap = {} /\ blocks'[n + 1].high_water_mark = 0
      /\ blocks'[n + 1].page_table = PageAt(n, H)
      /\ entries'[n][H] = NextFrame(1)
      /\ \A j \in Indices \ {H} : entries[n][j] # None => entries'[n][j] = entries[n][j]
      /\ Taken(b, i).high_water_mark = H
  <2>1. b = n /\ Taken(b, i).high_water_mark = H /\ H \in Indices /\ i # H
    BY Sizes DEF AllocatedBlock, AtHighWater, Indices
  <2>2. /\ blocks'[n + 1].bitmap = {} /\ blocks'[n + 1].high_water_mark = 0
        /\ blocks'[n + 1].page_table = PageAt(n, H)
    BY <2>1 DEF AllocatedBlock
  <2>3. \A j \in Indices : entries'[n][j] = CASE j = H -> NextFrame(1)
                                             [] j = i /\ entries[n][i] = None -> NextFrame(2)
                                             [] OTHER -> entries[n][j]
    BY <2>1 DEF AllocatedBlock
  <2>4. /\ entries'[n][H] = NextFrame(1)
        /\ \A j \in Indices \ {H} : entries[n][j] # None => entries'[n][j] = entries[n][j]
    BY <2>1, <2>3
  <2>5. \A c \in 1..n : /\ directory'[c] = directory[c]
                        /\ blocks'[c] = IF c = b THEN Taken(b, i) ELSE blocks[c]
                        /\ c # b => entries'[c] = entries[c]
    BY DEF AllocatedBlock, Allocated
  <2>6. /\ Len(blocks') = n + 1 /\ Len(entries') = n + 1 /\ Len(directory') = n + 1
        /\ directory'[n + 1] = NextFrame(1)
    BY DEF AllocatedBlock
  <2> HIDE DEF n, H
  <2> QED
    BY <2>1, <2>2, <2>4, <2>5, <2>6
<1>3. granted \in Nat /\ granted' \in Nat /\ granted' >= granted /\ NextFrame(1) \in Nat
  BY FrameType DEF AllocatedBlock, IInv, TypeOK
<1>4. Lists'
  BY <1>1, <1>2, <1>3 DEF Lists, IInv
<1>5. Tables'
  <2>1. /\ blocks[1].page_table = FirstFrame + 1
        /\ entries[1] \in [Indices -> Nat]
        /\ \A j \in Indices \ {H} : entries[1][j] = j
        /\ \A c \in 2..n : /\ blocks[c].page_table = PageAt(c - 1, H)
                           /\ directory[c] = entries[c - 1][H]
    BY DEF IInv, Tables
  <2>2. \A c \in 1..n : blocks'[c].page_table = blocks[c].page_table
    BY <1>1, <1>2
  <2>3. \A j \in Indices \ {H} : entries'[1][j] = j
    <3>1. CASE n = 1
      BY <1>2, <2>1, <3>1 DEF Indices, None
    <3>2. CASE n # 1
      BY <1>1, <1>2, <2>1, <3>2
    <3> QED
      BY <3>1, <3>2
  <2>4. entries'[1][H] \in Nat
    BY <1>1, <1>2, <1>3, <2>1, Sizes
  <2>5. entries'[1] \in Table
    BY <1>1, <1>2 DEF AllocatedBlock, Allocated
  <2>6. entries'[1] \in [Indices -> Nat]
    <3>1. \A j \in Indices : entries'[1][j] \in Nat
      BY <2>3, <2>4 DEF Indices
    <3> QED
      BY <2>5, <3>1 DEF Table
  <2>7. ASSUME NEW c \in 2..n + 1
        PROVE  /\ blocks'[c].page_table = PageAt(c - 1, H)
               /\ directory'[c] = entries'[c - 1][H]
    <3>1. CASE c = n + 1
      BY <1>1, <1>2, <3>1
    <3>2. CASE c \in 2..n
      <4>1. c \in 1..n /\ c - 1 \in 1..n /\ c - 1 # b
        BY <1>1, <1>2, <3>2
      <4> QED
        BY <1>2, <2>1, <2>2, <3>2, <4>1
    <3> QED
      BY <1>1, <3>1, <3>2
  <2> QED
    BY <1>1, <1>2, <2>1, <2>2, <2>3, <2>6, <2>7 DEF Tables
<1>6. ASSUME NEW c \in 1..n + 1
      PROVE  /\ \A j \in blocks'[c].bitmap : j < blocks'[c].high_water_mark
             /\ blocks'[c].high_water_mark >= H <=> c < n + 1
  <2>1. CASE c \in 1..n /\ c # b
    BY <1>1, <1>2, <2>1 DEF IInv, Marks
  <2>2. CASE c = b
    <3>1. /\ blocks[b].high_water_mark \in Nat /\ blocks[b].bitmap \in SUBSET Indices
          /\ \A j \in blocks[b].bitmap : j < blocks[b].high_water_mark
      BY <1>1 DEF Desc, IInv, Marks
    <3>2. blocks'[c] = Taken(b, i)
      BY <1>1, <1>2, <2>2
    <3>3. \A j \in blocks'[c].bitmap : j < blocks'[c].high_water_mark
      BY <1>1, <3>1, <3>2 DEF Indices
    <3> QED
      BY <1>1, <1>2, <2>2, <3>2, <3>3, Sizes DEF Indices
  <2>3. CASE c = n + 1
    BY <1>1, <1>2, <2>3, Sizes DEF Indices
  <2> QED
    BY <1>1, <2>1, <2>2, <2>3
<1> QED
  BY <1>2, <1>4, <1>5, <1>6 DEF Marks

\* The frames granted by this step.
NewFrames == FirstFrame + granted..FirstFrame + granted' - 1

LEMMA NewFramesApart ==
  ASSUME granted \in Nat, granted >= 2, granted' \in Nat, granted' >= granted
  PROVE  /\ \A x \in Granted : x \in Granted'
         /\ \A x \in NewFrames : x \in Granted' /\ x \notin Granted /\ x # 0 /\ x # None
<1>1. Granted' = FirstFrame + 2..FirstFrame + granted' - 1
  BY DEF Granted
<1>2. \A f \in Nat \ {0}, g \in Nat, h \in Nat : g >= 2 /\ h >= g =>
        /\ \A x \in f + 2..f + g - 1 : x \in f + 2..f + h - 1
        /\ \A x \in f + g..f + h - 1 : /\ x \in f + 2..f + h - 1 /\ x \notin f + 2..f + g - 1
                                       /\ x # 0 /\ x # -1
  OBVIOUS
<1> QED
  BY <1>1, <1>2, VmmConstants DEF Granted, NewFrames, None

\* The entries filled by this step, at most those of A, have new frames, and
\* different ones.
FilledFromPool(A) ==
  /\ granted' \in Nat /\ granted' >= granted
  /\ \A c \in 1..Len(blocks'), j \in Indices :
       FromPool(c, j)' =>
         \/ /\ c \in 1..Len(blocks) /\ FromPool(c, j) /\ entries'[c][j] = entries[c][j]
         \/ <<c, j>> \in A /\ entries'[c][j] \in NewFrames
  /\ \A x, y \in A : entries'[x[1]][x[2]] = entries'[y[1]][y[2]] => x = y
                         \/ entries'[x[1]][x[2]] = 0

LEMMA FramesApart ==
  ASSUME IInv, Working, user_stack' = user_stack, NEW A, FilledFromPool(A)
  PROVE  FrameUse'
<1>1. /\ FrameUse /\ granted \in Nat /\ granted >= 2 /\ FirstFrame \in Nat \ {0}
      /\ granted' \in Nat /\ granted' >= granted
  BY VmmConstants DEF IInv, TypeOK, Lists, FilledFromPool
<1>2. /\ \A x \in Granted : x \in Granted'
      /\ \A x \in NewFrames : x \in Granted' /\ x \notin Granted /\ x # 0 /\ x # None
  BY <1>1, NewFramesApart
<1>3. user_stack' \in {None, 0} \cup Granted'
  BY <1>1, <1>2 DEF FrameUse
<1>4. user_stack \notin NewFrames
  BY <1>1, <1>2 DEF FrameUse
<1>5. \A c \in 1..Len(blocks'), j \in Indices :
        FromPool(c, j)' =>
          \/ /\ c \in 1..Len(blocks) /\ FromPool(c, j) /\ entries'[c][j] = entries[c][j]
          \/ <<c, j>> \in A /\ entries'[c][j] \in NewFrames
  BY DEF FilledFromPool
<1>6. ASSUME NEW c \in 1..Len(blocks'), NEW j \in Indices, FromPool(c, j)'
      PROVE  entries'[c][j] \in Granted' /\ entries'[c][j] # user_stack'
  <2>1. CASE c \in 1..Len(blocks) /\ FromPool(c, j) /\ entries'[c][j] = entries[c][j]
    <3>1. entries[c][j] \in Granted /\ entries[c][j] # user_stack
      BY <1>1, <2>1 DEF FrameUse
    <3> QED
      BY <1>2, <2>1, <3>1
  <2>2. CASE entries'[c][j] \in NewFrames
    BY <1>2, <1>4, <2>2
  <2> QED
    BY <1>5, <1>6, <2>1, <2>2
<1>7. ASSUME NEW c \in 1..Len(blocks'), NEW j \in Indices, FromPool(c, j)',
             NEW d \in 1..Len(blocks'), NEW k \in Indices, FromPool(d, k)',
             entries'[d][k] = entries'[c][j]
      PROVE  c = d /\ j = k
  <2> DEFINE Old(x, y) == /\ x \in 1..Len(blocks) /\ FromPool(x, y)
                          /\ entries'[x][y] = entries[x][y]
             Fresh(x, y) == <<x, y>> \in A /\ entries'[x][y] \in NewFrames
  <2>1. (Old(c, j) \/ Fresh(c, j)) /\ (Old(d, k) \/ Fresh(d, k))
    BY <1>5, <1>7
  <2>2. CASE Old(c, j) /\ Old(d, k)
    BY <1>1, <1>7, <2>2 DEF FrameUse
  <2>3. CASE Fresh(c, j) /\ Fresh(d, k)
    <3>1. <<c, j>> \in A /\ <<d, k>> \in A /\ entries'[c][j] # 0
      BY <1>2, <2>3
    <3>2. <<d, k>> = <<c, j>>
      <4>1. <<c, j>>[1] = c /\ <<c, j>>[2] = j /\ <<d, k>>[1] = d /\ <<d, k>>[2] = k
        OBVIOUS
      <4> QED
        BY <1>7, <3>1, <4>1 DEF FilledFromPool
    <3> QED
      BY <3>2
  <2>4. CASE Old(c, j) /\ Fresh(d, k)
    BY <1>1, <1>2, <1>7, <2>4 DEF FrameUse
  <2>5. CASE Fresh(c, j) /\ Old(d, k)
    BY <1>1, <1>2, <1>7, <2>5 DEF FrameUse
  <2> HIDE DEF Old, Fresh
  <2> QED
    BY <2>1, <2>2, <2>3, <2>4, <2>5
<1> QED
  BY <1>3, <1>6, <1>7 DEF FrameUse

LEMMA HereFrames ==
  ASSUME IInv, Working, NEW b \in DOMAIN blocks, NEW i \in Indices, Found(b, i),
         AllocatedHere(b, i), user_stack' = user_stack
  PROVE  FrameUse'
<1>1. /\ b \in 1..Len(blocks) /\ granted \in Nat /\ Len(blocks') = Len(blocks)
      /\ granted' = IF entries[b][i] = None THEN granted + 1 ELSE granted
  BY FoundPage DEF AllocatedHere, IInv, TypeOK
<1>2. \A c \in 1..Len(blocks), j \in Indices :
        entries'[c][j] = IF c = b /\ j = i /\ entries[b][i] = None
                         THEN NextFrame(1) ELSE entries[c][j]
  BY <1>1 DEF AllocatedHere, Allocated
<1>3. NextFrame(1) = FirstFrame + granted \/ NextFrame(1) = 0
  BY <1>1, VmmConstants DEF NextFrame
<1> DEFINE A == {<<b, i>>}
<1>4. ASSUME NEW c \in 1..Len(blocks'), NEW j \in Indices, FromPool(c, j)'
      PROVE  \/ /\ c \in 1..Len(blocks) /\ FromPool(c, j) /\ entries'[c][j] = entries[c][j]
             \/ /\ <<c, j>> \in A
                /\ entries'[c][j] \in NewFrames
  <2>1. CASE c = b /\ j = i /\ entries[b][i] = None
    <3>1. entries'[c][j] = NextFrame(1) /\ entries'[c][j] # 0
      BY <1>1, <1>2, <1>4, <2>1 DEF FromPool
    <3> QED
      BY <1>1, <1>3, <2>1, <3>1, VmmConstants DEF NewFrames
  <2>2. CASE ~(c = b /\ j = i /\ entries[b][i] = None)
    BY <1>1, <1>2, <1>4, <2>2 DEF FromPool
  <2> QED
    BY <2>1, <2>2
<1>5. \A x, y \in A : entries'[x[1]][x[2]] = entries'[y[1]][y[2]] => x = y
                        \/ entries'[x[1]][x[2]] = 0
  OBVIOUS
<1>6. granted' \in Nat /\ granted' >= granted
  BY <1>1
<1> HIDE DEF A
<1> QED
  BY <1>4, <1>5, <1>6, FramesApart DEF FilledFromPool

LEMMA BlockFrames ==
  ASSUME IInv, Working, NEW b \in DOMAIN blocks, NEW i \in Indices, Found(b, i),
         AllocatedBlock(b, i), user_stack' = user_stack
  PROVE  FrameUse'
<1> DEFINE n == Len(blocks)
           H == HIGH_WATER_THRESHOLD
<1>1. /\ b \in 1..n /\ b = n /\ n \in Nat /\ granted \in Nat /\ Len(blocks') = n + 1
      /\ i # H /\ H \in Indices
      /\ granted' = IF entries[b][i] = None THEN granted + 2 ELSE granted + 1
  BY FoundPage, Sizes DEF AllocatedBlock, IInv, TypeOK, Indices
<1>2. \A j \in Indices : entries'[n + 1][j] = None
  BY DEF AllocatedBlock
<1>3. \A c \in 1..n, j \in Indices : c # b => entries'[c][j] = entries[c][j]
  BY DEF AllocatedBlock, Allocated
<1>4. \A j \in Indices :
       entries'[b][j] = CASE j = H -> NextFrame(1)
                          [] j = i /\ entries[b][i] = None -> NextFrame(2)
                          [] OTHER -> entries[b][j]
  BY DEF AllocatedBlock
<1>5. /\ entries'[b][H] = NextFrame(1)
      /\ entries[b][i] = None => entries'[b][i] = NextFrame(2)
      /\ \A j \in Indices : j # H /\ ~(j = i /\ entries[b][i] = None) =>
           entries'[b][j] = entries[b][j]
  BY <1>1, <1>4
<1>6. /\ NextFrame(1) = FirstFrame + granted \/ NextFrame(1) = 0
      /\ NextFrame(2) = FirstFrame + granted + 1 \/ NextFrame(2) = 0
  BY <1>1, VmmConstants DEF NextFrame
<1> DEFINE A == IF entries[b][i] = None THEN {<<b, H>>, <<b, i>>} ELSE {<<b, H>>}
<1> HIDE DEF n, H
<1>7. ASSUME NEW c \in 1..Len(blocks'), NEW j \in Indices, FromPool(c, j)'
      PROVE  \/ /\ c \in 1..n /\ FromPool(c, j) /\ entries'[c][j] = entries[c][j]
             \/ /\ <<c, j>> \in A
                /\ entries'[c][j] \in NewFrames
  <2>0. entries'[c][j] \notin {None, 0} /\ (c > 1 \/ j = H)
    BY <1>7 DEF FromPool, H
  <2>1. CASE c = b /\ j = H
    BY <1>1, <1>5, <1>6, <2>0, <2>1, VmmConstants DEF NewFrames
  <2>2. CASE c = b /\ j = i /\ entries[b][i] = None
    BY <1>1, <1>5, <1>6, <2>0, <2>2, VmmConstants DEF NewFrames
  <2>3. CASE c = b /\ j # H /\ ~(j = i /\ entries[b][i] = None)
    BY <1>1, <1>5, <2>0, <2>3 DEF FromPool, H
  <2>4. CASE c \in 1..n /\ c # b
    <3>1. n > 1
      BY <1>1, <2>4
    <3> QED
      BY <1>3, <2>0, <2>4, <3>1 DEF FromPool, H, n
  <2>5. CASE c = n + 1
    BY <1>2, <2>0, <2>5
  <2> QED
    BY <1>1, <2>1, <2>2, <2>3, <2>4, <2>5
<1>8. \A x, y \in A : entries'[x[1]][x[2]] = entries'[y[1]][y[2]] => x = y
                        \/ entries'[x[1]][x[2]] = 0
  <2>1. CASE entries[b][i] = None
    <3>1. entries'[b][H] = entries'[b][i] => entries'[b][H] = 0 /\ entries'[b][i] = 0
      <4>1. entries'[b][H] = NextFrame(1) /\ entries'[b][i] = NextFrame(2)
        BY <1>5, <2>1
      <4>2. FirstFrame + granted \in Nat \ {0}
        BY <1>1, VmmConstants
      <4>3. NextFrame(1) = NextFrame(2) => NextFrame(1) = 0
        BY <1>6, <4>2
      <4> QED
        BY <4>1, <4>3
    <3>2. A = {<<b, H>>, <<b, i>>}
      BY <2>1
    <3> HIDE DEF A
    <3> QED
      BY <3>1, <3>2
  <2>2. CASE entries[b][i] # None
    BY <2>2
  <2> QED
    BY <2>1, <2>2
<1>9. granted' \in Nat /\ granted' >= granted
  BY <1>1
<1> HIDE DEF A
<1> QED
  BY <1>7, <1>8, <1>9, FramesApart DEF FilledFromPool, n

\* As long as nothing is freed, the last block has a page that the search finds.
LEMMA PageLeft ==
  ASSUME IInv, Working, freed = 0
  PROVE  \E b \in DOMAIN blocks, i \in Indices : Found(b, i)
<1> DEFINE n == Len(blocks)
           m == blocks[n].high_water_mark
           S == {c \in 1..n : blocks[c].free_pages # 0 /\ ClearBits(c) # {}}
<1>1. n \in Nat /\ n > 0 /\ DOMAIN blocks = 1..n /\ blocks[n] \in Desc
  BY DEF IInv, TypeOK, Lists
<1>2. m \in Nat /\ ~(m >= HIGH_WATER_THRESHOLD)
  BY <1>1 DEF IInv, Marks, Desc
<1>3. /\ blocks[n].bitmap = 0..m - 1
      /\ blocks[n].free_pages = Cardinality(ClearBits(n))
  BY <1>1 DEF IInv, CountersSound
<1>4. m \in ClearBits(n)
  BY <1>2, <1>3, Sizes DEF ClearBits, Indices
<1>5. blocks[n].free_pages # 0
  <2>0. IsFiniteSet(Indices)
    BY FS_Interval, Sizes DEF Indices
  <2>1. IsFiniteSet(ClearBits(n))
    BY <2>0, FS_Subset DEF ClearBits
  <2>2. Cardinality(ClearBits(n)) = 0 <=> ClearBits(n) = {}
    BY <2>1, FS_EmptySet
  <2> HIDE DEF n, m
  <2> QED
    BY <1>3, <1>4, <2>2
<1>6. S \in SUBSET Nat /\ S # {}
  BY <1>1, <1>4, <1>5
<1>7. PICK b \in S : \A c \in S : b <= c
  BY <1>6, Least
<1>8. ClearBits(b) \in SUBSET Nat /\ ClearBits(b) # {}
  BY DEF ClearBits, Indices
<1>9. PICK i \in ClearBits(b) : \A j \in ClearBits(b) : i <= j
  BY <1>8, Least
<1>10. \A c \in 1..b - 1 : c \in 1..n /\ ~(b <= c)
  BY <1>1
<1>11. Found(b, i)
  BY <1>7, <1>9, <1>10 DEF Found
<1> QED
  BY <1>1, <1>11 DEF ClearBits

\* What a call of vmm_alloc_page comes to.
Answered(b, i, then) ==
  /\ b \in DOMAIN blocks /\ i \in Indices /\ Found(b, i)
  /\ AllocatedHere(b, i) \/ AllocatedBlock(b, i)
  /\ granted' \in Nat
  /\ Answer(PageAt(b, i), then)

LEMMA AllocCases ==
  ASSUME IInv, Working, NEW then, vmm_alloc_page(then)
  PROVE  \/ \E b, i : Answered(b, i, then)
         \/ AllocBlockLost
         \/ AllocPanic /\ freed # 0
<1>1. CASE AllocPanic
  BY <1>1, PageLeft DEF AllocPanic
<1>2. ASSUME NEW b \in DOMAIN blocks, NEW i \in Indices, Found(b, i),
             AllocInBlock(b, i) /\ Answer(PageAt(b, i), then)
      PROVE  Answered(b, i, then)
  BY <1>2, AllocHere DEF Answered
<1>3. ASSUME NEW b \in DOMAIN blocks, NEW i \in Indices, Found(b, i), AtHighWater(b, i),
             vmm_add_vmm_block(b, i) /\ Answer(PageAt(b, i), then)
      PROVE  Answered(b, i, then)
  BY <1>3, AllocBlock DEF Answered
<1> QED
  BY <1>1, <1>2, <1>3 DEF vmm_alloc_page

LEMMA AnsweredPage ==
  ASSUME IInv, Working, NEW b, NEW i, NEW then, Answered(b, i, then)
  PROVE  /\ PageAt(b, i) \in Nat \ held /\ ret' = PageAt(b, i)
         /\ Grown(b, i) /\ Len(blocks') > 0 /\ entries'[1] \in Table
<1>1. b \in 1..Len(blocks) /\ i \notin blocks[b].bitmap /\ i \in Indices
  BY FoundPage DEF Answered
<1>2. PageAt(b, i) \in Nat
  BY <1>1, PageParts
<1>3. PageAt(b, i) \notin held
  BY <1>1 DEF IInv, Bits
<1>4. Grown(b, i)
  BY HereGrown, BlockGrown DEF Answered
<1>5. CASE AllocatedHere(b, i)
  <2>1. Len(blocks) \in Nat /\ Len(blocks') = Len(blocks) /\ Len(entries') = Len(blocks)
        /\ entries' \in Seq(Table)
    BY <1>5 DEF AllocatedHere, Allocated, IInv, TypeOK
  <2> QED
    BY <1>1, <1>2, <1>3, <1>4, <2>1 DEF Answered, Answer
<1>6. CASE AllocatedBlock(b, i)
  <2>1. Len(blocks) \in Nat /\ Len(blocks') = Len(blocks) + 1 /\ Len(entries') = Len(blocks) + 1
        /\ entries' \in Seq(Table)
    BY <1>6 DEF AllocatedBlock, Allocated, IInv, TypeOK
  <2> QED
    BY <1>2, <1>3, <1>4, <2>1 DEF Answered, Answer
<1> QED
  BY <1>2, <1>3, <1>4, <1>5, <1>6 DEF Answered, Answer

Busy == {"ready", "stack table", "stack"}

LEMMA BusyPhases == \A p \in Busy : p \in Phases
BY DEF Busy, Phases

LEMMA AllocIInv ==
  ASSUME IInv, Working, NEW then \in Busy, vmm_alloc_page(then),
         freed' = freed, user_stack' = user_stack,
         user_table' \in Nat \cup {None}, user_pages' \in SUBSET Nat
  PROVE  IInv' /\ (asked' # asked => ret' \notin held)
<1>1. ASSUME NEW b, NEW i, Answered(b, i, then)
      PROVE  IInv' /\ (asked' # asked => ret' \notin held)
  <2>1. /\ b \in DOMAIN blocks /\ i \in Indices /\ Found(b, i)
        /\ granted' \in Nat /\ phase' = then /\ asked' = 1 - asked
        /\ held' = held \cup {PageAt(b, i)}
    BY <1>1 DEF Answered, Answer
  <2>2. PageAt(b, i) \in Nat \ held /\ ret' = PageAt(b, i) /\ Grown(b, i)
    BY <1>1, AnsweredPage
  <2>3. TypeOK'
    <3>1. blocks' \in Seq(Desc) /\ entries' \in Seq(Table) /\ directory' \in Seq(Nat)
      BY <2>2 DEF Grown, Allocated
    <3>2. asked' \in {0, 1} /\ held' \in SUBSET Nat /\ phase' \in Phases
      <4>1. asked \in {0, 1} /\ held \in SUBSET Nat
        BY DEF IInv, TypeOK
      <4>2. asked' \in {0, 1}
        BY <2>1, <4>1
      <4>3. phase' \in Phases
        BY <2>1, BusyPhases
      <4> QED
        BY <2>1, <2>2, <4>1, <4>2, <4>3
    <3>3. ret' \in Nat \cup {None} /\ user_stack' \in Nat \cup {None} /\ freed' \in 0..MaxFrees
      BY <2>2 DEF IInv, TypeOK
    <3> QED
      BY <2>1, <3>1, <3>2, <3>3 DEF TypeOK, Table
  <2>4. BootState' /\ NextBlockInTime'
    BY <2>1 DEF BootState, NextBlockInTime, Busy
  <2>5. Bits' /\ CountersSound'
    BY <2>1, <2>2, GrownBits, GrownCounters
  <2>6. Lists' /\ Tables' /\ Marks' /\ FrameUse'
    BY <1>1, <2>1, HereShape, BlockShape, HereFrames, BlockFrames DEF Answered
  <2> QED
    BY <2>2, <2>3, <2>4, <2>5, <2>6 DEF IInv
<1>2. CASE AllocBlockLost
  <2>1. TypeOK'
    <3>1. phase' \in Phases
      BY <1>2 DEF AllocBlockLost, Phases
    <3> QED
      BY <1>2, <3>1 DEF IInv, TypeOK, AllocBlockLost
  <2> QED
    BY <1>2, <2>1 DEF AllocBlockLost, IInv, BootState, Working, Lists, Tables, Marks, Bits,
                      FrameUse, CountersSound, NextBlockInTime
<1>3. CASE AllocPanic /\ freed # 0
  <2>1. TypeOK'
    <3>1. phase' \in Phases
      BY <1>3 DEF AllocPanic, Phases
    <3> QED
      BY <1>3, <3>1 DEF IInv, TypeOK, AllocPanic
  <2>2. freed' > 0
    <3>1. freed \in 0..MaxFrees
      BY DEF IInv, TypeOK
    <3>2. \A f \in 0..MaxFrees : f # 0 => f > 0
      BY VmmConstants
    <3> QED
      BY <1>3, <3>1, <3>2
  <2> QED
    BY <1>3, <2>1, <2>2 DEF AllocPanic, IInv, BootState, Working, Lists, Tables, Marks, Bits,
                            FrameUse, CountersSound, NextBlockInTime
<1> QED
  BY <1>1, <1>2, <1>3, AllocCases

-----------------------------------------------------------------------------
(* The other steps *)

\* Nothing but the types matters once behaviour is undefined.
LEMMA UndefinedIInv ==
  ASSUME TypeOK', phase' = "undefined" PROVE IInv'
BY DEF IInv, BootState, Working, Lists, Tables, Marks, Bits, FrameUse, CountersSound,
       NextBlockInTime

LEMMA TempUserTableIInv ==
  ASSUME IInv, TempUserTable PROVE IInv' /\ (asked' # asked => ret' \notin held)
<1>1. /\ Working /\ vmm_alloc_page("stack table") /\ user_stack' = user_stack /\ freed' = freed
      /\ user_table \in Nat \cup {None} /\ user_pages \in SUBSET Nat
  BY DEF TempUserTable, Working, IInv, TypeOK
<1>2. user_table' \in Nat \cup {None} /\ user_pages' \in SUBSET Nat
  <2>1. CASE phase' # "stack table"
    BY <1>1, <2>1 DEF TempUserTable
  <2>2. ASSUME NEW b, NEW i, Answered(b, i, "stack table")
        PROVE  user_table' \in Nat \cup {None} /\ user_pages' \in SUBSET Nat
    <3>1. /\ ret' \in Nat /\ entries'[1] \in Table /\ phase' = "stack table"
      BY <1>1, <2>2, AnsweredPage DEF Answered, Answer
    <3>2. user_table' = entries'[1][IndexOf(ret')] /\ user_pages' = user_pages \cup {ret'}
      BY <3>1 DEF TempUserTable, vmm_get_phys_addr
    <3>3. IndexOf(ret') \in Indices
      BY <3>1, PartsOfPage
    <3> QED
      BY <1>1, <3>1, <3>2, <3>3 DEF Table
  <2>3. (AllocBlockLost \/ AllocPanic) => phase' # "stack table"
    BY DEF AllocBlockLost, AllocPanic
  <2> QED
    BY <1>1, <2>1, <2>2, <2>3, AllocCases
<1> QED
  BY <1>1, <1>2, AllocIInv DEF Busy

LEMMA TempStackTableIInv ==
  ASSUME IInv, TempStackTable PROVE IInv' /\ (asked' # asked => ret' \notin held)
<1>1. /\ Working /\ vmm_alloc_page("stack") /\ user_stack' = user_stack /\ freed' = freed
      /\ user_table' \in Nat \cup {None} /\ user_pages \in SUBSET Nat
  BY DEF TempStackTable, Working, IInv, TypeOK
<1>2. user_pages' \in SUBSET Nat
  <2>1. CASE phase' # "stack"
    BY <1>1, <2>1 DEF TempStackTable
  <2>2. ASSUME NEW b, NEW i, Answered(b, i, "stack")
        PROVE  user_pages' \in SUBSET Nat
    <3>1. ret' \in Nat /\ phase' = "stack"
      BY <1>1, <2>2, AnsweredPage DEF Answered, Answer
    <3> QED
      BY <1>1, <3>1 DEF TempStackTable
  <2>3. (AllocBlockLost \/ AllocPanic) => phase' # "stack"
    BY DEF AllocBlockLost, AllocPanic
  <2> QED
    BY <1>1, <2>1, <2>2, <2>3, AllocCases
<1> QED
  BY <1>1, <1>2, AllocIInv DEF Busy

LEMMA TempStackIInv ==
  ASSUME IInv, TempStack PROVE IInv'
<1>1. /\ Working /\ phase' = "ready" /\ granted \in Nat /\ granted' = granted + 1
      /\ granted >= 2 /\ user_stack' = NextFrame(1)
      /\ blocks' = blocks /\ entries' = entries /\ directory' = directory /\ held' = held
      /\ freed' = freed
  BY DEF TempStack, Working, IInv, TypeOK, Lists
<1>2. NextFrame(1) \in Nat /\ NextFrame(1) \in {0, FirstFrame + granted}
  BY <1>1, VmmConstants DEF NextFrame
<1>3. TypeOK'
  BY <1>1, <1>2 DEF TempStack, IInv, TypeOK, Phases
<1>4. FrameUse'
  <2>1. /\ \A x \in Granted : x \in Granted'
        /\ \A x \in NewFrames : x \in Granted' /\ x \notin Granted /\ x # 0 /\ x # None
    BY <1>1, NewFramesApart
  <2>2. FirstFrame + granted \in NewFrames
    BY <1>1, VmmConstants DEF NewFrames
  <2>3. \A c \in 1..Len(blocks), j \in Indices : FromPool(c, j)' <=> FromPool(c, j)
    BY <1>1 DEF FromPool
  <2>4. \A c \in 1..Len(blocks), j \in Indices : FromPool(c, j) => entries[c][j] # 0
    BY DEF FromPool
  <2>5. /\ \A c \in 1..Len(blocks), j \in Indices : FromPool(c, j) =>
             /\ entries[c][j] \in Granted
             /\ \A d \in 1..Len(blocks), k \in Indices :
                  FromPool(d, k) /\ entries[d][k] = entries[c][j] => c = d /\ j = k
    BY <1>1 DEF IInv, FrameUse
  <2>6. \A c \in 1..Len(blocks), j \in Indices : FromPool(c, j) =>
          entries[c][j] \in Granted' /\ entries[c][j] # user_stack'
    BY <1>1, <1>2, <2>1, <2>2, <2>4, <2>5
  <2>7. user_stack' \in {None, 0} \cup Granted'
    BY <1>1, <1>2, <2>1, <2>2
  <2> QED
    BY <1>1, <2>3, <2>5, <2>6, <2>7 DEF FrameUse
<1>5. Lists' /\ BootState' /\ NextBlockInTime'
  <2>1. granted' \in Nat /\ granted' >= 2
    BY <1>1
  <2> QED
    BY <1>1, <2>1 DEF IInv, Lists, BootState, NextBlockInTime
<1>6. Tables' /\ Marks'
  BY <1>1 DEF IInv, Tables, Marks
<1>7. Bits' /\ CountersSound'
  BY <1>1 DEF IInv, Bits, Translate, CountersSound, ClearBits
<1> QED
  BY <1>3, <1>4, <1>5, <1>6, <1>7 DEF IInv

LEMMA FreePageIInv ==
  ASSUME IInv, NEW page \in held, freed < MaxFrees, vmm_free_page(page)
  PROVE  IInv'
<1>1. /\ Working /\ granted' = granted /\ entries' = entries /\ directory' = directory
      /\ user_stack' = user_stack /\ held' = held \ {page} /\ freed' = freed + 1
      /\ page \in Nat /\ freed \in Nat /\ freed' \in 0..MaxFrees
  <2>1. held \in SUBSET Nat /\ freed \in 0..MaxFrees
    BY DEF IInv, TypeOK
  <2>2. \A f \in 0..MaxFrees : f < MaxFrees => f \in Nat /\ f + 1 \in 0..MaxFrees
    BY VmmConstants
  <2> QED
    BY <2>1, <2>2 DEF vmm_free_page, Working, userVars
<1>2. CASE page \notin Indices
  <2>1. phase' = "undefined" /\ blocks' = blocks
    BY <1>2 DEF vmm_free_page
  <2>2. TypeOK'
    BY <1>1, <2>1 DEF vmm_free_page, userVars, IInv, TypeOK, Phases
  <2> QED
    BY <2>1, <2>2, UndefinedIInv
<1>3. CASE page \in Indices
  <2> DEFINE n == Len(blocks)
  <2>1. /\ blocks \in Seq(Desc) /\ n \in Nat /\ 1 \in 1..n /\ blocks[1] \in Desc
        /\ DOMAIN blocks = 1..n
    BY <1>1 DEF IInv, TypeOK, Lists
  <2>2. blocks' = [blocks EXCEPT ![1].bitmap = @ \ {page}] /\ phase' = "ready"
    BY <1>3 DEF vmm_free_page
  <2>3. /\ blocks' \in Seq(Desc) /\ Len(blocks') = n /\ DOMAIN blocks' = 1..n
        /\ blocks'[1] = [blocks[1] EXCEPT !.bitmap = @ \ {page}]
        /\ \A c \in 1..n : c # 1 => blocks'[c] = blocks[c]
    <3>1. [blocks[1] EXCEPT !.bitmap = @ \ {page}] \in Desc
      BY <2>1 DEF Desc
    <3>2. blocks' = [blocks EXCEPT ![1] = [blocks[1] EXCEPT !.bitmap = @ \ {page}]]
      BY <2>2
    <3> HIDE DEF n
    <3> QED
      BY <2>1, <3>1, <3>2 DEF n
  <2>4. /\ blocks'[1].bitmap = blocks[1].bitmap \ {page}
        /\ blocks'[1].free_pages = blocks[1].free_pages
        /\ blocks'[1].high_water_mark = blocks[1].high_water_mark
        /\ blocks'[1].page_table = blocks[1].page_table
    BY <2>1, <2>3 DEF Desc
  <2>5. \A c \in 1..n : /\ blocks'[c].bitmap \subseteq blocks[c].bitmap
                        /\ blocks'[c].free_pages = blocks[c].free_pages
                        /\ blocks'[c].high_water_mark = blocks[c].high_water_mark
                        /\ blocks'[c].page_table = blocks[c].page_table
    BY <2>3, <2>4
  <2>6. TypeOK'
    BY <1>1, <2>2, <2>3 DEF vmm_free_page, userVars, IInv, TypeOK, Phases
  <2>7. Lists' /\ BootState' /\ NextBlockInTime'
    BY <1>1, <2>2, <2>3 DEF IInv, Lists, BootState, NextBlockInTime
  <2>8. Tables'
    <3>1. \A c \in 2..n : c \in 1..n
      OBVIOUS
    <3> QED
      BY <1>1, <2>1, <2>3, <2>5, <3>1 DEF IInv, Tables
  <2>9. Marks'
    BY <1>1, <2>3, <2>5 DEF IInv, Marks
  <2>10. FrameUse'
    BY <1>1, <2>3 DEF IInv, FrameUse, FromPool, Granted
  <2>11. Bits'
    <3>1. \A p \in held' : /\ BlockOf(p) \in 1..Len(blocks') /\ p >= BootPages
                           /\ Translate(p)' # None
      BY <1>1, <2>3 DEF IInv, Bits, Translate
    <3>2. ASSUME NEW c \in 1..n, NEW j \in Indices
          PROVE  j \in blocks'[c].bitmap <=> PageAt(c, j) \in held' \/ (c = 1 /\ j < BootPages)
      <4>1. /\ j \in blocks[c].bitmap <=> PageAt(c, j) \in held \/ (c = 1 /\ j < BootPages)
            /\ page >= BootPages
        BY <1>1 DEF IInv, Bits
      <4>2. CASE c = 1
        <5>1. PageAt(c, j) = j
          BY <4>2, FirstBlock
        <5>2. j = page => ~(j < BootPages)
          BY <1>1, <4>1, Sizes
        <5> QED
          BY <1>1, <2>4, <4>1, <4>2, <5>1, <5>2
      <4>3. CASE c # 1
        <5>1. PageAt(c, j) # page
          BY <1>3, <2>1, <4>3, FirstBlock, PageParts
        <5> QED
          BY <1>1, <2>3, <4>1, <4>3, <5>1
      <4> QED
        BY <4>2, <4>3
    <3> QED
      BY <2>3, <3>1, <3>2 DEF Bits
  <2>12. CountersSound'
    <3>1. ASSUME NEW c \in 1..n
          PROVE  blocks'[c].free_pages <= Cardinality(ClearBits(c)')
      <4>1. blocks[c].free_pages <= Cardinality(ClearBits(c)) /\ blocks[c].free_pages \in Nat
        <5>1. blocks[c] \in Desc
          BY <2>1
        <5>2. CountersSound
          BY DEF IInv
        <5> QED
          <6>1. blocks[c].free_pages <= Cardinality(ClearBits(c))
            BY <1>1, <2>1, <5>2 DEF CountersSound
          <6>2. blocks[c].free_pages \in Nat
            BY <5>1 DEF Desc
          <6> QED
            BY <6>1, <6>2
      <4>2. ClearBits(c) \subseteq ClearBits(c)'
        BY <2>5 DEF ClearBits
      <4>3. IsFiniteSet(Indices)
        BY FS_Interval, Sizes DEF Indices
      <4>4. IsFiniteSet(ClearBits(c)')
        BY <4>3, FS_Subset DEF ClearBits
      <4>5. /\ Cardinality(ClearBits(c)) <= Cardinality(ClearBits(c)')
            /\ Cardinality(ClearBits(c)) \in Nat /\ Cardinality(ClearBits(c)') \in Nat
        BY <4>2, <4>4, FS_Subset, FS_CardinalityType
      <4> QED
        BY <2>5, <4>1, <4>5
    <3>2. freed' # 0
      BY <1>1
    <3> QED
      BY <2>3, <3>1, <3>2 DEF CountersSound
  <2> QED
    BY <2>6, <2>7, <2>8, <2>9, <2>10, <2>11, <2>12 DEF IInv
<1> QED
  BY <1>2, <1>3

\* What every step keeps, and that it never hands out a page in use.
LEMMA StepIInv ==
  ASSUME IInv, [Next]_vars PROVE IInv' /\ (asked' # asked => ret' \notin held)
<1>1. CASE paging_init
  BY <1>1, PagingInitIInv DEF paging_init
<1>2. CASE vmm_init
  BY <1>2, VmmInitIInv DEF vmm_init
<1>3. CASE TempUserTable
  BY <1>3, TempUserTableIInv
<1>4. CASE TempStackTable
  BY <1>4, TempStackTableIInv
<1>5. CASE TempStack
  BY <1>5, TempStackIInv DEF TempStack
<1>6. CASE phase = "ready" /\ vmm_alloc_page("ready") /\ UNCHANGED <<freed, userVars>>
  <2>1. Working /\ user_table' \in Nat \cup {None} /\ user_pages' \in SUBSET Nat
        /\ user_stack' = user_stack /\ freed' = freed
    BY <1>6 DEF Working, IInv, TypeOK, userVars
  <2> QED
    BY <1>6, <2>1, AllocIInv DEF Busy
<1>7. CASE CallerWritesTable
  <2>1. /\ phase' = "undefined" /\ phase' \in Phases
        /\ UNCHANGED <<granted, blocks, entries, directory, held, ret, asked, freed, userVars>>
    BY <1>7 DEF CallerWritesTable, Phases
  <2>2. TypeOK'
    BY <2>1 DEF IInv, TypeOK, userVars
  <2> QED
    BY <2>1, <2>2, UndefinedIInv
<1>8. CASE \E page \in held \ user_pages : freed < MaxFrees /\ vmm_free_page(page)
  BY <1>8, FreePageIInv DEF vmm_free_page
<1>9. CASE UNCHANGED vars
  <2>1. /\ TypeOK' /\ BootState' /\ Lists' /\ Tables' /\ Marks' /\ NextBlockInTime'
    BY <1>9 DEF IInv, TypeOK, BootState, Working, Lists, Tables, Marks, NextBlockInTime, vars
  <2>2. Bits'
    BY <1>9 DEF IInv, Working, Bits, Translate, vars
  <2>3. FrameUse'
    <3>1. /\ Granted' = Granted /\ user_stack' = user_stack /\ blocks' = blocks
          /\ entries' = entries /\ Working' = Working
          /\ \A c, j : FromPool(c, j)' <=> FromPool(c, j)
      BY <1>9 DEF Granted, Working, FromPool, vars
    <3> QED
      BY <3>1 DEF IInv, FrameUse
  <2>4. CountersSound'
    BY <1>9 DEF IInv, Working, CountersSound, ClearBits, vars
  <2> QED
    BY <1>9, <2>1, <2>2, <2>3, <2>4 DEF IInv, vars
<1> QED
  BY <1>1, <1>2, <1>3, <1>4, <1>5, <1>6, <1>7, <1>8, <1>9 DEF Next, paging_add_temp_userspace

-----------------------------------------------------------------------------
(* The theorems *)

\* The inductive invariant holds in every reachable state.
THEOREM Invariant == Spec => []IInv
<1>1. IInv /\ [Next]_vars => IInv'
  BY StepIInv
<1> QED
  BY <1>1, InitIInv, PTL DEF Spec

\* Descriptors, page tables and the user half's frames keep their types.
THEOREM TypeCorrect == Spec => []TypeOK
<1>1. IInv => TypeOK
  BY DEF IInv
<1> QED
  BY <1>1, Invariant, PTL

\* A bit of a block's bitmap is set exactly for the boot pages and for the pages
\* that vmm_alloc_page returned and vmm_free_page did not take back.
THEOREM Bitmap == Spec => []BitmapExact
<1>1. ASSUME IInv PROVE BitmapExact
  <2> SUFFICES ASSUME Working, NEW b \in DOMAIN blocks
               PROVE  blocks[b].bitmap = {IndexOf(p) : p \in {q \in held : BlockOf(q) = b}}
                                         \cup (IF b = 1 THEN 0..first_free_page - 1 ELSE {})
    BY DEF BitmapExact
  <2>1. b \in 1..Len(blocks) /\ b \in Nat \ {0} /\ blocks[b] \in Desc /\ held \in SUBSET Nat
    BY <1>1 DEF IInv, TypeOK
  <2>2. first_free_page = BootPages
    BY <1>1, VmmConstants DEF IInv, Lists, first_free_page, BootPages
  <2>3. \A i \in Indices :
          i \in blocks[b].bitmap <=> PageAt(b, i) \in held \/ (b = 1 /\ i < BootPages)
    BY <1>1, <2>1 DEF IInv, Bits
  <2>4. blocks[b].bitmap \subseteq Indices
    BY <2>1 DEF Desc
  <2>5. \A i \in Indices : i < BootPages <=> i \in 0..BootPages - 1
    BY Sizes DEF Indices
  <2>6. 0..BootPages - 1 \subseteq Indices
    BY Sizes DEF Indices
  <2>7. \A i \in Indices : PageAt(b, i) \in held <=> \E p \in held : BlockOf(p) = b /\ IndexOf(p) = i
    BY <2>1, PageParts, PartsOfPage
  <2>8. \A p \in held : IndexOf(p) \in Indices
    BY <2>1, PartsOfPage
  <2> QED
    BY <2>2, <2>3, <2>4, <2>5, <2>6, <2>7, <2>8
<1> QED
  BY <1>1, Invariant, PTL

\* Every page in use has a frame, and the page directory leads to the table that
\* the block's descriptor names, until a caller overwrites a table.
THEOREM Mapping == Spec => []PagesMapped
<1>1. ASSUME IInv PROVE PagesMapped
  <2> SUFFICES ASSUME Working, NEW b \in DOMAIN blocks
               PROVE  directory[b] = Translate(blocks[b].page_table)
    BY <1>1 DEF PagesMapped, IInv, Bits
  <2>1. b \in 1..Len(blocks)
    BY <1>1 DEF IInv, TypeOK
  <2>2. CASE b = 1
    <3>1. FirstFrame + 1 \in Indices \ {HIGH_WATER_THRESHOLD}
      BY VmmConstants DEF Indices
    <3>2. BlockOf(FirstFrame + 1) = 1 /\ IndexOf(FirstFrame + 1) = FirstFrame + 1
      BY <3>1, FirstBlock
    <3> QED
      BY <1>1, <2>2, <3>1, <3>2 DEF IInv, Tables, Lists, Translate
  <2>3. CASE b # 1
    <3>1. b \in 2..Len(blocks) /\ b - 1 \in Nat \ {0} /\ HIGH_WATER_THRESHOLD \in Indices
      BY <2>1, <2>3, Sizes
    <3>2. /\ blocks[b].page_table = PageAt(b - 1, HIGH_WATER_THRESHOLD)
          /\ directory[b] = entries[b - 1][HIGH_WATER_THRESHOLD]
      BY <1>1, <3>1 DEF IInv, Tables
    <3> QED
      BY <3>1, <3>2, PageParts DEF Translate
  <2> QED
    BY <2>2, <2>3
<1> QED
  BY <1>1, Invariant, PTL

\* A block's count of free pages is never above the number of its clear bits,
\* and exact until the first free.
THEOREM Counters == Spec => []CountersSound
<1>1. IInv => CountersSound
  BY DEF IInv
<1> QED
  BY <1>1, Invariant, PTL

\* vmm_alloc_page does not panic as long as nothing is freed: the block for the
\* next pages was added at the high water mark of the one before.
THEOREM NextBlock == Spec => []NextBlockInTime
<1>1. IInv => NextBlockInTime
  BY DEF IInv
<1> QED
  BY <1>1, Invariant, PTL

\* A frame of the pool is the frame of one page outside the one-to-one mapping,
\* or of the user stack, or of the first page table.
THEOREM Frames == Spec => []FramesUsedOnce
<1>1. ASSUME IInv PROVE FramesUsedOnce
  <2> DEFINE n == Len(blocks)
             fresh == { p \in 0..n * PAGE_TABLE_INDICES - 1 :
                          /\ Translate(p) \notin {None, 0}
                          /\ BlockOf(p) > 1 \/ \E b \in 2..n : blocks[b].page_table = p }
  <2> SUFFICES ASSUME Working
               PROVE  /\ \A p, q \in fresh : Translate(p) = Translate(q) => p = q
                      /\ \A p \in fresh : Translate(p) \notin {user_stack, directory[1]}
    BY DEF FramesUsedOnce
  <2>1. /\ n \in Nat /\ FrameUse /\ Tables /\ directory[1] = FirstFrame + 1
    BY <1>1 DEF IInv, TypeOK, Lists
  <2>2. ASSUME NEW p \in fresh
        PROVE  /\ p \in Nat /\ BlockOf(p) \in 1..n /\ IndexOf(p) \in Indices
               /\ FromPool(BlockOf(p), IndexOf(p))
    <3> DEFINE c == BlockOf(p)
               P == PAGE_TABLE_INDICES
    <3>1. n * P \in Nat /\ P \in Nat \ {0}
      BY <2>1, Sizes
    <3>2. p \in Nat /\ p < n * P
      BY <3>1
    <3>3. c \in Nat \ {0} /\ IndexOf(p) \in Indices /\ PageAt(c, IndexOf(p)) = p
      BY <3>2, PartsOfPage
    <3>4. c <= n
      <4> SUFFICES ASSUME c > n PROVE FALSE
        BY <2>1, <3>3
      <4> HIDE DEF c, n, P
      <4>1. (c - 1 - n) * P >= 0
        BY <2>1, <3>1, <3>3
      <4>2. (c - 1) * P = n * P + (c - 1 - n) * P
        BY <2>1, <3>1, <3>3
      <4>3. p = (c - 1) * P + IndexOf(p)
        BY <3>3 DEF PageAt, P
      <4>4. (c - 1) * P \in Int /\ (c - 1 - n) * P \in Int /\ IndexOf(p) \in Nat
        BY <2>1, <3>1, <3>3 DEF Indices
      <4> QED
        BY <3>1, <3>2, <4>1, <4>2, <4>3, <4>4
    <3>5. FromPool(c, IndexOf(p))
      <4>1. CASE c > 1
        BY <4>1 DEF FromPool, Translate
      <4>2. ASSUME NEW b \in 2..n, blocks[b].page_table = p
            PROVE  FromPool(c, IndexOf(p))
        <5>1. p = PageAt(b - 1, HIGH_WATER_THRESHOLD) /\ b - 1 \in Nat \ {0} /\ n > 1
          BY <2>1, <4>2 DEF Tables
        <5>2. IndexOf(p) = HIGH_WATER_THRESHOLD
          BY <5>1, PageParts, Sizes
        <5> QED
          BY <5>1, <5>2 DEF FromPool, Translate
      <4> QED
        BY <4>1, <4>2
    <3> QED
      BY <2>1, <3>2, <3>3, <3>4, <3>5
  <2> HIDE DEF fresh
  <2>3. ASSUME NEW p \in fresh, NEW q \in fresh, Translate(p) = Translate(q)
        PROVE  p = q
    <3>1. BlockOf(p) = BlockOf(q) /\ IndexOf(p) = IndexOf(q)
      BY <2>1, <2>2, <2>3 DEF FrameUse, Translate
    <3> QED
      BY <2>2, <3>1, PartsOfPage
  <2>4. ASSUME NEW p \in fresh
        PROVE  Translate(p) \notin {user_stack, directory[1]}
    <3>1. Translate(p) \in Granted /\ Translate(p) # user_stack
      BY <2>1, <2>2 DEF FrameUse, Translate
    <3>2. FirstFrame + 1 \notin Granted
      BY VmmConstants DEF Granted
    <3> QED
      BY <2>1, <3>1, <3>2
  <2> QED
    BY <2>3, <2>4
<1> QED
  BY <1>1, Invariant, PTL

\* No answer of vmm_alloc_page is a page that somebody holds.
THEOREM NoDoubleHandout == Spec => HandedOutOnce
<1>1. IInv /\ [Next]_vars => [asked' # asked => ret' \notin held]_vars
  BY StepIInv
<1> QED
  BY <1>1, Invariant, PTL DEF Spec, HandedOutOnce
=============================================================================

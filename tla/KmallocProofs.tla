---------------------------- MODULE KmallocProofs ----------------------------
(***************************************************************************)
(* Proofs about Kmalloc, for any page size, any number of pages and any    *)
(* requests: as long as the list is intact, the heap is partitioned, the   *)
(* list is in order and coalesced, and a retry succeeds.                   *)
(***************************************************************************)
EXTENDS Kmalloc, WellFoundedInduction, TLAPS

-----------------------------------------------------------------------------
(* The inductive invariant *)

Heap(n) == Extent(InitBlock, PAGE_SIZE) \cup Extent(FirstPage, PAGE_SIZE * n)

\* Where the blocks of callers begin.
Starts(H) == {h[1] - BLOCK_HEADER_SIZE : h \in H}

\* From hd the links nx run through F in address order, to its last block.
Chain(F, hd, nx) ==
  /\ hd \in F /\ \A b \in F : hd <= b
  /\ \A b \in F : nx[b] # NULL => nx[b] \in F /\ b < nx[b]
  /\ \A b, c \in F : b < c => nx[b] # NULL /\ nx[b] <= c

\* The blocks that begin at A, of sizes sz, tile the heap of n pages.
Tiling(A, sz, n) ==
  /\ A \subseteq Address
  /\ \A b \in A : sz[b] \in Nat /\ sz[b] >= 2
  /\ \A b \in A : Extent(b, sz[b]) \subseteq Heap(n)
  /\ \A b, c \in A : b < c => b + sz[b] <= c
  /\ \A a \in Heap(n) : \E b \in A : a \in Extent(b, sz[b])

\* The header of a caller's block has its size, and it is not in F.
Given(F, H, sz) ==
  /\ \A h \in H : h \in Nat \X Nat /\ sz[h[1] - BLOCK_HEADER_SIZE] = h[2] + BLOCK_HEADER_SIZE
  /\ F \cap Starts(H) = {}

Coalesced(F, nx, sz) ==
  \A b \in F : nx[b] # NULL /\ b + sz[b] = nx[b] => \E k \in 0..MaxPages : nx[b] = Page(k)

Types ==
  /\ size \in [Address -> Nat] /\ next_block \in [Address -> Address \cup {NULL}]
  /\ block_list_tail \in Address /\ pages \in 0..MaxPages

HeapInv ==
  /\ Types
  /\ Chain(FreeList, block_list_head, next_block)
  /\ Tiling(FreeList \cup Starts(held), size, pages)
  /\ Given(FreeList, held, size)
  /\ Coalesced(FreeList, next_block, size)
  /\ RetrySucceeds

IInv == intact \in BOOLEAN /\ (intact => HeapInv)

-----------------------------------------------------------------------------
(* Numbers *)

\* A set of numbers that is not empty has a least element.
LEMMA Least ==
  ASSUME NEW S \in SUBSET Nat, S # {}
  PROVE  \E n \in S : \A m \in S : n <= m
<1> DEFINE R == OpToRel(<, Nat)
<1>1. IsWellFoundedOn(R, Nat)
  BY NatLessThanWellFounded
<1>2. PICK n \in S : \A m \in S : ~(<<m, n>> \in R)
  <2> HIDE DEF R
  <2> QED
    BY <1>1, WFMin, Zenon
<1>3. \A m \in S : ~(m < n)
  BY <1>2 DEF OpToRel
<1> QED
  BY <1>3

\* A bounded one has a greatest element.
LEMMA Greatest ==
  ASSUME NEW S \in SUBSET Nat, S # {}, NEW B \in Nat, \A n \in S : n <= B
  PROVE  \E n \in S : \A m \in S : m <= n
<1> DEFINE T == {v \in 0..B : B - v \in S}
<1>0. \A n \in S : B - n \in T
  OBVIOUS
<1>1. T \in SUBSET Nat /\ T # {}
  <2>1. PICK s \in S : TRUE
    OBVIOUS
  <2>2. B - s \in T
    BY <1>0
  <2>3. T \in SUBSET Nat
    OBVIOUS
  <2> QED
    BY <2>2, <2>3
<1>2. PICK t \in T : \A u \in T : t <= u
  <2> HIDE DEF T
  <2> QED
    BY <1>1, Least
<1>3. PICK n \in S : t = B - n
  <2>1. B - t \in S /\ t = B - (B - t)
    BY <1>2
  <2> QED
    BY <2>1
<1>4. ASSUME NEW m \in S PROVE m <= n
  <2>1. B - m \in T
    BY <1>0
  <2>2. B - n <= B - m
    BY <1>2, <1>3, <2>1
  <2> QED
    BY <2>2
<1> QED
  BY <1>4

\* The memory of the heap, page by page.
LEMMA Pages ==
  /\ Address \subseteq Nat \ {0}
  /\ \A n \in 0..MaxPages : Heap(n) \subseteq Address
  /\ \A n \in 0..MaxPages - 1 :
       /\ n + 1 \in 0..MaxPages
       /\ Page(n) \in Address /\ Page(n) \in Nat
       /\ Heap(n + 1) = Heap(n) \cup Extent(Page(n), PAGE_SIZE)
       /\ \A a \in Heap(n) : a < Page(n)
<1>0. /\ PAGE_SIZE \in Nat \ {0} /\ MaxPages \in Nat /\ InitBlock \in Nat \ {0}
      /\ FirstPage \in Nat \ {0} /\ InitBlock + PAGE_SIZE <= FirstPage
  BY KmallocConstants
<1>1. /\ \A n \in Nat : PAGE_SIZE * n \in Nat /\ PAGE_SIZE * (n + 1) = PAGE_SIZE * n + PAGE_SIZE
      /\ \A n \in 0..MaxPages : PAGE_SIZE * n <= PAGE_SIZE * MaxPages
  BY <1>0
<1>2. Address \subseteq Nat \ {0}
  <2> DEFINE all == PAGE_SIZE * MaxPages
  <2>1. all \in Nat
    BY <1>0, <1>1
  <2> HIDE DEF all
  <2>2. Extent(InitBlock, PAGE_SIZE) \cup Extent(FirstPage, all) \subseteq Nat \ {0}
    BY <1>0, <2>1 DEF Extent
  <2> QED
    BY <2>2 DEF Address, all
<1>3. ASSUME NEW n \in 0..MaxPages PROVE Heap(n) \subseteq Address
  <2> DEFINE some == PAGE_SIZE * n
             all == PAGE_SIZE * MaxPages
  <2>1. some \in Nat /\ all \in Nat /\ some <= all
    BY <1>0, <1>1
  <2> HIDE DEF some, all
  <2>2. Extent(FirstPage, some) \subseteq Extent(FirstPage, all)
    BY <1>0, <2>1 DEF Extent
  <2> QED
    BY <2>2 DEF Heap, Address, some, all
<1>4. ASSUME NEW n \in 0..MaxPages - 1
      PROVE  /\ n + 1 \in 0..MaxPages
             /\ Page(n) \in Address /\ Page(n) \in Nat
             /\ Heap(n + 1) = Heap(n) \cup Extent(Page(n), PAGE_SIZE)
             /\ \A a \in Heap(n) : a < Page(n)
  <2> DEFINE some == PAGE_SIZE * n
             more == PAGE_SIZE * (n + 1)
             all == PAGE_SIZE * MaxPages
             new == Page(n)
  <2>0. n \in Nat /\ n + 1 \in 0..MaxPages /\ n \in 0..MaxPages
    BY <1>0
  <2>1. some \in Nat /\ all \in Nat /\ more = some + PAGE_SIZE /\ more <= all
    BY <1>0, <1>1, <2>0
  <2>2. new = FirstPage + some
    BY DEF Page
  <2> HIDE DEF some, all, more, new
  <2>3. new \in Extent(FirstPage, all)
    BY <1>0, <2>1, <2>2 DEF Extent
  <2>4. Extent(FirstPage, more) = Extent(FirstPage, some) \cup Extent(new, PAGE_SIZE)
    BY <1>0, <2>1, <2>2 DEF Extent
  <2>5. \A a \in Extent(InitBlock, PAGE_SIZE) \cup Extent(FirstPage, some) : a < new
    BY <1>0, <2>1, <2>2 DEF Extent
  <2> QED
    BY <2>0, <2>1, <2>2, <2>3, <2>4, <2>5, <1>0 DEF Heap, Address, some, more, all, new
<1> QED
  BY <1>2, <1>3, <1>4

\* A request of one byte or more is at least one granule.
LEMMA Rounded ==
  ASSUME NEW bytes \in Requests, bytes # 0
  PROVE  alloc_size(bytes) \in Nat \ {0}
<1> DEFINE v == bytes + GRANULE - 1
<1>1. /\ GRANULE \in Nat \ {0} /\ SizeMod \in Nat
      /\ v \in Nat /\ v >= GRANULE /\ v < SizeMod
  BY KmallocConstants, RequestsSmall
<1>2. v % SizeMod = v /\ v \div GRANULE \in Nat /\ v \div GRANULE >= 1
  <2> HIDE DEF v
  <2> QED
    BY <1>1
<1> QED
  BY <1>2 DEF alloc_size

-----------------------------------------------------------------------------
(* The list *)

Span == 0..(PAGE_SIZE * (MaxPages + 1)) \div 2

\* Block, as a function of the head and of the links.
Following(hd, nx, f, n) ==
  f = [i \in 0..n |-> IF i = 0 THEN hd
                      ELSE LET b == f[i - 1] IN IF b = NULL THEN NULL ELSE nx[b]]
Walk(hd, nx) == CHOOSE f : Following(hd, nx, f, (PAGE_SIZE * (MaxPages + 1)) \div 2)
Listing(hd, nx) == {Walk(hd, nx)[i] : i \in Span} \ {NULL}

LEMMA LastIndex == (PAGE_SIZE * (MaxPages + 1)) \div 2 \in Nat
<1> DEFINE N == PAGE_SIZE * (MaxPages + 1)
<1>1. N \in Nat
  BY KmallocConstants
<1> HIDE DEF N
<1>2. N \div 2 \in Nat
  BY <1>1
<1> QED
  BY <1>2 DEF N

\* The recursion has a solution up to every index: there is no least index
\* without one.
LEMMA FollowingExists ==
  ASSUME NEW hd, NEW nx
  PROVE  \A n \in Nat : \E f : Following(hd, nx, f, n)
<1> DEFINE S == {n \in Nat : ~\E f : Following(hd, nx, f, n)}
<1> SUFFICES ASSUME S # {} PROVE FALSE
  OBVIOUS
<1>1. PICK n \in S : \A m \in S : n <= m
  <2>1. S \in SUBSET Nat
    OBVIOUS
  <2> HIDE DEF S
  <2> QED
    BY <2>1, Least
<1>2. n # 0
  <2>1. Following(hd, nx, [i \in 0..0 |-> hd], 0)
    BY DEF Following
  <2> QED
    BY <2>1, <1>1
<1>3. n - 1 \in Nat /\ n - 1 \notin S
  BY <1>1, <1>2
<1>4. PICK f : Following(hd, nx, f, n - 1)
  BY <1>3
<1> DEFINE g == [i \in 0..n |-> IF i < n THEN f[i]
                                ELSE IF f[n - 1] = NULL THEN NULL ELSE nx[f[n - 1]]]
<1>5. \A i \in 0..n - 1 : f[i] = IF i = 0 THEN hd
                                 ELSE IF f[i - 1] = NULL THEN NULL ELSE nx[f[i - 1]]
  BY <1>4 DEF Following
<1>6. ASSUME NEW i \in 0..n
      PROVE  g[i] = IF i = 0 THEN hd ELSE IF g[i - 1] = NULL THEN NULL ELSE nx[g[i - 1]]
  <2>0. n \in Nat
    BY <1>1
  <2>1. CASE i = n
    <3>1. g[i - 1] = f[n - 1] /\ g[i] = IF f[n - 1] = NULL THEN NULL ELSE nx[f[n - 1]]
      BY <2>0, <2>1, <1>2
    <3> QED
      BY <3>1, <2>1, <1>2
  <2>2. CASE i # n
    <3>1. i \in 0..n - 1 /\ i < n /\ (i # 0 => i - 1 \in 0..n /\ i - 1 < n)
      BY <2>0, <2>2
    <3>2. g[i] = f[i] /\ (i # 0 => g[i - 1] = f[i - 1])
      BY <3>1
    <3> HIDE DEF g
    <3> QED
      BY <3>1, <3>2, <1>5
  <2> QED
    BY <2>1, <2>2
<1>7. Following(hd, nx, g, n)
  <2>1. g = [i \in 0..n |-> g[i]]
    OBVIOUS
  <2> HIDE DEF g
  <2> QED
    BY <2>1, <1>6 DEF Following
<1> QED
  BY <1>7, <1>1

LEMMA WalkUnfolds ==
  ASSUME NEW hd, NEW nx
  PROVE  /\ Walk(hd, nx)[0] = hd
         /\ \A i \in Span : i + 1 \in Span =>
              Walk(hd, nx)[i + 1] = IF Walk(hd, nx)[i] = NULL THEN NULL
                                    ELSE nx[Walk(hd, nx)[i]]
<1> DEFINE M == (PAGE_SIZE * (MaxPages + 1)) \div 2
           w == Walk(hd, nx)
<1>1. M \in Nat /\ Span = 0..M
  BY LastIndex DEF Span
<1>2. Following(hd, nx, w, M)
  <2>1. \E f : Following(hd, nx, f, M)
    BY <1>1, FollowingExists
  <2> QED
    BY <2>1 DEF Walk
<1> HIDE DEF M, w
<1>3. \A i \in 0..M : w[i] = IF i = 0 THEN hd
                             ELSE IF w[i - 1] = NULL THEN NULL ELSE nx[w[i - 1]]
  BY <1>2 DEF Following
<1>4. w[0] = hd
  BY <1>1, <1>3
<1>5. ASSUME NEW i \in Span, i + 1 \in Span
      PROVE  w[i + 1] = IF w[i] = NULL THEN NULL ELSE nx[w[i]]
  <2>1. i + 1 \in 0..M /\ i + 1 # 0 /\ (i + 1) - 1 = i
    BY <1>1, <1>5
  <2> QED
    BY <2>1, <1>3
<1> QED
  BY <1>4, <1>5 DEF w

LEMMA FreeListIsListing ==
  /\ FreeList = Listing(block_list_head, next_block)
  /\ DOMAIN Block \subseteq Span
  /\ \A i \in Span : i \in DOMAIN Block /\ Block[i] = Walk(block_list_head, next_block)[i]
<1>1. Block = Walk(block_list_head, next_block)
  BY DEF Block, Walk, Following
<1>2. DOMAIN Block = Span
  <2>1. Following(block_list_head, next_block, Block, (PAGE_SIZE * (MaxPages + 1)) \div 2)
    BY <1>1, LastIndex, FollowingExists DEF Walk
  <2> QED
    BY <2>1 DEF Following, Span
<1> QED
  BY <1>1, <1>2 DEF FreeList, Listing

\* The granules of the heap before address a: at most one block in two.
Offset(a) == IF a < InitBlock + PAGE_SIZE THEN a - InitBlock ELSE PAGE_SIZE + a - FirstPage

Spaced(F) ==
  /\ F \subseteq Address
  /\ \A b \in F : Offset(b) \in Nat /\ Offset(b) < PAGE_SIZE * (MaxPages + 1)
  /\ \A b, c \in F : b < c => Offset(b) + 2 <= Offset(c)

LEMMA TilingSpaced ==
  ASSUME NEW A, NEW sz, NEW n \in 0..MaxPages, Tiling(A, sz, n), NEW F \in SUBSET A
  PROVE  Spaced(F)
<1> DEFINE all == PAGE_SIZE * MaxPages
           some == PAGE_SIZE * n
<1>0. /\ PAGE_SIZE \in Nat \ {0} /\ MaxPages \in Nat /\ InitBlock \in Nat \ {0}
      /\ FirstPage \in Nat \ {0} /\ InitBlock + PAGE_SIZE <= FirstPage
  BY KmallocConstants
<1>1. all \in Nat /\ some \in Nat /\ PAGE_SIZE * (MaxPages + 1) = all + PAGE_SIZE
  BY <1>0
<1>2. /\ Address = Extent(InitBlock, PAGE_SIZE) \cup Extent(FirstPage, all)
      /\ Heap(n) = Extent(InitBlock, PAGE_SIZE) \cup Extent(FirstPage, some)
  BY DEF Address, Heap
<1> HIDE DEF all, some
<1>3. ASSUME NEW b \in Address PROVE Offset(b) \in Nat /\ Offset(b) < all + PAGE_SIZE
  BY <1>0, <1>1, <1>2 DEF Extent, Offset
<1>4. ASSUME NEW b \in A, NEW c \in A, b < c PROVE Offset(b) + 2 <= Offset(c)
  <2>1. b \in Address /\ c \in Address /\ sz[b] \in Nat /\ sz[b] >= 2 /\ b + sz[b] <= c
    BY <1>4 DEF Tiling
  <2>2. b \in Nat /\ c \in Nat
    BY <2>1, Pages
  <2>3. b + 1 \in Heap(n)
    <3>1. b + 1 \in Extent(b, sz[b])
      BY <2>1, <2>2 DEF Extent
    <3> QED
      BY <3>1 DEF Tiling
  <2> QED
    BY <2>1, <2>2, <2>3, <1>0, <1>1, <1>2 DEF Extent, Offset
<1> QED
  BY <1>1, <1>3, <1>4 DEF Spaced, Tiling

\* Walking from the head visits the blocks of a chain and no others.
LEMMA Listed ==
  ASSUME NEW F, NEW hd, NEW nx, Chain(F, hd, nx), Spaced(F)
  PROVE  Listing(hd, nx) = F
<1> DEFINE M == (PAGE_SIZE * (MaxPages + 1)) \div 2
           N == PAGE_SIZE * (MaxPages + 1)
           w == Walk(hd, nx)
<1>1. N \in Nat /\ M \in Nat /\ Span = 0..M /\ M = N \div 2
  BY LastIndex, KmallocConstants DEF Span
<1>2. /\ w[0] = hd
      /\ \A i \in Span : i + 1 \in Span => w[i + 1] = IF w[i] = NULL THEN NULL ELSE nx[w[i]]
  BY WalkUnfolds
<1>3. F \subseteq Nat \ {0}
  BY Pages DEF Spaced
<1>4. \A b \in F : Offset(b) \in Nat /\ Offset(b) < N
  BY DEF Spaced
<1> HIDE DEF M, N, w
\* Block i of the list is past 2 i granules.
<1>5. \A i \in Span : w[i] # NULL => w[i] \in F /\ 2 * i <= Offset(w[i])
  <2> DEFINE S == {i \in Span : ~(w[i] # NULL => w[i] \in F /\ 2 * i <= Offset(w[i]))}
  <2> SUFFICES ASSUME S # {} PROVE FALSE
    OBVIOUS
  <2>1. PICK i \in S : \A j \in S : i <= j
    <3>1. S \in SUBSET Nat
      BY <1>1
    <3> HIDE DEF S
    <3> QED
      BY <3>1, Least
  <2>2. i # 0
    <3>1. hd \in F
      BY DEF Chain
    <3> QED
      BY <3>1, <2>1, <1>2, <1>4
  <2>3. i - 1 \in Span /\ i - 1 \notin S /\ (i - 1) + 1 = i /\ i \in Nat
    BY <2>1, <2>2, <1>1
  <2>4. w[i] # NULL /\ ~(w[i] \in F /\ 2 * i <= Offset(w[i]))
    BY <2>1
  <2>5. w[i] = IF w[i - 1] = NULL THEN NULL ELSE nx[w[i - 1]]
    BY <1>2, <2>1, <2>3
  <2>6. /\ w[i - 1] # NULL /\ w[i] = nx[w[i - 1]]
        /\ w[i - 1] \in F /\ 2 * (i - 1) <= Offset(w[i - 1])
    BY <2>3, <2>4, <2>5
  <2>7. w[i] \in F /\ w[i - 1] < w[i]
    BY <2>4, <2>6 DEF Chain
  <2>8. Offset(w[i - 1]) + 2 <= Offset(w[i])
    BY <2>6, <2>7 DEF Spaced
  <2>9. Offset(w[i - 1]) \in Nat /\ Offset(w[i]) \in Nat
    BY <1>4, <2>6, <2>7
  <2>10. 2 * i <= Offset(w[i])
    BY <2>3, <2>6, <2>8, <2>9
  <2> QED
    BY <2>4, <2>7, <2>10
\* Every block is reached: the least that is not would follow one that is.
<1>6. \A c \in F : \E i \in Span : w[i] = c
  <2> DEFINE S == {c \in F : ~\E i \in Span : w[i] = c}
  <2> SUFFICES ASSUME S # {} PROVE FALSE
    OBVIOUS
  <2>1. PICK c \in S : \A d \in S : c <= d
    <3>1. S \in SUBSET Nat
      BY <1>3
    <3> HIDE DEF S
    <3> QED
      BY <3>1, Least
  <2>2. c \in F /\ c # hd /\ hd \in F /\ hd < c
    <3>1. 0 \in Span
      BY <1>1
    <3>2. c \in F /\ c # hd
      BY <1>2, <2>1, <3>1
    <3>3. hd \in F /\ hd <= c
      BY <3>2 DEF Chain
    <3> QED
      BY <3>2, <3>3, <1>3
  <2>3. PICK b \in F : b < c /\ \A d \in F : d < c => d <= b
    <3> DEFINE T == {d \in F : d < c}
    <3>0. hd \in T
      BY <2>2
    <3>1. T \in SUBSET Nat /\ c \in Nat /\ \A d \in T : d <= c
      <4>1. c \in Nat
        BY <1>3, <2>2
      <4>2. \A d \in T : d \in Nat /\ d <= c
        BY <1>3, <4>1
      <4> QED
        BY <4>1, <4>2
    <3>2. \E b \in T : \A d \in T : d <= b
      <4> HIDE DEF T
      <4> QED
        BY <3>0, <3>1, Greatest
    <3> QED
      BY <3>2
  <2>4. nx[b] = c
    <3>1. nx[b] # NULL /\ nx[b] <= c /\ nx[b] \in F /\ b < nx[b]
      BY <2>2, <2>3 DEF Chain
    <3>2. b \in Nat /\ c \in Nat /\ nx[b] \in Nat
      BY <3>1, <2>2, <2>3, <1>3
    <3>3. ~(nx[b] < c)
      BY <3>1, <3>2, <2>3
    <3> QED
      BY <3>1, <3>2, <3>3
  <2>5. PICK i \in Span : w[i] = b
    <3>1. ~(c <= b)
      BY <2>2, <2>3, <1>3
    <3>2. b \notin S
      BY <2>1, <3>1
    <3> QED
      BY <3>2
  <2>6. b # NULL
    BY <1>3 DEF NULL
  <2>7. 2 * i <= Offset(b) /\ Offset(b) + 2 <= Offset(c) /\ Offset(c) < N
    BY <1>4, <1>5, <2>2, <2>3, <2>5, <2>6 DEF Spaced
  <2>8. i + 1 \in Span
    <3>1. Offset(b) \in Nat /\ Offset(c) \in Nat /\ i \in Nat
      BY <1>1, <1>4, <2>2
    <3>2. 2 * (i + 1) <= N
      BY <3>1, <2>7, <1>1
    <3> QED
      BY <3>1, <3>2, <1>1
  <2>9. w[i + 1] = c
    BY <1>2, <2>4, <2>5, <2>6, <2>8
  <2> QED
    BY <2>1, <2>8, <2>9
<1>7. NULL \notin F
  BY <1>3 DEF NULL
<1> QED
  BY <1>5, <1>6, <1>7 DEF Listing, w

\* A block linked between its neighbours.
LEMMA ChainInsert ==
  ASSUME NEW F \in SUBSET (Nat \ {0}), NEW hd, NEW nx, Chain(F, hd, nx),
         NEW new \in Nat \ {0}, new \notin F, NEW prev, NEW next, NEW hd2, NEW nx2,
         \/ prev = NULL /\ new < hd /\ next = hd /\ hd2 = new
         \/ /\ prev \in F /\ prev < new /\ next = nx[prev] /\ hd2 = hd
            /\ next = NULL \/ next > new,
         nx2[new] = next, prev \in F => nx2[prev] = new,
         \A b \in F \ {prev} : nx2[b] = nx[b]
  PROVE  Chain(F \cup {new}, hd2, nx2)
<1>1. /\ hd \in F /\ \A b \in F : b \in Nat /\ b # NULL /\ hd <= b
      /\ \A b \in F : nx[b] # NULL => nx[b] \in F /\ b < nx[b]
      /\ \A b, c \in F : b < c => nx[b] # NULL /\ nx[b] <= c
  BY DEF Chain, NULL
<1>2. new # NULL
  BY DEF NULL
<1>3. CASE prev = NULL /\ new < hd /\ next = hd /\ hd2 = new
  <2>1. \A b \in F : b # prev /\ new < b /\ nx2[b] = nx[b]
    BY <1>1, <1>3
  <2> QED
    BY <1>1, <1>2, <1>3, <2>1 DEF Chain
<1>4. CASE /\ prev \in F /\ prev < new /\ next = nx[prev] /\ hd2 = hd
           /\ next = NULL \/ next > new
  <2>1. hd <= new
    BY <1>1, <1>4
  <2>2. next # NULL => next \in F /\ new < next
    BY <1>1, <1>4
  <2>3. ASSUME NEW c \in F, prev < c PROVE next # NULL /\ next <= c /\ new < c
    <3>1. next # NULL /\ next <= c /\ c \in Nat
      BY <2>3, <1>1, <1>4
    <3>2. next \in Nat /\ new < next
      BY <3>1, <2>2, <1>1
    <3> QED
      BY <3>1, <3>2
  <2>4. \A b \in F : b < prev => nx2[b] = nx[b] /\ nx[b] # NULL /\ nx[b] <= prev
    BY <1>1, <1>4
  <2>5. \A b \in F \ {prev} : nx2[b] = nx[b]
    OBVIOUS
  <2>6. nx2[prev] = new /\ nx2[new] = next
    BY <1>4
  <2>7. ASSUME NEW b \in F \cup {new}, nx2[b] # NULL
        PROVE  nx2[b] \in F \cup {new} /\ b < nx2[b]
    <3>1. CASE b = new
      BY <3>1, <2>7, <2>2, <2>6
    <3>2. CASE b = prev
      BY <3>2, <1>4, <2>6
    <3>3. CASE b \in F \ {prev}
      BY <3>3, <2>5, <2>7, <1>1
    <3> QED
      BY <3>1, <3>2, <3>3
  <2>8. ASSUME NEW b \in F \cup {new}, NEW c \in F \cup {new}, b < c
        PROVE  nx2[b] # NULL /\ nx2[b] <= c
    <3>1. CASE b = new
      <4>1. c \in F /\ prev < c
        BY <3>1, <2>8, <1>1, <1>4
      <4> QED
        BY <4>1, <3>1, <2>3, <2>6
    <3>2. CASE b = prev
      BY <3>2, <2>3, <2>6, <2>8, <1>1, <1>2
    <3>3. CASE b \in F \ {prev} /\ c \in F
      BY <3>3, <1>1, <2>5, <2>8
    <3>4. CASE b \in F \ {prev} /\ c = new
      <4>1. b < prev
        <5>1. b \in Nat /\ prev \in Nat /\ b # prev
          BY <3>4, <1>1, <1>4
        <5>2. ~(prev < b)
          BY <5>1, <3>4, <2>3, <2>8
        <5> QED
          BY <5>1, <5>2
      <4>2. nx2[b] # NULL /\ nx2[b] <= prev /\ nx2[b] \in Nat
        BY <4>1, <3>4, <2>4, <1>1
      <4>3. prev \in Nat /\ prev < new
        BY <1>1, <1>4
      <4> QED
        BY <4>2, <4>3, <3>4
    <3> QED
      BY <3>1, <3>2, <3>3, <3>4
  <2> QED
    BY <1>1, <1>4, <2>1, <2>7, <2>8 DEF Chain
<1> QED
  BY <1>3, <1>4

\* A block taken out of the list, after the one before it.
LEMMA ChainRemove ==
  ASSUME NEW F \in SUBSET (Nat \ {0}), NEW hd, NEW nx, Chain(F, hd, nx),
         NEW b \in F, NEW c, c = nx[b], c # NULL, NEW nx2,
         nx2[b] = nx[c], \A d \in F \ {b, c} : nx2[d] = nx[d]
  PROVE  Chain(F \ {c}, hd, nx2) /\ c \in F /\ b < c
<1>1. /\ hd \in F /\ \A d \in F : d \in Nat /\ d # NULL /\ hd <= d
      /\ \A d \in F : nx[d] # NULL => nx[d] \in F /\ d < nx[d]
      /\ \A d, e \in F : d < e => nx[d] # NULL /\ nx[d] <= e
  BY DEF Chain, NULL
<1>2. c \in F /\ b < c /\ hd # c
  BY <1>1
<1>3. ASSUME nx[c] # NULL PROVE nx[c] \in F /\ nx[c] # c /\ b < nx[c]
  <2>1. nx[c] \in F /\ c < nx[c]
    BY <1>1, <1>2, <1>3
  <2>2. nx[c] \in Nat /\ c \in Nat /\ b \in Nat
    BY <2>1, <1>1, <1>2
  <2> QED
    BY <2>1, <2>2, <1>2
<1>4. ASSUME NEW d \in F \ {b, c}, nx[d] # NULL PROVE nx[d] # c
  <2>1. d \in Nat /\ b \in Nat /\ c \in Nat /\ d # b
    BY <1>1, <1>2
  <2>2. CASE d < b
    <3>1. nx[d] <= b
      BY <2>2, <1>1
    <3> QED
      BY <3>1, <2>1, <1>2
  <2>3. CASE b < d
    <3>1. c <= d /\ d < nx[d] /\ nx[d] \in Nat
      BY <2>3, <1>1, <1>4
    <3> QED
      BY <3>1, <2>1
  <2> QED
    BY <2>1, <2>2, <2>3
<1>5. ASSUME NEW d \in F \ {c}, nx2[d] # NULL PROVE nx2[d] \in F \ {c} /\ d < nx2[d]
  <2>1. CASE d = b
    BY <2>1, <1>3, <1>5
  <2>2. CASE d # b
    BY <2>2, <1>1, <1>4, <1>5
  <2> QED
    BY <2>1, <2>2
<1>6. ASSUME NEW d \in F \ {c}, NEW e \in F \ {c}, d < e PROVE nx2[d] # NULL /\ nx2[d] <= e
  <2>1. CASE d = b
    <3>1. c <= e /\ c # e
      BY <2>1, <1>1, <1>6
    <3>2. c < e
      BY <3>1, <1>1, <1>2
    <3> QED
      BY <2>1, <3>2, <1>1, <1>2
  <2>2. CASE d # b
    BY <2>2, <1>1, <1>6
  <2> QED
    BY <2>1, <2>2
<1> QED
  BY <1>1, <1>2, <1>5, <1>6 DEF Chain

\* The list has a last block, and nothing is after it.
LEMMA ChainEnds ==
  ASSUME NEW F \in SUBSET Address, NEW hd, NEW nx, Chain(F, hd, nx)
  PROVE  /\ \E t \in F : nx[t] = NULL
         /\ \A t \in F : nx[t] = NULL => \A b \in F : b <= t
<1>1. F \subseteq Nat /\ hd \in F
  BY Pages DEF Chain
<1>2. PICK t \in F : \A b \in F : b <= t
  <2>1. PICK B \in Nat : \A b \in F : b <= B
    <3> DEFINE all == PAGE_SIZE * MaxPages
               B == FirstPage + all
    <3>1. all \in Nat /\ B \in Nat /\ PAGE_SIZE \in Nat /\ InitBlock \in Nat
             /\ FirstPage \in Nat /\ InitBlock + PAGE_SIZE <= FirstPage
      BY KmallocConstants
    <3> HIDE DEF all
    <3>2. \A b \in Extent(InitBlock, PAGE_SIZE) \cup Extent(FirstPage, all) : b <= B
      BY <3>1 DEF Extent
    <3> QED
      BY <3>1, <3>2 DEF Address, all
  <2>2. F \in SUBSET Nat /\ F # {}
    BY <1>1
  <2> QED
    BY <2>1, <2>2, Greatest
<1>3. nx[t] = NULL
  <2> SUFFICES ASSUME nx[t] # NULL PROVE FALSE
    OBVIOUS
  <2>1. nx[t] \in F /\ t < nx[t]
    BY DEF Chain
  <2>2. nx[t] \in Nat /\ t \in Nat /\ nx[t] <= t
    BY <2>1, <1>1, <1>2
  <2> QED
    BY <2>1, <2>2
<1>4. ASSUME NEW s \in F, nx[s] = NULL, NEW b \in F PROVE b <= s
  <2>1. ~(s < b)
    BY <1>4 DEF Chain
  <2> QED
    BY <2>1, <1>1
<1> QED
  BY <1>3, <1>4

-----------------------------------------------------------------------------
(* The tiling *)

\* What Tiling says of one block and of two.
LEMMA Tiles ==
  ASSUME NEW A, NEW sz, NEW n \in 0..MaxPages, Tiling(A, sz, n)
  PROVE  /\ \A b \in A : /\ b \in Nat /\ b # 0 /\ sz[b] \in Nat /\ sz[b] >= 2
                         /\ \A a \in Nat : b <= a /\ a < b + sz[b] => a \in Heap(n)
         /\ \A a \in Heap(n) : a \in Nat /\ \E b \in A : b <= a /\ a < b + sz[b]
<1>1. \A b \in A : b \in Nat /\ b # 0 /\ sz[b] \in Nat /\ sz[b] >= 2
  BY Pages DEF Tiling
<1>2. ASSUME NEW b \in A, NEW a \in Nat, b <= a, a < b + sz[b] PROVE a \in Heap(n)
  <2>1. a \in Extent(b, sz[b])
    BY <1>1, <1>2 DEF Extent
  <2> QED
    BY <2>1 DEF Tiling
<1>3. ASSUME NEW a \in Heap(n) PROVE a \in Nat /\ \E b \in A : b <= a /\ a < b + sz[b]
  <2>1. a \in Nat
    BY Pages
  <2>2. PICK b \in A : a \in Extent(b, sz[b])
    BY DEF Tiling
  <2>3. b <= a /\ a < b + sz[b]
    BY <1>1, <2>1, <2>2 DEF Extent
  <2> QED
    BY <2>1, <2>3
<1> QED
  BY <1>1, <1>2, <1>3

\* And the other way round.
LEMMA IsTiling ==
  ASSUME NEW A \in SUBSET Nat, NEW sz, NEW n \in 0..MaxPages,
         \A b \in A : /\ sz[b] \in Nat /\ sz[b] >= 2
                      /\ \A a \in Nat : b <= a /\ a < b + sz[b] => a \in Heap(n),
         \A b, c \in A : b < c => b + sz[b] <= c,
         \A a \in Heap(n) : \E b \in A : b <= a /\ a < b + sz[b]
  PROVE  Tiling(A, sz, n)
<1>1. ASSUME NEW b \in A PROVE Extent(b, sz[b]) \subseteq Heap(n) /\ b \in Address
  <2>1. b \in Nat /\ sz[b] \in Nat /\ sz[b] >= 2
    OBVIOUS
  <2>2. \A a \in Extent(b, sz[b]) : a \in Nat /\ b <= a /\ a < b + sz[b]
    BY <2>1 DEF Extent
  <2>3. b \in Heap(n)
    BY <2>1
  <2> QED
    BY <2>2, <2>3, Pages
<1>2. ASSUME NEW a \in Heap(n) PROVE \E b \in A : a \in Extent(b, sz[b])
  <2>1. PICK b \in A : b <= a /\ a < b + sz[b]
    OBVIOUS
  <2>2. a \in Nat /\ b \in Nat /\ sz[b] \in Nat
    BY Pages
  <2>3. a \in Extent(b, sz[b])
    BY <2>1, <2>2 DEF Extent
  <2> QED
    BY <2>3
<1> QED
  BY <1>1, <1>2 DEF Tiling

\* Two adjacent blocks merged into the first of them.
LEMMA TilingMerge ==
  ASSUME NEW A, NEW sz, NEW n \in 0..MaxPages, Tiling(A, sz, n),
         NEW x \in A, NEW y \in A, x + sz[x] = y, NEW sz2,
         sz2[x] = sz[x] + sz[y], \A b \in A \ {x, y} : sz2[b] = sz[b]
  PROVE  Tiling(A \ {y}, sz2, n)
<1>1. /\ \A b \in A : /\ b \in Nat /\ b # 0 /\ sz[b] \in Nat /\ sz[b] >= 2
                      /\ \A a \in Nat : b <= a /\ a < b + sz[b] => a \in Heap(n)
      /\ \A a \in Heap(n) : a \in Nat /\ \E b \in A : b <= a /\ a < b + sz[b]
      /\ \A b, c \in A : b < c => b + sz[b] <= c
  BY Tiles DEF Tiling
<1>2. /\ x \in Nat /\ y \in Nat /\ x < y /\ sz[x] \in Nat /\ sz[y] \in Nat
      /\ sz[x] >= 2 /\ sz[y] >= 2
  BY <1>1
<1>3. ASSUME NEW b \in A \ {y}
      PROVE  /\ sz2[b] \in Nat /\ sz2[b] >= 2
             /\ \A a \in Nat : b <= a /\ a < b + sz2[b] => a \in Heap(n)
  <2>1. CASE b = x
    <3>1. sz2[b] \in Nat /\ sz2[b] >= 2 /\ b + sz2[b] = y + sz[y]
      BY <2>1, <1>2
    <3>2. ASSUME NEW a \in Nat, b <= a, a < b + sz2[b] PROVE a \in Heap(n)
      <4>1. a < x + sz[x] \/ (y <= a /\ a < y + sz[y])
        BY <3>1, <3>2, <1>2
      <4> QED
        BY <4>1, <3>2, <2>1, <1>1
    <3> QED
      BY <3>1, <3>2
  <2>2. CASE b # x
    BY <2>2, <1>1
  <2> QED
    BY <2>1, <2>2
<1>4. ASSUME NEW b \in A \ {y}, NEW c \in A \ {y}, b < c PROVE b + sz2[b] <= c
  <2>1. CASE b = x
    <3>1. y <= c /\ y # c /\ c \in Nat
      BY <2>1, <1>1, <1>4
    <3>2. y + sz[y] <= c
      BY <3>1, <1>1, <1>2
    <3> QED
      BY <3>1, <3>2, <2>1, <1>2
  <2>2. CASE b # x
    BY <2>2, <1>1, <1>4
  <2> QED
    BY <2>1, <2>2
<1>5. ASSUME NEW a \in Heap(n) PROVE \E b \in A \ {y} : b <= a /\ a < b + sz2[b]
  <2>1. PICK b \in A : b <= a /\ a < b + sz[b]
    BY <1>1
  <2>2. CASE b = x \/ b = y
    <3>1. x <= a /\ a < x + sz2[x]
      BY <2>1, <2>2, <1>1, <1>2
    <3> QED
      BY <3>1, <1>2
  <2>3. CASE b \in A \ {x, y}
    BY <2>1, <2>3
  <2> QED
    BY <2>2, <2>3
<1>6. A \ {y} \in SUBSET Nat
  BY <1>1
<1> QED
  BY <1>3, <1>4, <1>5, <1>6, IsTiling

\* A block cut in two.
LEMMA TilingCut ==
  ASSUME NEW A, NEW sz, NEW n \in 0..MaxPages, Tiling(A, sz, n),
         NEW b \in A, NEW new \in Nat, b + 2 <= new, new + 2 <= b + sz[b], NEW sz2,
         sz2[b] = new - b, sz2[new] = b + sz[b] - new,
         \A c \in A \ {b} : sz2[c] = sz[c]
  PROVE  new \notin A /\ new \in Address /\ Tiling(A \cup {new}, sz2, n)
<1>1. /\ \A c \in A : /\ c \in Nat /\ c # 0 /\ sz[c] \in Nat /\ sz[c] >= 2
                      /\ \A a \in Nat : c <= a /\ a < c + sz[c] => a \in Heap(n)
      /\ \A a \in Heap(n) : a \in Nat /\ \E c \in A : c <= a /\ a < c + sz[c]
      /\ \A c, d \in A : c < d => c + sz[c] <= d
  <2>1. \A c, d \in A : c < d => c + sz[c] <= d
    BY DEF Tiling
  <2> QED
    BY <2>1, Tiles
<1>2. b \in Nat /\ sz[b] \in Nat /\ sz2[b] \in Nat /\ sz2[new] \in Nat
  <2>1. b \in Nat /\ sz[b] \in Nat
    BY <1>1
  <2>2. new - b \in Nat /\ b + sz[b] - new \in Nat
    BY <2>1
  <2> QED
    BY <2>1, <2>2
<1>3. new \notin A
  <2> SUFFICES ASSUME new \in A PROVE FALSE
    OBVIOUS
  <2>1. b + sz[b] <= new
    BY <1>1, <1>2
  <2> QED
    BY <2>1, <1>2
<1>4. new \in Address
  <2>1. new \in Heap(n)
    BY <1>1, <1>2
  <2> QED
    BY <2>1, Pages
<1>5. ASSUME NEW c \in A \cup {new}
      PROVE  /\ sz2[c] \in Nat /\ sz2[c] >= 2
             /\ \A a \in Nat : c <= a /\ a < c + sz2[c] => a \in Heap(n)
  <2>1. CASE c = b
    <3>1. sz2[c] \in Nat /\ sz2[c] >= 2 /\ c + sz2[c] = new /\ new <= b + sz[b]
      BY <2>1, <1>2
    <3>2. \A a \in Nat : a < new => a < b + sz[b]
      BY <3>1, <1>2
    <3> QED
      BY <3>1, <3>2, <2>1, <1>1
  <2>2. CASE c = new
    <3>1. sz2[c] \in Nat /\ sz2[c] >= 2 /\ c + sz2[c] = b + sz[b]
      BY <2>2, <1>2
    <3>2. \A a \in Nat : new <= a => b <= a
      BY <1>2
    <3> QED
      BY <3>1, <3>2, <2>2, <1>1
  <2>3. CASE c \in A \ {b}
    BY <2>3, <1>1
  <2> QED
    BY <2>1, <2>2, <2>3
<1>6. ASSUME NEW c \in A \cup {new}, NEW d \in A \cup {new}, c < d PROVE c + sz2[c] <= d
  <2>0. \A e \in A \cup {new} : e \in Nat
    BY <1>1
  <2>1. CASE c = b
    <3>1. c + sz2[c] = new
      BY <2>1, <1>2
    <3>2. d # new => b + sz[b] <= d
      BY <2>1, <1>1, <1>6
    <3> QED
      BY <3>1, <3>2, <2>0, <1>2
  <2>2. CASE c = new
    <3>1. c + sz2[c] = b + sz[b] /\ d \in A /\ b < d
      BY <2>0, <2>2, <1>2, <1>6
    <3> QED
      BY <3>1, <1>1
  <2>3. CASE c \in A \ {b} /\ d \in A
    BY <2>3, <1>1, <1>6
  <2>4. CASE c \in A \ {b} /\ d = new
    <3>1. c \in Nat /\ c # b /\ sz[c] \in Nat /\ sz2[c] = sz[c]
      BY <2>4, <1>1
    <3>2. ~(b < c)
      <4> SUFFICES ASSUME b < c PROVE FALSE
        OBVIOUS
      <4>1. b + sz[b] <= c
        BY <2>4, <1>1
      <4> QED
        BY <4>1, <3>1, <2>4, <1>2, <1>6
    <3>3. c + sz[c] <= b
      BY <3>1, <3>2, <2>4, <1>1, <1>2
    <3> QED
      BY <3>1, <3>3, <2>4, <1>2
  <2> QED
    BY <2>1, <2>2, <2>3, <2>4
<1>7. ASSUME NEW a \in Heap(n) PROVE \E c \in A \cup {new} : c <= a /\ a < c + sz2[c]
  <2>1. PICK c \in A : c <= a /\ a < c + sz[c]
    BY <1>1
  <2>2. CASE c = b
    <3>1. (b <= a /\ a < b + sz2[b]) \/ (new <= a /\ a < new + sz2[new])
      BY <2>1, <2>2, <1>1, <1>2
    <3> QED
      BY <3>1
  <2>3. CASE c # b
    BY <2>1, <2>3
  <2> QED
    BY <2>2, <2>3
<1>8. A \cup {new} \in SUBSET Nat
  BY <1>1
<1> QED
  BY <1>3, <1>4, <1>5, <1>6, <1>7, <1>8, IsTiling

\* A page added after the heap.
LEMMA TilingPage ==
  ASSUME NEW A, NEW sz, NEW n \in 0..MaxPages - 1, Tiling(A, sz, n), NEW sz2,
         sz2[Page(n)] = PAGE_SIZE, \A b \in A : sz2[b] = sz[b]
  PROVE  /\ Page(n) \in Nat \ {0} /\ \A b \in A : b < Page(n)
         /\ Tiling(A \cup {Page(n)}, sz2, n + 1)
<1> DEFINE new == Page(n)
<1>0. /\ n \in 0..MaxPages /\ n + 1 \in 0..MaxPages /\ new \in Nat \ {0}
      /\ Heap(n + 1) = Heap(n) \cup Extent(new, PAGE_SIZE)
      /\ \A a \in Heap(n) : a < new
      /\ PAGE_SIZE \in Nat /\ PAGE_SIZE >= 2
  BY Pages, KmallocConstants
<1> HIDE DEF new
<1>1. /\ \A b \in A : /\ b \in Nat /\ b # 0 /\ sz[b] \in Nat /\ sz[b] >= 2
                      /\ \A a \in Nat : b <= a /\ a < b + sz[b] => a \in Heap(n)
      /\ \A a \in Heap(n) : a \in Nat /\ \E b \in A : b <= a /\ a < b + sz[b]
      /\ \A b, c \in A : b < c => b + sz[b] <= c
  BY <1>0, Tiles DEF Tiling
<1>2. sz2[new] = PAGE_SIZE
  BY DEF new
<1>3. ASSUME NEW b \in A PROVE b < new /\ b + sz[b] <= new
  <2>1. b \in Nat /\ sz[b] \in Nat /\ sz[b] >= 2
    BY <1>1
  <2>2. b \in Heap(n) /\ (b + sz[b]) - 1 \in Heap(n)
    <3>1. (b + sz[b]) - 1 \in Nat /\ b <= (b + sz[b]) - 1 /\ (b + sz[b]) - 1 < b + sz[b]
             /\ b < b + sz[b] /\ b <= b
      BY <2>1
    <3> QED
      BY <3>1, <1>1
  <2> QED
    BY <2>1, <2>2, <1>0
<1>4. ASSUME NEW b \in A \cup {new}
      PROVE  /\ sz2[b] \in Nat /\ sz2[b] >= 2
             /\ \A a \in Nat : b <= a /\ a < b + sz2[b] => a \in Heap(n + 1)
  <2>1. CASE b \in A
    BY <2>1, <1>0, <1>1
  <2>2. CASE b = new
    <3>1. \A a \in Nat : new <= a /\ a < new + PAGE_SIZE => a \in Extent(new, PAGE_SIZE)
      BY <1>0 DEF Extent
    <3> QED
      BY <3>1, <2>2, <1>0, <1>2
  <2> QED
    BY <2>1, <2>2
<1>5. ASSUME NEW b \in A \cup {new}, NEW c \in A \cup {new}, b < c PROVE b + sz2[b] <= c
  <2>1. CASE b \in A /\ c \in A
    BY <2>1, <1>1, <1>5
  <2>2. CASE b \in A /\ c = new
    BY <2>2, <1>3
  <2>3. b # new
    <3> SUFFICES ASSUME b = new PROVE FALSE
      OBVIOUS
    <3>1. c \in A => c < new
      BY <1>3
    <3> QED
      BY <3>1, <1>0, <1>1, <1>5
  <2> QED
    BY <2>1, <2>2, <2>3
<1>6. ASSUME NEW a \in Heap(n + 1) PROVE \E b \in A \cup {new} : b <= a /\ a < b + sz2[b]
  <2>1. CASE a \in Heap(n)
    BY <2>1, <1>1
  <2>2. CASE a \in Extent(new, PAGE_SIZE)
    <3>1. new <= a /\ a < new + sz2[new]
      BY <2>2, <1>0, <1>2 DEF Extent
    <3> QED
      BY <3>1
  <2> QED
    BY <2>1, <2>2, <1>0
<1>7. A \cup {new} \in SUBSET Nat
  BY <1>0, <1>1
<1>8. Tiling(A \cup {new}, sz2, n + 1)
  BY <1>0, <1>4, <1>5, <1>6, <1>7, IsTiling
<1> QED
  BY <1>0, <1>3, <1>8 DEF new

-----------------------------------------------------------------------------
(* Boot *)

LEMMA InitIInv == Init => IInv
<1> SUFFICES ASSUME Init PROVE IInv
  OBVIOUS
<1> DEFINE F == {InitBlock}
<1>0. /\ PAGE_SIZE \in Nat /\ PAGE_SIZE >= 2 /\ InitBlock \in Nat \ {0} /\ MaxPages \in Nat
      /\ FirstPage \in Nat
  BY KmallocConstants
<1>1. InitBlock \in Address
  BY <1>0 DEF Address, Extent
<1>2. Types
  BY <1>0, <1>1 DEF Init, Types
<1>3. Heap(0) = Extent(InitBlock, PAGE_SIZE)
  <2>1. Extent(FirstPage, 0) = {} /\ PAGE_SIZE * 0 = 0
    BY <1>0 DEF Extent
  <2> QED
    BY <2>1 DEF Heap
<1>4. size[InitBlock] = PAGE_SIZE /\ next_block[InitBlock] = NULL
  BY <1>1 DEF Init
<1>5. Tiling(F, size, 0)
  BY <1>0, <1>1, <1>3, <1>4 DEF Tiling
<1>6. Chain(F, block_list_head, next_block)
  BY <1>0, <1>4 DEF Chain, Init
<1>7. FreeList = F
  <2>1. Spaced(F)
    <3>1. 0 \in 0..MaxPages
      BY <1>0
    <3> QED
      BY <3>1, <1>5, TilingSpaced
  <2> HIDE DEF F
  <2> QED
    BY <2>1, <1>6, Listed, FreeListIsListing
<1>8. Starts(held) = {} /\ pages = 0 /\ refused = 0 /\ intact = TRUE /\ held = {}
  BY DEF Init, Starts
<1>9. Given(F, held, size) /\ Coalesced(F, next_block, size) /\ RetrySucceeds
  BY <1>4, <1>8 DEF Given, Coalesced, RetrySucceeds
<1>10. FreeList \cup Starts(held) = F
  BY <1>7, <1>8
<1> QED
  BY <1>2, <1>5, <1>6, <1>7, <1>8, <1>9, <1>10 DEF IInv, HeapInv

-----------------------------------------------------------------------------
(* kmalloc *)

LEMMA FreeListAfter == FreeList' = Listing(block_list_head', next_block')
<1>1. FreeList = Listing(block_list_head, next_block)
  BY FreeListIsListing
<1>2. (FreeList = Listing(block_list_head, next_block))'
  BY <1>1, PTL
<1> QED
  BY <1>2

\* After a step that leaves the chain and the tiling, the list is the chain.
LEMMA NewList ==
  ASSUME NEW F, Types', Chain(F, block_list_head', next_block'),
         Tiling(F \cup Starts(held'), size', pages')
  PROVE  FreeList' = F
<1>1. pages' \in 0..MaxPages
  BY DEF Types
<1>2. Spaced(F)
  <2> DEFINE A == F \cup Starts(held')
  <2>1. Tiling(A, size', pages') /\ F \in SUBSET A
    OBVIOUS
  <2> HIDE DEF A
  <2> QED
    BY <1>1, <2>1, TilingSpaced
<1> QED
  BY <1>2, FreeListAfter, Listed

\* The end of a free block goes to the caller; the list is as it was.
LEMMA SplitHeapInv ==
  ASSUME HeapInv, NEW n \in Nat \ {0}, Split(n)
  PROVE  HeapInv'
<1> DEFINE F == FreeList
           A == F \cup Starts(held)
<1>1. PICK b \in F : /\ LeftOver(b, n) >= SMALLEST_BLOCK_SIZE
                     /\ kmalloc_split_block(b, n)
                     /\ refused' = 0
                     /\ UNCHANGED <<block_list_head, block_list_tail, pages, intact>>
  BY DEF Split
<1> DEFINE new == b + size[b] - (n + BLOCK_HEADER_SIZE)
           given == <<new + BLOCK_HEADER_SIZE, n>>
<1>0. /\ BLOCK_HEADER_SIZE = 1 /\ SMALLEST_BLOCK_SIZE \in Nat /\ SMALLEST_BLOCK_SIZE >= 2
      /\ pages \in 0..MaxPages /\ size \in [Address -> Nat]
      /\ next_block \in [Address -> Address \cup {NULL}]
      /\ F \subseteq Address /\ b \in A /\ b \in Address
  BY KmallocConstants DEF HeapInv, Types, Tiling
<1>2. /\ b \in Nat /\ size[b] \in Nat /\ size[b] - 1 - n >= 2
      /\ Tiling(A, size, pages)
  BY <1>0, <1>1, Pages DEF LeftOver, HeapInv
<1>3. /\ new \in Nat /\ b + 2 <= new /\ new + 2 <= b + size[b]
      /\ new = b + size[b] - (n + 1) /\ b # new
  BY <1>0, <1>2
<1>4. /\ size' = [size EXCEPT ![new] = n + 1, ![b] = @ - (n + 1)]
      /\ next_block' = [next_block EXCEPT ![new] = NULL]
      /\ held' = held \cup {given}
      /\ block_list_head' = block_list_head /\ block_list_tail' = block_list_tail
      /\ pages' = pages /\ refused' = 0
  BY <1>0, <1>1 DEF kmalloc_split_block
<1> HIDE DEF new, F
<1>5. new \in Address
  <2>1. new \in Heap(pages)
    BY <1>0, <1>2, <1>3, Tiles
  <2> QED
    BY <2>1, <1>0, Pages
<1>6. /\ size' \in [Address -> Nat] /\ size'[b] = new - b /\ size'[new] = b + size[b] - new
      /\ size'[new] = n + 1
      /\ \A c \in Address \ {b, new} : size'[c] = size[c]
  <2>1. size[b] - (n + 1) \in Nat /\ size[b] - (n + 1) = new - b /\ n + 1 = b + size[b] - new
    BY <1>2, <1>3
  <2> QED
    BY <1>0, <1>3, <1>4, <1>5, <2>1
<1>7. new \notin A /\ Tiling(A \cup {new}, size', pages)
  <2>1. new \notin A
    <3> SUFFICES ASSUME new \in A PROVE FALSE
      OBVIOUS
    <3>1. b + size[b] <= new
      BY <1>0, <1>2, <1>3 DEF Tiling
    <3> QED
      BY <3>1, <1>2, <1>3
  <2>2. \A c \in A \ {b} : size'[c] = size[c]
    BY <1>2, <1>6, <2>1 DEF Tiling
  <2>3. /\ pages \in 0..MaxPages /\ Tiling(A, size, pages) /\ b \in A /\ new \in Nat
        /\ b + 2 <= new /\ new + 2 <= b + size[b]
        /\ size'[b] = new - b /\ size'[new] = b + size[b] - new
    BY <1>0, <1>2, <1>3, <1>6
  <2> HIDE DEF A
  <2>4. Tiling(A \cup {new}, size', pages)
    BY <2>2, <2>3, TilingCut
  <2> QED
    BY <2>1, <2>4
<1>8. \A c \in F : next_block'[c] = next_block[c]
  <2>1. \A c \in F : c \in Address /\ c # new
    BY <1>0, <1>7
  <2> QED
    BY <2>1, <1>0, <1>4
<1>9. Chain(F, block_list_head', next_block')
  BY <1>4, <1>8 DEF Chain, HeapInv, F
<1>10. F \cup Starts(held') = A \cup {new} /\ Starts(held') = Starts(held) \cup {new}
  <2>1. given[1] - BLOCK_HEADER_SIZE = new
    BY <1>0, <1>3
  <2>2. Starts(held') = Starts(held) \cup {new}
    BY <1>4, <2>1 DEF Starts
  <2> QED
    BY <2>2
<1>11. Types'
  BY <1>0, <1>4, <1>6 DEF Types, HeapInv, NULL
<1>12. FreeList' = F
  BY <1>4, <1>7, <1>9, <1>10, <1>11, NewList
<1>13. Given(F, held', size')
  <2>1. Given(F, held, size)
    BY DEF HeapInv, F
  <2>2. F \cap Starts(held') = {}
    BY <1>7, <1>10, <2>1 DEF Given
  <2>3. ASSUME NEW h \in held'
        PROVE  h \in Nat \X Nat /\ size'[h[1] - BLOCK_HEADER_SIZE] = h[2] + BLOCK_HEADER_SIZE
    <3>1. CASE h \in held
      <4>1. h[1] - BLOCK_HEADER_SIZE \in Starts(held)
        BY <3>1 DEF Starts
      <4>2. h[1] - BLOCK_HEADER_SIZE \in Address \ {b, new}
        BY <4>1, <1>2, <1>7, <2>1 DEF Tiling, Given
      <4> QED
        BY <3>1, <4>2, <1>6, <2>1 DEF Given
    <3>2. CASE h = given
      BY <3>2, <1>0, <1>3, <1>6
    <3> QED
      BY <3>1, <3>2, <2>3, <1>4
  <2> QED
    BY <2>2, <2>3 DEF Given
<1>14. Coalesced(F, next_block', size')
  <2> SUFFICES ASSUME NEW c \in F, next_block'[c] # NULL, c + size'[c] = next_block'[c]
               PROVE  \E k \in 0..MaxPages : next_block'[c] = Page(k)
    BY DEF Coalesced
  <2>1. next_block'[c] = next_block[c] /\ c < next_block[c] /\ next_block[c] \in F
    BY <1>8 DEF HeapInv, Chain, F
  <2>2. CASE c = b
    <3>1. next_block[c] = new
      BY <2>1, <2>2, <1>2, <1>3, <1>6
    <3> QED
      BY <3>1, <2>1, <1>7
  <2>3. CASE c # b
    <3>1. size'[c] = size[c]
      BY <2>3, <1>0, <1>6, <1>7
    <3> QED
      BY <3>1, <2>1 DEF HeapInv, Coalesced, F
  <2> QED
    BY <2>2, <2>3
<1>15. RetrySucceeds'
  BY <1>4 DEF RetrySucceeds
<1> QED
  BY <1>4, <1>7, <1>9, <1>10, <1>11, <1>12, <1>13, <1>14, <1>15 DEF HeapInv

\* The new page follows the last block of the list.
LEMMA GrowHeapInv ==
  ASSUME HeapInv, NEW n \in Nat \ {0}, Grow(n), intact'
  PROVE  HeapInv'
<1> DEFINE F == FreeList
           A == F \cup Starts(held)
           new == Page(pages)
           t == block_list_tail
<1>0. /\ BLOCK_HEADER_SIZE = 1 /\ PAGE_SIZE \in Nat /\ MaxPages \in Nat
      /\ pages \in 0..MaxPages - 1 /\ size \in [Address -> Nat]
      /\ next_block \in [Address -> Address \cup {NULL}]
      /\ F \subseteq Address /\ Tiling(A, size, pages)
      /\ Chain(F, block_list_head, next_block) /\ t \in Address
  BY KmallocConstants DEF HeapInv, Types, Tiling, Grow
<1>1. /\ pages' = pages + 1 /\ size' = [size EXCEPT ![new] = PAGE_SIZE]
      /\ next_block' = [next_block EXCEPT ![new] = NULL, ![t] = new]
      /\ refused' = n /\ block_list_head' = block_list_head /\ block_list_tail' = t
      /\ held' = held /\ intact' = (t = LastBlock)
  BY DEF Grow
<1>2. t \in F /\ next_block[t] = NULL
  <2>1. \E b \in FreeList : next_block[b] = NULL
    BY <1>0, ChainEnds
  <2>2. LastBlock \in FreeList /\ next_block[LastBlock] = NULL
    BY <2>1 DEF LastBlock
  <2> QED
    BY <2>2, <1>1
<1>3. new \in Address /\ pages + 1 \in 0..MaxPages /\ pages \in 0..MaxPages
  BY <1>0, Pages
<1> HIDE DEF F, new, t
<1>4. /\ size' \in [Address -> Nat] /\ size'[new] = PAGE_SIZE
      /\ \A b \in Address \ {new} : size'[b] = size[b]
  BY <1>0, <1>1, <1>3
<1>5. /\ new \in Nat \ {0} /\ (\A b \in A : b < new)
      /\ Tiling(A \cup {new}, size', pages')
  <2>1. new \notin A
    <3> SUFFICES ASSUME new \in A PROVE FALSE
      OBVIOUS
    <3>1. new \in Heap(pages) /\ new \in Nat
      BY <1>0, <1>3, Tiles, Pages
    <3>2. \A a \in Heap(pages) : a < new
      BY <1>0, Pages DEF new
    <3> QED
      BY <3>1, <3>2
  <2>2. \A b \in A : size'[b] = size[b]
    BY <1>0, <1>4, <2>1 DEF Tiling
  <2>3. /\ pages \in 0..MaxPages - 1 /\ Tiling(A, size, pages)
        /\ size'[Page(pages)] = PAGE_SIZE
    BY <1>0, <1>4 DEF new
  <2> HIDE DEF A
  <2>4. /\ Page(pages) \in Nat \ {0} /\ \A b \in A : b < Page(pages)
        /\ Tiling(A \cup {Page(pages)}, size', pages + 1)
    BY <2>2, <2>3, TilingPage
  <2> QED
    BY <2>4, <1>1 DEF new
<1>6. new \notin A /\ new # t /\ \A b \in F : b < new
  <2>1. ~(new < new)
    BY <1>5
  <2> QED
    BY <2>1, <1>2, <1>5
<1>7. /\ next_block' \in [Address -> Address \cup {NULL}]
      /\ next_block'[new] = NULL /\ next_block'[t] = new
      /\ \A b \in F \ {t} : next_block'[b] = next_block[b]
  <2>1. \A b \in F \ {t} : b \in Address /\ b # new /\ b # t
    BY <1>0, <1>6
  <2> QED
    BY <2>1, <1>0, <1>1, <1>3, <1>6
<1>8. Chain(F \cup {new}, block_list_head', next_block')
  <2>1. /\ F \in SUBSET (Nat \ {0}) /\ new \in Nat \ {0} /\ new \notin F /\ t < new
    BY <1>0, <1>2, <1>5, <1>6, Pages
  <2>2. /\ Chain(F, block_list_head, next_block) /\ t \in F
        /\ NULL = next_block[t] /\ block_list_head' = block_list_head
        /\ next_block'[new] = NULL /\ next_block'[t] = new
        /\ \A b \in F \ {t} : next_block'[b] = next_block[b]
    BY <1>0, <1>1, <1>2, <1>7
  <2> QED
    BY <2>1, <2>2, ChainInsert
<1>9. Types'
  BY <1>0, <1>1, <1>3, <1>4, <1>7 DEF Types
<1>10. (F \cup {new}) \cup Starts(held') = A \cup {new}
  BY <1>1
<1>11. FreeList' = F \cup {new}
  BY <1>5, <1>8, <1>9, <1>10, NewList
<1>12. Given(F \cup {new}, held', size')
  <2>1. Given(F, held, size)
    BY DEF HeapInv, F
  <2>2. (F \cup {new}) \cap Starts(held') = {}
    BY <1>1, <1>6, <2>1 DEF Given
  <2>3. ASSUME NEW h \in held'
        PROVE  h \in Nat \X Nat /\ size'[h[1] - BLOCK_HEADER_SIZE] = h[2] + BLOCK_HEADER_SIZE
    <3>1. h \in held /\ h[1] - BLOCK_HEADER_SIZE \in Starts(held)
      BY <1>1, <2>3 DEF Starts
    <3>2. h[1] - BLOCK_HEADER_SIZE \in Address \ {new}
      BY <3>1, <1>0, <1>6 DEF Tiling
    <3> QED
      BY <3>1, <3>2, <1>4, <2>1 DEF Given
  <2> QED
    BY <2>2, <2>3 DEF Given
<1>13. Coalesced(F \cup {new}, next_block', size')
  <2> SUFFICES ASSUME NEW c \in F \cup {new}, next_block'[c] # NULL,
                      c + size'[c] = next_block'[c]
               PROVE  \E k \in 0..MaxPages : next_block'[c] = Page(k)
    BY DEF Coalesced
  <2>1. c # new
    BY <1>7
  <2>2. CASE c = t
    BY <2>2, <1>3, <1>7 DEF new
  <2>3. CASE c # t
    <3>1. next_block'[c] = next_block[c] /\ size'[c] = size[c] /\ c \in F
      BY <2>1, <2>3, <1>0, <1>4, <1>7
    <3> QED
      BY <3>1 DEF HeapInv, Coalesced, F
  <2> QED
    BY <2>2, <2>3
<1>14. RetrySucceeds'
  <2>1. ASSUME n + BLOCK_HEADER_SIZE <= PAGE_SIZE PROVE \E b \in FreeList' : Fits(b, n)'
    <3>1. new \in FreeList'
      BY <1>11
    <3>2. n <= size'[new] - BLOCK_HEADER_SIZE
      BY <1>0, <1>4, <2>1
    <3> QED
      BY <3>1, <3>2 DEF Fits
  <2> QED
    BY <2>1, <1>1 DEF RetrySucceeds, Fits
<1> QED
  BY <1>1, <1>5, <1>8, <1>9, <1>10, <1>11, <1>12, <1>13, <1>14 DEF HeapInv

-----------------------------------------------------------------------------
(* kfree *)

\* The neighbours that kfree finds for a block that is not in the list.
LEMMA Neighbours ==
  ASSUME NEW new \in Nat, FreeList \subseteq Address, new \notin FreeList,
         Chain(FreeList, block_list_head, next_block)
  PROVE  \/ /\ PrevBlock(new) = NULL /\ new < block_list_head
            /\ NextBlock(new) = block_list_head
         \/ /\ PrevBlock(new) \in FreeList /\ PrevBlock(new) < new
            /\ PrevBlock(new) # NULL /\ NextBlock(new) = next_block[PrevBlock(new)]
            /\ NextBlock(new) = NULL \/ NextBlock(new) > new
<1> DEFINE F == FreeList
           hd == block_list_head
<1>1. /\ hd \in F /\ \A b \in F : b \in Nat /\ b # NULL /\ hd <= b
      /\ \A b \in F : next_block[b] # NULL => next_block[b] \in F /\ b < next_block[b]
      /\ \A b, c \in F : b < c => next_block[b] # NULL /\ next_block[b] <= c
  BY Pages DEF Chain, NULL
<1>2. CASE new < hd
  BY <1>2 DEF PrevBlock, NextBlock
<1>3. CASE ~(new < hd)
  <2> DEFINE T == {b \in F : b < new}
             Before(b) == b < new /\ (next_block[b] > new \/ next_block[b] = NULL)
  <2>1. hd \in T
    BY <1>1, <1>3
  <2>2. PICK b \in T : \A c \in T : c <= b
    <3>1. T \in SUBSET Nat /\ \A c \in T : c <= new
      BY <1>1
    <3> HIDE DEF T
    <3> QED
      BY <2>1, <3>1, Greatest
  <2>3. b \in F /\ Before(b)
    <3>1. b \in F /\ b < new /\ b \in Nat
      BY <2>2, <1>1
    <3>2. ASSUME next_block[b] # NULL PROVE next_block[b] > new
      <4>1. next_block[b] \in F /\ b < next_block[b] /\ next_block[b] \in Nat
               /\ next_block[b] # new
        BY <3>1, <3>2, <1>1
      <4>2. ~(next_block[b] < new)
        <5> SUFFICES ASSUME next_block[b] < new PROVE FALSE
          OBVIOUS
        <5>1. next_block[b] <= b
          BY <4>1, <2>2
        <5> QED
          BY <5>1, <4>1, <3>1
      <4> QED
        BY <4>1, <4>2
    <3> QED
      BY <3>1, <3>2
  <2>4. PrevBlock(new) = CHOOSE c \in F : Before(c)
    <3>1. T # {}
      <4> HIDE DEF T
      <4> QED
        BY <2>1
    <3> QED
      BY <3>1, <1>3 DEF PrevBlock
  <2>5. PrevBlock(new) \in F /\ Before(PrevBlock(new))
    <3>1. \E c \in F : Before(c)
      BY <2>3
    <3> HIDE DEF Before, F
    <3> QED
      BY <3>1, <2>4
  <2>6. PrevBlock(new) # NULL
    BY <2>5, <1>1
  <2>7. NextBlock(new) = next_block[PrevBlock(new)]
    BY <2>6, <1>3 DEF NextBlock
  <2> QED
    BY <2>5, <2>6, <2>7
<1> QED
  BY <1>2, <1>3

\* The block that is freed: it begins where no free block and no other caller's
\* block does.
LEMMA Freed ==
  ASSUME HeapInv, NEW block \in held, NEW new, new = block[1] - BLOCK_HEADER_SIZE
  PROVE  /\ new \in Address /\ new \in Nat \ {0} /\ new \in Starts(held)
         /\ new \notin FreeList /\ new \notin Starts(held \ {block})
         /\ Starts(held) = Starts(held \ {block}) \cup {new}
<1>0. BLOCK_HEADER_SIZE = 1
  BY KmallocConstants
<1>1. new \in Starts(held)
  BY DEF Starts
<1>2. new \in Address /\ new \notin FreeList
  BY <1>1 DEF HeapInv, Tiling, Given
<1>3. ASSUME NEW h \in held, h[1] - BLOCK_HEADER_SIZE = new PROVE h = block
  <2>1. h \in Nat \X Nat /\ block \in Nat \X Nat /\ size[new] = h[2] + 1 /\ size[new] = block[2] + 1
    BY <1>0, <1>3 DEF HeapInv, Given
  <2>2. h[1] = block[1] /\ h[2] = block[2]
    BY <2>1, <1>0, <1>3
  <2> QED
    BY <2>1, <2>2
<1>4. new \notin Starts(held \ {block})
  BY <1>3 DEF Starts
<1>5. Starts(held) = Starts(held \ {block}) \cup {new}
  BY DEF Starts
<1> QED
  BY <1>1, <1>2, <1>4, <1>5, Pages

\* One merge: y, the block after x in the list and in memory, becomes a part
\* of x; or nothing happens.
Merges(F, H, nx, sz, nx2, sz2, x, y) ==
  /\ x \in F /\ nx[x] = y /\ y # NULL /\ x + sz[x] = y
  /\ nx2[x] = nx[y] /\ sz2[x] = sz[x] + sz[y]
  /\ \A b \in (F \cup H) \ {x, y} : sz2[b] = sz[b]
  /\ \A b \in F \ {x, y} : nx2[b] = nx[b]
Keeps(F, H, nx, sz, nx2, sz2) ==
  /\ \A b \in F \cup H : sz2[b] = sz[b]
  /\ \A b \in F : nx2[b] = nx[b]

LEMMA MergeOne ==
  ASSUME NEW F \in SUBSET (Nat \ {0}), NEW hd, NEW nx, Chain(F, hd, nx),
         NEW H, NEW sz, NEW n \in 0..MaxPages, Tiling(F \cup H, sz, n), F \cap H = {},
         NEW x, NEW y, NEW nx2, NEW sz2, NEW G,
         \/ Merges(F, H, nx, sz, nx2, sz2, x, y) /\ G = F \ {y}
         \/ Keeps(F, H, nx, sz, nx2, sz2) /\ G = F
  PROVE  Chain(G, hd, nx2) /\ Tiling(G \cup H, sz2, n) /\ G \subseteq F
<1>1. CASE Merges(F, H, nx, sz, nx2, sz2, x, y) /\ G = F \ {y}
  <2>0. /\ x \in F /\ y = nx[x] /\ y # NULL /\ x + sz[x] = y
        /\ nx2[x] = nx[y] /\ sz2[x] = sz[x] + sz[y]
        /\ \A b \in (F \cup H) \ {x, y} : sz2[b] = sz[b]
        /\ \A b \in F \ {x, y} : nx2[b] = nx[b]
    BY <1>1 DEF Merges
  <2>1. Chain(F \ {y}, hd, nx2) /\ y \in F
    BY <2>0, ChainRemove
  <2>2. Tiling((F \cup H) \ {y}, sz2, n)
    <3> DEFINE A == F \cup H
    <3>1. /\ x \in A /\ y \in A /\ x + sz[x] = y /\ sz2[x] = sz[x] + sz[y]
          /\ \A b \in A \ {x, y} : sz2[b] = sz[b]
          /\ Tiling(A, sz, n)
      BY <2>0, <2>1
    <3> HIDE DEF A
    <3>2. Tiling(A \ {y}, sz2, n)
      BY <3>1, TilingMerge
    <3> QED
      BY <3>2 DEF A
  <2>3. (F \cup H) \ {y} = G \cup H
    BY <1>1, <2>1
  <2> QED
    BY <1>1, <2>1, <2>2, <2>3
<1>2. CASE Keeps(F, H, nx, sz, nx2, sz2) /\ G = F
  <2>1. G = F
    BY <1>2
  <2>2. Chain(F, hd, nx2)
    BY <1>2 DEF Chain, Keeps
  <2>3. Tiling(F \cup H, sz2, n)
    <3> DEFINE A == F \cup H
    <3>1. Tiling(A, sz, n) /\ \A b \in A : sz2[b] = sz[b]
      BY <1>2 DEF Keeps
    <3> HIDE DEF A
    <3>2. Tiling(A, sz2, n)
      BY <3>1 DEF Tiling
    <3> QED
      BY <3>2 DEF A
  <2> QED
    BY <2>1, <2>2, <2>3
<1> QED
  BY <1>1, <1>2

\* The block is linked into the list, merged to the right and to the left.
LEMMA KfreeHeapInv ==
  ASSUME HeapInv, NEW block \in held, kfree(block)
  PROVE  HeapInv'
<1> DEFINE F == FreeList
           new == block[1] - BLOCK_HEADER_SIZE
           H == Starts(held \ {block})
           prev == PrevBlock(new)
           next == NextBlock(new)
           right == Adjacent(new, next)
           left == Adjacent(prev, new)
           into == IF left THEN prev ELSE new
           merged == size[new] + (IF right THEN size[next] ELSE 0)
                               + (IF left THEN size[prev] ELSE 0)
           after == IF right THEN next_block[next] ELSE next
           dead == (IF right THEN {next} ELSE {}) \cup (IF left THEN {new} ELSE {})
           hd == block_list_head'
           F1 == F \cup {new}
           F2 == IF right THEN F1 \ {next} ELSE F1
           F3 == IF left THEN F2 \ {new} ELSE F2
<1>1. /\ hd = IF prev = NULL THEN new ELSE block_list_head
      /\ size' = [b \in Address |-> IF b \in dead THEN 0
                                    ELSE IF b = into THEN merged ELSE size[b]]
      /\ next_block' = [b \in Address |-> IF b \in dead THEN NULL
                                          ELSE IF b = into THEN after
                                          ELSE IF b = prev THEN new ELSE next_block[b]]
      /\ block_list_tail' \in {new, block_list_tail}
      /\ held' = held \ {block} /\ refused' = 0 /\ pages' = pages
  BY DEF kfree, kmalloc_coalesce
<1>2. /\ new \in Address /\ new \in Nat \ {0} /\ new \notin F /\ new \notin H /\ new # NULL
      /\ Starts(held) = H \cup {new} /\ Starts(held') = H
  BY <1>1, Freed DEF NULL
<1>3. /\ size \in [Address -> Nat] /\ next_block \in [Address -> Address \cup {NULL}]
      /\ pages \in 0..MaxPages /\ block_list_tail \in Address
      /\ F \subseteq Address /\ F \in SUBSET (Nat \ {0}) /\ H \subseteq Address /\ F \cap H = {}
      /\ NULL \notin Address
      /\ Chain(F, block_list_head, next_block) /\ Tiling(F1 \cup H, size, pages)
      /\ Coalesced(F, next_block, size)
  <2>1. F \cup Starts(held) = F1 \cup H
    BY <1>2
  <2>2. Tiling(F1 \cup H, size, pages) /\ F \cap Starts(held) = {}
    BY <2>1 DEF HeapInv, Given
  <2>3. F \subseteq Address /\ H \subseteq Address
    BY <2>2 DEF Tiling
  <2> QED
    BY <1>2, <2>2, <2>3, Pages DEF HeapInv, Types, NULL
<1>4. \/ prev = NULL /\ new < block_list_head /\ next = block_list_head /\ hd = new
      \/ /\ prev \in F /\ prev < new /\ prev # NULL /\ next = next_block[prev]
         /\ hd = block_list_head
         /\ next = NULL \/ next > new
  BY <1>1, <1>2, <1>3, Neighbours
<1>5. /\ prev = NULL \/ prev \in F
      /\ next = NULL \/ (next \in F /\ next # prev /\ next # new)
      /\ prev # new
  <2>1. block_list_head \in F /\ \A b \in F : next_block[b] # NULL => next_block[b] \in F /\ b < next_block[b]
    BY <1>3 DEF Chain
  <2>2. CASE prev = NULL
    BY <2>1, <2>2, <1>2, <1>3, <1>4
  <2>3. CASE prev # NULL
    <3>1. prev \in F /\ next = next_block[prev] /\ prev \in Nat /\ prev # new
      BY <2>3, <1>2, <1>3, <1>4
    <3>2. next # NULL => next \in F /\ prev < next
      BY <3>1, <2>1
    <3> QED
      BY <3>1, <3>2, <1>2, <1>3
  <2> QED
    BY <2>2, <2>3
<1>6. /\ right => next \in F /\ next # NULL /\ new + size[new] = next
      /\ left => prev \in F /\ prev # NULL /\ prev + size[prev] = new
      /\ right \in BOOLEAN /\ left \in BOOLEAN
      /\ ~right /\ next # NULL => new + size[new] # next
      /\ ~left /\ prev # NULL => prev + size[prev] # new
  BY <1>2, <1>5 DEF Adjacent
<1> DEFINE nx1 == [b \in Address |-> IF b = new THEN next ELSE IF b = prev THEN new ELSE next_block[b]]
           nx2 == [b \in Address |-> IF right /\ b = new THEN next_block[next] ELSE nx1[b]]
           sz2 == [b \in Address |-> IF right /\ b = new THEN size[new] + size[next] ELSE size[b]]
<1> HIDE DEF F, new, H, prev, next, right, left
\* linked
<1>7. Chain(F1, hd, nx1) /\ F1 \in SUBSET (Nat \ {0}) /\ F1 \cap H = {} /\ F1 \subseteq Address
  <2>1. nx1[new] = next /\ (prev \in F => nx1[prev] = new)
    BY <1>2, <1>3, <1>5
  <2>2. \A b \in F \ {prev} : nx1[b] = next_block[b]
    BY <1>2, <1>3
  <2> HIDE DEF nx1, hd
  <2>3. Chain(F1, hd, nx1)
    BY <2>1, <2>2, <1>2, <1>3, <1>4, ChainInsert
  <2> QED
    BY <2>3, <1>2, <1>3
\* merged to the right
<1>8. Chain(F2, hd, nx2) /\ Tiling(F2 \cup H, sz2, pages) /\ F2 \subseteq F1
  <2>1. ASSUME right
        PROVE  /\ new \in F1 /\ nx1[new] = next /\ next # NULL /\ new + size[new] = next
               /\ nx2[new] = nx1[next] /\ sz2[new] = size[new] + size[next]
               /\ \A b \in (F1 \cup H) \ {new, next} : sz2[b] = size[b]
               /\ \A b \in F1 \ {new, next} : nx2[b] = nx1[b]
    <3>1. next \in Address /\ next # new /\ next # prev
      BY <2>1, <1>3, <1>5, <1>6
    <3>2. nx1[new] = next /\ nx1[next] = next_block[next]
      BY <3>1, <1>2
    <3>3. nx2[new] = next_block[next] /\ sz2[new] = size[new] + size[next]
      BY <2>1, <1>2
    <3>4. \A b \in Address \ {new, next} : sz2[b] = size[b] /\ nx2[b] = nx1[b]
      BY <2>1
    <3> QED
      BY <3>2, <3>3, <3>4, <2>1, <1>3, <1>6, <1>7
  <2>2. ASSUME ~right
        PROVE  (\A b \in F1 \cup H : sz2[b] = size[b]) /\ (\A b \in F1 : nx2[b] = nx1[b])
    BY <2>2, <1>3, <1>7
  <2>3. F2 = IF right THEN F1 \ {next} ELSE F1
    OBVIOUS
  <2> HIDE DEF F1, F2, nx1, nx2, sz2, hd
  <2>4. \/ Merges(F1, H, nx1, size, nx2, sz2, new, next) /\ F2 = F1 \ {next}
        \/ Keeps(F1, H, nx1, size, nx2, sz2) /\ F2 = F1
    BY <2>1, <2>2, <2>3 DEF Merges, Keeps
  <2> QED
    BY <2>4, <1>3, <1>7, MergeOne
<1>9. F2 \in SUBSET (Nat \ {0}) /\ F2 \cap H = {} /\ F2 \subseteq Address /\ new \in F2
  BY <1>2, <1>5, <1>6, <1>7, <1>8
\* merged to the left
<1>10. ASSUME left
       PROVE  /\ prev \in F2 /\ nx2[prev] = new /\ new # NULL /\ prev + sz2[prev] = new
              /\ next_block'[prev] = nx2[new] /\ size'[prev] = sz2[prev] + sz2[new]
              /\ \A b \in (F2 \cup H) \ {prev, new} : size'[b] = sz2[b]
              /\ \A b \in F2 \ {prev, new} : next_block'[b] = nx2[b]
  <2>1. prev \in Address /\ new \in Address /\ prev # new /\ prev \in F /\ into = prev
    BY <1>10, <1>2, <1>3, <1>5, <1>6
  <2>2. right => next # prev /\ next # new
    BY <1>5, <1>6
  <2>3. nx2[prev] = new /\ sz2[prev] = size[prev] /\ prev + sz2[prev] = new
    BY <1>10, <2>1, <1>6
  <2>4. prev \in F2
    BY <2>1, <2>2
  <2>5. next_block'[prev] = after /\ size'[prev] = merged
    BY <2>1, <2>2, <1>1
  <2>6. nx2[new] = after
    BY <2>1
  <2>7. merged = sz2[prev] + sz2[new]
    <3>1. sz2[new] = size[new] + (IF right THEN size[next] ELSE 0)
      BY <2>1, <1>3
    <3>2. size[new] \in Nat /\ size[prev] \in Nat /\ (right => size[next] \in Nat)
      BY <2>1, <1>3, <1>6
    <3> HIDE DEF sz2
    <3> QED
      BY <3>1, <3>2, <2>3, <1>10
  <2>8. \A b \in Address \ {prev, new} : b \notin dead => size'[b] = sz2[b] /\ next_block'[b] = nx2[b]
    BY <2>1, <1>1
  <2>9. \A b \in (F2 \cup H) \ {prev, new} : b \in Address /\ b \notin dead
    BY <1>3, <1>6, <1>9
  <2> HIDE DEF sz2, nx2, F2
  <2> QED
    BY <2>1, <2>3, <2>4, <2>5, <2>6, <2>7, <2>8, <2>9, <1>2
<1>11. ASSUME ~left
       PROVE  (\A b \in F2 \cup H : size'[b] = sz2[b]) /\ (\A b \in F2 : next_block'[b] = nx2[b])
  <2>1. into = new /\ dead = IF right THEN {next} ELSE {}
    BY <1>11
  <2>2. \A b \in F2 \cup H : b \in Address /\ b \notin dead
    BY <2>1, <1>3, <1>6, <1>9
  <2>3. merged = size[new] + (IF right THEN size[next] ELSE 0)
    <3>1. size[new] \in Nat /\ (right => size[next] \in Nat)
      BY <1>2, <1>3, <1>6
    <3> QED
      BY <3>1, <1>11
  <2>4. sz2[new] = merged
    <3>1. size[new] \in Nat
      BY <1>2, <1>3
    <3> QED
      BY <3>1, <2>3, <1>2
  <2>5. nx2[new] = after
    BY <1>2
  <2>6. \A b \in Address \ {new} : b \notin dead => size'[b] = sz2[b] /\ next_block'[b] = nx2[b]
    BY <2>1, <1>1
  <2>7. size'[new] = merged /\ next_block'[new] = after
    BY <2>1, <2>2, <1>1, <1>2, <1>9
  <2> HIDE DEF sz2, nx2, F2
  <2> QED
    BY <2>2, <2>4, <2>5, <2>6, <2>7
<1>12. Chain(F3, hd, next_block') /\ Tiling(F3 \cup H, size', pages) /\ F3 \subseteq F2
  <2>1. F3 = IF left THEN F2 \ {new} ELSE F2
    OBVIOUS
  <2> HIDE DEF F2, F3, nx2, sz2, hd
  <2>2. \/ Merges(F2, H, nx2, sz2, next_block', size', prev, new) /\ F3 = F2 \ {new}
        \/ Keeps(F2, H, nx2, sz2, next_block', size') /\ F3 = F2
    BY <2>1, <1>10, <1>11 DEF Merges, Keeps
  <2> QED
    BY <2>2, <1>3, <1>8, <1>9, MergeOne
<1>13. Types'
  <2>1. size' \in [Address -> Nat]
    <3>1. merged \in Nat
      <4>1. /\ size[new] \in Nat /\ (right => size[next] \in Nat) /\ (left => size[prev] \in Nat)
        BY <1>2, <1>3, <1>6
      <4> QED
        BY <4>1
    <3> HIDE DEF merged, dead, into
    <3> QED
      BY <3>1, <1>1, <1>3
  <2>2. next_block' \in [Address -> Address \cup {NULL}]
    <3>1. after \in Address \cup {NULL} /\ new \in Address
      BY <1>2, <1>3, <1>5, <1>6
    <3> HIDE DEF after, dead, into
    <3> QED
      BY <3>1, <1>1, <1>3
  <2> QED
    BY <2>1, <2>2, <1>1, <1>2, <1>3 DEF Types
<1>14. FreeList' = F3
  <2> HIDE DEF F3
  <2> QED
    BY <1>1, <1>2, <1>12, <1>13, NewList
<1>15. Given(F3, held', size')
  <2>1. Given(FreeList, held, size)
    BY DEF HeapInv
  <2>2. F3 \cap Starts(held') = {}
    BY <1>2, <1>9, <1>12
  <2>3. ASSUME NEW h \in held'
        PROVE  h \in Nat \X Nat /\ size'[h[1] - BLOCK_HEADER_SIZE] = h[2] + BLOCK_HEADER_SIZE
    <3> DEFINE s == h[1] - BLOCK_HEADER_SIZE
    <3>1. h \in held /\ s \in H
      BY <1>1, <2>3 DEF Starts, H
    <3> HIDE DEF s
    <3>2. s \in Address /\ s # new /\ s \notin F /\ s \notin dead /\ s # into
      BY <3>1, <1>2, <1>3, <1>5, <1>6
    <3>3. size'[s] = size[s]
      BY <3>2, <1>1
    <3> QED
      BY <3>1, <3>3, <2>1 DEF Given, s
  <2> QED
    BY <2>2, <2>3 DEF Given
<1>16. Coalesced(F3, next_block', size')
  <2> SUFFICES ASSUME NEW c \in F3, next_block'[c] # NULL, c + size'[c] = next_block'[c]
               PROVE  \E k \in 0..MaxPages : next_block'[c] = Page(k)
    BY DEF Coalesced
  <2>0. c \in Address /\ c \in F1 /\ c \notin dead
    <3>1. c \in F2 /\ c \in F1
      BY <1>8, <1>12
    <3> QED
      BY <3>1, <1>7
  <2>1. CASE c = into
    <3>1. next_block'[c] = after /\ size'[c] = merged
      BY <2>0, <2>1, <1>1
    <3>2. c + merged = new + size[new] + (IF right THEN size[next] ELSE 0)
      <4>1. /\ size[new] \in Nat /\ (right => size[next] \in Nat) /\ (left => size[prev] \in Nat)
            /\ new \in Nat /\ (left => prev \in Nat)
        BY <1>2, <1>3, <1>6
      <4> QED
        BY <4>1, <2>1, <1>6
    <3>3. CASE right
      <4>1. c + merged = next + size[next]
        <5>1. size[new] \in Nat /\ size[next] \in Nat /\ new \in Nat
          BY <3>3, <1>2, <1>3, <1>6
        <5> HIDE DEF merged
        <5> QED
          BY <5>1, <3>2, <3>3, <1>6
      <4>2. next \in F /\ next_block[next] # NULL /\ next + size[next] = next_block[next]
        BY <4>1, <3>1, <3>3, <1>6
      <4> QED
        BY <4>2, <3>1, <3>3, <1>3 DEF Coalesced
    <3>4. CASE ~right
      <4>1. c + merged = new + size[new]
        <5>1. size[new] \in Nat /\ new \in Nat
          BY <1>2, <1>3
        <5> HIDE DEF merged
        <5> QED
          BY <5>1, <3>2, <3>4
      <4>2. after = next /\ next # NULL /\ new + size[new] = next
        BY <4>1, <3>1, <3>4
      <4> QED
        BY <4>2, <3>4, <1>6
    <3> QED
      BY <3>3, <3>4
  <2>2. CASE c = prev /\ c # into
    <3>1. ~left /\ prev # NULL
      BY <2>2, <2>0, <1>3
    <3>2. next_block'[c] = new /\ size'[c] = size[c]
      BY <2>0, <2>2, <1>1
    <3> QED
      BY <3>1, <3>2, <2>2, <1>6
  <2>3. CASE c # prev /\ c # into
    <3>1. next_block'[c] = next_block[c] /\ size'[c] = size[c]
      BY <2>0, <2>3, <1>1
    <3>2. c \in F
      BY <2>0, <2>3
    <3> QED
      BY <3>1, <3>2, <1>3 DEF Coalesced
  <2> QED
    BY <2>1, <2>2, <2>3
<1>17. RetrySucceeds'
  BY <1>1 DEF RetrySucceeds
<1> HIDE DEF F3
<1> QED
  BY <1>1, <1>2, <1>12, <1>13, <1>14, <1>15, <1>16, <1>17 DEF HeapInv

-----------------------------------------------------------------------------
(* The theorems *)

LEMMA NextIInv == IInv /\ [Next]_vars => IInv'
<1> SUFFICES ASSUME IInv, [Next]_vars PROVE IInv'
  OBVIOUS
<1>1. CASE UNCHANGED vars
  <2>1. block_list_head' = block_list_head /\ next_block' = next_block
    BY <1>1 DEF vars
  <2>2. FreeList' = FreeList
    BY <2>1, FreeListAfter, FreeListIsListing
  <2> QED
    BY <1>1, <2>2 DEF vars, IInv, HeapInv, Types, RetrySucceeds, Fits
<1>2. ASSUME NEW bytes \in Requests, kmalloc(bytes) PROVE IInv'
  <2>0. intact /\ HeapInv
    BY <1>2 DEF kmalloc, IInv
  <2>1. CASE /\ bytes = 0 /\ refused' = 0
             /\ UNCHANGED <<size, next_block, free_memory, block_list_head,
                            block_list_tail, pages, held, intact>>
    <3>1. FreeList' = FreeList
      BY <2>1, FreeListAfter, FreeListIsListing
    <3> QED
      BY <2>1, <3>1 DEF IInv, HeapInv, Types, RetrySucceeds
  <2>2. CASE bytes # 0
    <3>1. alloc_size(bytes) \in Nat \ {0}
      BY <2>2, Rounded
    <3>2. CASE Split(alloc_size(bytes))
      <4>1. HeapInv' /\ intact' = intact
        BY <2>0, <3>1, <3>2, SplitHeapInv DEF Split
      <4> QED
        BY <4>1 DEF IInv
    <3>3. CASE Whole(alloc_size(bytes))
      BY <3>3 DEF Whole, IInv
    <3>4. CASE Grow(alloc_size(bytes))
      <4>1. intact' \in BOOLEAN
        BY <3>4 DEF Grow
      <4>2. intact' => HeapInv'
        BY <2>0, <3>1, <3>4, GrowHeapInv
      <4> QED
        BY <4>1, <4>2 DEF IInv
    <3> QED
      BY <2>2, <3>2, <3>3, <3>4, <1>2 DEF kmalloc
  <2> QED
    BY <2>1, <2>2, <1>2 DEF kmalloc
<1>3. ASSUME NEW block \in held, kfree(block) PROVE IInv'
  <2>1. HeapInv /\ intact' = intact
    BY <1>3 DEF kfree, IInv
  <2>2. HeapInv'
    BY <1>3, <2>1, KfreeHeapInv
  <2> QED
    BY <2>1, <2>2 DEF IInv
<1> QED
  BY <1>1, <1>2, <1>3 DEF Next

\* The inductive invariant holds in every reachable state, whatever the order
\* of kmalloc and kfree.
THEOREM Invariant == Spec => []IInv
BY InitIInv, NextIInv, PTL DEF Spec

\* Every granule of the heap is in one free block or in one caller's block, and
\* in one only, until kmalloc takes a whole block or loses the tail: two free
\* blocks, two callers' blocks, and a free block and a caller's are disjoint.
THEOREM Partition == Spec => []HeapPartitioned
<1>1. ASSUME HeapInv PROVE HeapPartitioned
  <2> DEFINE A == FreeList \cup Starts(held)
  <2>0. Tiling(A, size, pages) /\ pages \in 0..MaxPages /\ Given(FreeList, held, size)
    BY <1>1 DEF HeapInv, Types
  <2>1. \A h \in held : /\ h[1] - BLOCK_HEADER_SIZE \in A
                        /\ HeldExtent(h) = FreeExtent(h[1] - BLOCK_HEADER_SIZE)
    BY <2>0 DEF Given, Starts, HeldExtent, FreeExtent
  <2>2. {FreeExtent(b) : b \in FreeList} \cup {HeldExtent(h) : h \in held}
          = {FreeExtent(b) : b \in A}
    <3>1. {HeldExtent(h) : h \in held} = {FreeExtent(b) : b \in Starts(held)}
      BY <2>1 DEF Starts
    <3> QED
      BY <3>1
  <2>3. HeapMemory = Heap(pages)
    BY DEF HeapMemory, Heap
  <2>4. \A b \in FreeList, h \in held : b \in A /\ b # h[1] - BLOCK_HEADER_SIZE
    BY <2>0 DEF Given, Starts
  <2>5. \A g, h \in held : g # h => g[1] - BLOCK_HEADER_SIZE # h[1] - BLOCK_HEADER_SIZE
    <3> SUFFICES ASSUME NEW g \in held, NEW h \in held,
                        g[1] - BLOCK_HEADER_SIZE = h[1] - BLOCK_HEADER_SIZE
                 PROVE  g = h
      OBVIOUS
    <3>1. /\ g \in Nat \X Nat /\ h \in Nat \X Nat
          /\ g[2] + BLOCK_HEADER_SIZE = h[2] + BLOCK_HEADER_SIZE
      BY <2>0 DEF Given
    <3>2. g[1] = h[1] /\ g[2] = h[2]
      BY <3>1, KmallocConstants
    <3> QED
      BY <3>1, <3>2
  <2> HIDE DEF A
  <2>6. UNION {FreeExtent(b) : b \in A} = Heap(pages)
    BY <2>0 DEF Tiling, FreeExtent
  <2>7. ASSUME NEW b \in A, NEW c \in A, b < c
        PROVE  FreeExtent(b) \cap FreeExtent(c) = {}
    <3>1. /\ b \in Nat /\ c \in Nat /\ size[b] \in Nat /\ size[c] \in Nat
          /\ b + size[b] <= c
      BY <2>0, <2>7, Tiles DEF Tiling
    <3> QED
      BY <3>1 DEF Extent, FreeExtent
  <2>8. \A b, c \in A : b # c => FreeExtent(b) \cap FreeExtent(c) = {}
    <3> SUFFICES ASSUME NEW b \in A, NEW c \in A, b # c
                 PROVE  FreeExtent(b) \cap FreeExtent(c) = {}
      OBVIOUS
    <3>1. b < c \/ c < b
      BY <2>0, Tiles
    <3> QED
      BY <3>1, <2>7
  <2>9. FreeList \subseteq A
    BY DEF A
  <2>10. \A b, c \in FreeList : b # c => FreeExtent(b) \cap FreeExtent(c) = {}
    BY <2>8, <2>9
  <2>11. \A g, h \in held : g # h => HeldExtent(g) \cap HeldExtent(h) = {}
    BY <2>1, <2>5, <2>8
  <2>12. \A b \in FreeList, h \in held : FreeExtent(b) \cap HeldExtent(h) = {}
    BY <2>1, <2>4, <2>8
  <2> QED
    BY <2>2, <2>3, <2>6, <2>10, <2>11, <2>12 DEF HeapPartitioned
<1>2. IInv => HeapPartitioned
  BY <1>1 DEF IInv, HeapPartitioned
<1> QED
  BY <1>2, Invariant, PTL

\* The list is in address order and no two neighbours that touch are left apart,
\* except where a page begins.
THEOREM Coalescing == Spec => []ListCoalesced
<1>1. IInv => ListCoalesced
  BY DEF IInv, HeapInv, ListCoalesced, Chain, Coalesced
<1> QED
  BY <1>1, Invariant, PTL

\* A request that was refused is granted when it is made again.
THEOREM Retry == Spec => []RetrySucceeds
<1>1. IInv => RetrySucceeds
  BY DEF IInv, HeapInv, RetrySucceeds
<1> QED
  BY <1>1, Invariant, PTL
=============================================================================

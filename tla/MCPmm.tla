------------------------------- MODULE MCPmm --------------------------------
(***************************************************************************)
(* Small memories for Pmm.  With pages of 4 bytes, words of 2 bits, a      *)
(* bitmap of 4 words and 7-bit addresses, the pool starts at address 12    *)
(* and the bitmap covers 8 pages.                                          *)
(***************************************************************************)
EXTENDS Pmm, Sequences

Region(available, from, to) == [available |-> available, addr |-> from, len |-> to - from]
Low == <<Region(TRUE, 0, 4), Region(FALSE, 4, 8)>>

\* One region above the low memory: 7 pages and a part of one, of which the
\* odd one is beyond the whole words.
OddPages  == Low \o <<Region(TRUE, 8, 42)>>
\* A reserved hole in the middle of the pool.
WithHole  == Low \o <<Region(TRUE, 8, 24), Region(FALSE, 24, 28), Region(TRUE, 28, 36)>>
\* 9 pages: line 163's product is 0.
NinePages == Low \o <<Region(TRUE, 8, 48), Region(FALSE, 48, 60)>>
\* More pages than the bitmap has bits.
TooLarge  == Low \o <<Region(TRUE, 8, 58)>>

MCMemMaps  == {OddPages, WithHole, NinePages, TooLarge}
MCModPages == {0, 1, 2}
=============================================================================

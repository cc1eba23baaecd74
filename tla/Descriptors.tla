----------------------------- MODULE Descriptors -----------------------------
(***************************************************************************)
(* The global descriptor table and the gates of the interrupt table: how   *)
(* the kernel packs them, and how the processor reads them.                *)
(*                                                                         *)
(* A byte has Byte values, so that addresses stay small; the access byte   *)
(* and the flags are bit fields of their real size.                        *)
(***************************************************************************)
EXTENDS Integers

CONSTANTS
  Byte,       \* values of a byte (256)
  TssRegion,  \* address of tss_region
  TssSize     \* sizeof(tss_region) (128)

Half == Byte * Byte   \* values of 16 bits

ASSUME DescriptorConstants ==
  /\ Byte \in Nat /\ Byte > 1
  /\ TssRegion \in 0..Half * Half - 1 /\ TssSize \in 0..Half - 1

GDT_KERNEL_CODE_SEG == 8
GDT_KERNEL_DATA_SEG == 16
GDT_TSS_SEG         == 24
GDT_USER_CODE_SEG   == 35
GDT_USER_DATA_SEG   == 43

-----------------------------------------------------------------------------
(* gdt.c *)

\* Fault: bits 16 to 23 of the base are not kept.
gdt_create_entry_cut(limit, base, access, flags) ==
  [segment_limit_1 |-> limit % Half,
   base_1          |-> base % Half,
   base_2          |-> 0,
   access_byte     |-> access,
   limit_and_flags |-> ((limit \div Half) % 16) + 16 * (flags % 16),
   base_3          |-> base \div (Byte * Half)]

gdt_create_entry(limit, base, access, flags) ==
  [segment_limit_1 |-> limit % Half,
   base_1          |-> base % Half,
   base_2          |-> (base \div Half) % Byte,
   access_byte     |-> access,
   limit_and_flags |-> ((limit \div Half) % 16) + 16 * (flags % 16),
   base_3          |-> base \div (Byte * Half)]

FullLimit == 16 * Half - 1   \* 0xFFFFF

\* Access bytes 0b10011010, 0b10010010, 0b10001001, 0b11111010, 0b11110010.
gdt_init ==
  [i \in 0..5 |->
    CASE i = 0 -> gdt_create_entry(0, 0, 0, 0)
      [] i = 1 -> gdt_create_entry(FullLimit, 0, 154, 12)
      [] i = 2 -> gdt_create_entry(FullLimit, 0, 146, 12)
      [] i = 3 -> gdt_create_entry(TssSize, TssRegion, 137, 0)
      [] i = 4 -> gdt_create_entry(FullLimit, 0, 250, 12)
      [] i = 5 -> gdt_create_entry(FullLimit, 0, 242, 12)]

\* gdt_descriptor.size: the size, where the processor expects size - 1.
gdt_size == 6 * 8

-----------------------------------------------------------------------------
(* The processor: fields of a descriptor *)

\* The bit of n that has weight w.
Bit(n, w) == (n \div w) % 2 = 1

Base(d)    == d.base_1 + d.base_2 * Half + d.base_3 * (Byte * Half)
Limit(d)   == d.segment_limit_1 + (d.limit_and_flags % 16) * Half
Flags(d)   == d.limit_and_flags \div 16
Present(d) == Bit(d.access_byte, 128)
Dpl(d)     == (d.access_byte \div 32) % 4
IsCode(d)  == Bit(d.access_byte, 16) /\ Bit(d.access_byte, 8)
IsData(d)  == Bit(d.access_byte, 16) /\ ~Bit(d.access_byte, 8)
IsTss(d)   == d.access_byte % 32 = 9

\* Selectors: index, table (1 is the local one, which nobody loads), RPL.
Rpl(sel)      == sel % 4
Entry(sel)    == sel \div 8
InTable(sel)  == ~Bit(sel, 4) /\ Entry(sel) * 8 + 7 <= gdt_size
NullSel(sel)  == sel < 4

\* What may be loaded into ds or es, and what iret may return to.
Loadable(gdt, sel, cpl) ==
  \/ NullSel(sel)
  \/ /\ InTable(sel)
     /\ LET d == gdt[Entry(sel)] IN
        /\ Present(d) /\ (IsData(d) \/ (IsCode(d) /\ Bit(d.access_byte, 2)))
        /\ Dpl(d) >= cpl /\ Dpl(d) >= Rpl(sel)

ReturnTarget(gdt, sel, cpl) ==
  /\ ~NullSel(sel) /\ InTable(sel)
  /\ LET d == gdt[Entry(sel)] IN
     Present(d) /\ IsCode(d) /\ Rpl(sel) >= cpl /\ Dpl(d) = Rpl(sel)

-----------------------------------------------------------------------------
(* Gates *)

\* idt_set_entry; the field zero is left 0.
idt_entry(handler, sel, flags) ==
  [offset_1 |-> handler % Half,
   offset_2 |-> (handler \div Half) % Half,
   selector |-> sel, flags |-> flags]

\* 0x8E: present, for ring 0, a 32-bit interrupt gate.
InterruptGate == 142
NoGate        == idt_entry(0, 0, 0)

Target(gate) == gate.offset_1 + gate.offset_2 * Half
=============================================================================

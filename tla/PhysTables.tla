----------------------------- MODULE PhysTables -----------------------------
(***************************************************************************)
(* Page tables in physical memory, as both backends see them: a table is a  *)
(* frame of Fan entries, read and written through the direct map.  `m` maps *)
(* every allocated table frame to its entries; a table frame outside        *)
(* DOMAIN m is free.  A virtual address is a page number, and 512 (the      *)
(* entries of a real table) is scaled to Fan.                               *)
(***************************************************************************)
EXTENDS Integers, Sequences, FiniteSetsExt, Functions, TLC

CONSTANTS
    Fan,            \* entries per table (512 in the code)
    TableFrames,    \* frames the allocator hands out for tables
    Gibs,           \* top-level slots the identity map fills (identity_bytes)
    RamBase,        \* first page of RAM: lower pages are devices on aarch64
    Ram,            \* data frames under the allocator
    Hhdm,           \* hhdm_offset: the direct map's first page
    KernelVbase,    \* kernel_vbase: first page of the kernel image
    KernelPhys,     \* kernel_phys: the frame that page is loaded at
    Section         \* section of each image page: "text" | "rodata" | "data"

ASSUME PagingAssumption ==
    /\ Fan \in Nat \ {0, 1}
    /\ Gibs \in 2 .. Fan
    /\ Ram \subseteq RamBase .. (Gibs * Fan^2 - 1)
    /\ TableFrames \cap (0 .. Gibs * Fan^2 - 1) = {}
    /\ Hhdm % Fan^3 = 0
    \* setup_kernel_paging refuses an image that needs a second leaf table
    /\ KernelVbase % Fan = 0 /\ Len(Section) =< Fan

Indices == 0 .. (Fan - 1)

\* An entry: the frame it names, its flag bits, and a small field (the
\* protection key on x86-64, the memory-attribute index on aarch64).
Entry(at, bits, attr) == [at |-> at, bits |-> bits, attr |-> attr]
Absent == Entry(0, {}, 0)
EmptyTable == [i \in Indices |-> Absent]

\* alloc_table: the n frames the next n allocations return, lowest first.
Fresh(m, n) ==
    LET got[k \in 0 .. n] ==
          IF k = 0 THEN <<>>
          ELSE Append(got[k - 1], Min(TableFrames \ (DOMAIN m \cup Range(got[k - 1]))))
    IN got[n]

\* memory::free_frames of table frames.
FreeTables(m, ts) == Restrict(m, DOMAIN m \ ts)

\* The entries of one table with entry i set and the others absent.
Single(i, e) == [EmptyTable EXCEPT ![i] = e]

\* phys_to_virt: the direct-map alias of a frame.
PhysToVirt(pa) == Hhdm + pa

\* section_prot: text runs, data is written, everything else is read only.
SectionProt(c) ==
    CASE Section[c + 1] = "text" -> "Rx"
      [] Section[c + 1] = "data" -> "Rw"
      [] OTHER -> "Ro"

=============================================================================

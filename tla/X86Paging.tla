----------------------------- MODULE X86Paging ------------------------------
(***************************************************************************)
(* The x86-64 backend (kernel/src/arch/x86_64/paging.rs): one root, the     *)
(* PML4, over PDPT, PD and PT.  Every operation takes the table memory m    *)
(* and the active address space and returns the memory it leaves.           *)
(***************************************************************************)
EXTENDS PhysTables

Idx(v, level) == (v \div Fan^level) % Fan

TableBits == {"PRESENT", "WRITABLE"}

LeafBits(prot) ==
    [Rx |-> {"PRESENT"}, Ro |-> {"PRESENT", "NX"},
     Rw |-> {"PRESENT", "WRITABLE", "NX"}][prot]

IsTable(e) == "PRESENT" \in e.bits /\ "HUGE" \notin e.bits

\* map_low: 2 MiB leaves, writable and never executable, under pml4[i].
MapLow(m, pml4, i) ==
    LET ts == Fresh(m, 1 + Gibs)
        gib(t) == CHOOSE g \in 0 .. (Gibs - 1) : ts[2 + g] = t
    IN [m EXCEPT ![pml4][i] = Entry(ts[1], TableBits, 0)]
       @@ (ts[1] :> [g \in Indices |-> IF g < Gibs THEN Entry(ts[2 + g], TableBits, 0)
                                       ELSE Absent])
       @@ [t \in Range(ts) \ {ts[1]} |->
             [j \in Indices |-> Entry(gib(t) * Fan^2 + j * Fan,
                                      TableBits \cup {"HUGE", "NX"}, 0)]]

\* map_kernel: the image in one PT, each page with its section's protection.
MapKernel(m, pml4) ==
    LET ts == Fresh(m, 3)
    IN [m EXCEPT ![pml4][Idx(KernelVbase, 3)] = Entry(ts[1], TableBits, 0)]
       @@ (ts[1] :> Single(Idx(KernelVbase, 2), Entry(ts[2], TableBits, 0)))
       @@ (ts[2] :> Single(Idx(KernelVbase, 1), Entry(ts[3], TableBits, 0)))
       @@ (ts[3] :> [c \in Indices |->
             IF c < Len(Section) THEN Entry(KernelPhys + c, LeafBits(SectionProt(c)), 0)
             ELSE Absent])

BuildAddressSpace(m) ==
    LET pml4 == Fresh(m, 1)[1]
        low  == MapLow(m @@ (pml4 :> EmptyTable), pml4, 0)
        high == MapLow(low, pml4, Idx(Hhdm, 3))
    IN [m |-> MapKernel(high, pml4), space |-> [primary |-> pml4, secondary |-> 0]]

\* The privatise loop of new_process_space: every leaf table already split
\* under the cloned window directory is cloned too.
PrivatiseNot(m, pd) == m
Privatise(m, pd) ==
    LET split == {i \in Indices : IsTable(m[pd][i])}
        pts   == Fresh(m, Cardinality(split))
        pt(i) == pts[Cardinality({j \in split : j =< i})]
    IN [m EXCEPT ![pd] = [i \in Indices |->
            IF i \in split THEN [m[pd][i] EXCEPT !.at = pt(i)] ELSE m[pd][i]]]
       @@ [t \in Range(pts) |-> m[m[pd][CHOOSE i \in split : pt(i) = t].at]]

\* new_process_space: clone the PML4, its low PDPT and the window's PD.
NewProcessSpace(m, kbase) ==
    LET ts == Fresh(m, 3)
        e0 == m[kbase.primary][0]
        e1 == m[e0.at][1]
        cloned == m @@ (ts[1] :> [m[kbase.primary] EXCEPT ![0].at = ts[2]])
                    @@ (ts[2] :> [m[e0.at] EXCEPT ![1].at = ts[3]])
                    @@ (ts[3] :> m[e1.at])
    IN [m |-> Privatise(cloned, ts[3]),
        space |-> [primary |-> ts[1], secondary |-> 0]]

\* The leaf tables reap_process_space frees: those split out of huge pages.
SplitTables(m, pd) == {m[pd][i].at : i \in {j \in Indices : IsTable(m[pd][j])}}

\* reap_process_space: the owned leaves' frames, the split leaf tables and the
\* three cloned tables; `freed` is the count the supervisor logs.
ReapProcessSpace(m, space, vas) ==
    LET pdpt == m[space.primary][0].at
        pd   == m[pdpt][1].at
        leaf(v) == m[m[pd][Idx(v, 1)].at][Idx(v, 0)]
        leaves == {v \in vas : IsTable(m[pd][Idx(v, 1)]) /\ "PRESENT" \in leaf(v).bits}
        tables == SplitTables(m, pd)
    IN [m |-> FreeTables(m, tables \cup {pd, pdpt, space.primary}),
        data |-> {leaf(v).at : v \in leaves},
        freed |-> Cardinality(leaves) + Cardinality(tables) + 3]

\* walk: the entries met from the PML4 down; a huge leaf repeats itself and an
\* absent entry stays absent.
Path(m, space, v) ==
    LET e4 == m[space.primary][Idx(v, 3)]
        below(e, level) == IF IsTable(e) THEN m[e.at][Idx(v, level)] ELSE e
        e3 == below(e4, 2)
        e2 == below(e3, 1)
    IN <<e4, e3, e2, below(e2, 0)>>

\* The offset a leaf leaves to the address: 0xfff, 0x1f_ffff or 0x3fff_ffff.
Offset(path, v) == IF ~IsTable(path[2]) THEN v % Fan^2
                   ELSE IF ~IsTable(path[3]) THEN v % Fan ELSE 0

\* translate and page_prot read the leaf alone.
Translate(m, space, v) ==
    LET path == Path(m, space, v)
    IN IF "PRESENT" \in path[4].bits THEN {path[4].at + Offset(path, v)} ELSE {}
PageProt(m, space, v) ==
    LET leaf == Path(m, space, v)[4]
    IN IF "PRESENT" \in leaf.bits
       THEN {[w |-> "WRITABLE" \in leaf.bits, x |-> "NX" \notin leaf.bits]} ELSE {}

\* What the processor grants: user mode needs USER, and a store WRITABLE, at
\* every level; NX at any level forbids execution.
Mmu(m, space, v) ==
    LET path == Path(m, space, v)
        all(b) == \A i \in 1 .. 4 : b \in path[i].bits
    IN [page |-> Translate(m, space, v), user |-> all("USER"), w |-> all("WRITABLE"),
        kx |-> \A i \in 1 .. 4 : "NX" \notin path[i].bits,
        ux |-> all("USER") /\ \A i \in 1 .. 4 : "NX" \notin path[i].bits,
        attr |-> path[4].attr]

\* The conditions ensure_pt and ensure_pt_user assert before they descend.
Descends(m, space, v) ==
    LET path == Path(m, space, v)
    IN IsTable(path[1]) /\ IsTable(path[2]) /\ "PRESENT" \in path[3].bits

\* The leaf table that replaces a 2 MiB leaf: the same pages, the same flags.
SplitLeaf(e) == [j \in Indices |-> Entry(e.at + j, e.bits \ {"HUGE"}, e.attr)]

EnsurePt(m, space, v) ==
    LET pd == m[m[space.primary][Idx(v, 3)].at][Idx(v, 2)].at
        e2 == m[pd][Idx(v, 1)]
        t  == Fresh(m, 1)[1]
    IN IF IsTable(e2) THEN [m |-> m, pt |-> e2.at]
       ELSE [m |-> [m EXCEPT ![pd][Idx(v, 1)] = Entry(t, TableBits, 0)] @@ (t :> SplitLeaf(e2)),
             pt |-> t]

\* ensure_pt_user: as ensure_pt, with USER set at each level above the leaf;
\* the split leaves stay supervisor.
EnsurePtUser(m, space, v) ==
    LET pdpt == m[space.primary][Idx(v, 3)].at
        up   == [m EXCEPT ![space.primary][Idx(v, 3)].bits = @ \cup {"USER"},
                          ![pdpt][Idx(v, 2)].bits = @ \cup {"USER"}]
        e    == EnsurePt(up, space, v)
    IN [e EXCEPT !.m = [@ EXCEPT ![m[pdpt][Idx(v, 2)].at][Idx(v, 1)].bits = @ \cup {"USER"}]]

InstallGuardPage(m, space, v) ==
    LET e == EnsurePt(m, space, v) IN [e.m EXCEPT ![e.pt][Idx(v, 0)] = Absent]

MapPage(m, space, v, pa, prot) ==
    LET e == EnsurePt(m, space, v)
    IN [e.m EXCEPT ![e.pt][Idx(v, 0)] = Entry(pa, LeafBits(prot), 0)]

MapUserPage(m, space, v, pa, prot, domain) ==
    LET e == EnsurePtUser(m, space, v)
    IN [e.m EXCEPT ![e.pt][Idx(v, 0)] = Entry(pa, LeafBits(prot) \cup {"USER"}, domain)]

\* build_domain_excluding: clone the active path to v, unmap v in the clone.
BuildDomainExcluding(m, space, v) ==
    LET ts == Fresh(m, 4)
        e4 == m[space.primary][Idx(v, 3)]
        e3 == m[e4.at][Idx(v, 2)]
        e2 == m[e3.at][Idx(v, 1)]
        pt == IF IsTable(e2) THEN m[e2.at] ELSE SplitLeaf(e2)
    IN [m |-> m @@ (ts[1] :> [m[space.primary] EXCEPT ![Idx(v, 3)].at = ts[2]])
                @@ (ts[2] :> [m[e4.at] EXCEPT ![Idx(v, 2)].at = ts[3]])
                @@ (ts[3] :> [m[e3.at] EXCEPT ![Idx(v, 1)] = Entry(ts[4], TableBits, 0)])
                @@ (ts[4] :> [pt EXCEPT ![Idx(v, 0)] = Absent]),
        root |-> ts[1]]

=============================================================================

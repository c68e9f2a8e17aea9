----------------------------- MODULE ArmPaging ------------------------------
(***************************************************************************)
(* The aarch64 backend (kernel/src/arch/aarch64/paging.rs): two roots,      *)
(* TTBR1 for the high half (primary) and TTBR0 for the low half             *)
(* (secondary), over L1, L2 and L3.  attr is the MAIR index.                *)
(***************************************************************************)
EXTENDS PhysTables

ATTR_NORMAL == 0
ATTR_DEVICE == 1
ATTR_TAGGED == 2

Lidx(v, level) == (v \div Fan^(3 - level)) % Fan

\* `TABLE` marks a table above level 3 and a page at level 3; `BLOCK` a block.
IsTable(e) == "TABLE" \in e.bits
Valid(e) == e.bits \cap {"TABLE", "BLOCK"} # {}
Table(at) == Entry(at, {"TABLE"}, 0)

\* current_root: bit 63 selects the root.
CurrentRoot(space, v) == IF v >= Fan^3 THEN space.primary ELSE space.secondary

PageDesc(pa, prot) ==
    Entry(pa, {"TABLE", "UXN"} \cup [Rx |-> {"AP_RO"}, Ro |-> {"AP_RO", "PXN"},
                                     Rw |-> {"PXN"}][prot], ATTR_NORMAL)

MapLow(m, l0, i) ==
    LET ts == Fresh(m, 1 + Gibs)
        gib(t) == CHOOSE g \in 0 .. (Gibs - 1) : ts[2 + g] = t
        block(pa) == Entry(pa, {"BLOCK", "PXN", "UXN"},
                           IF pa < RamBase THEN ATTR_DEVICE ELSE ATTR_NORMAL)
    IN [m EXCEPT ![l0][i] = Table(ts[1])]
       @@ (ts[1] :> [g \in Indices |-> IF g < Gibs THEN Table(ts[2 + g]) ELSE Absent])
       @@ [t \in Range(ts) \ {ts[1]} |-> [j \in Indices |-> block(gib(t) * Fan^2 + j * Fan)]]

MapKernel(m, l0) ==
    LET ts == Fresh(m, 3)
    IN [m EXCEPT ![l0][Lidx(KernelVbase, 0)] = Table(ts[1])]
       @@ (ts[1] :> Single(Lidx(KernelVbase, 1), Table(ts[2])))
       @@ (ts[2] :> Single(Lidx(KernelVbase, 2), Table(ts[3])))
       @@ (ts[3] :> [c \in Indices |-> IF c < Len(Section)
                                       THEN PageDesc(KernelPhys + c, SectionProt(c)) ELSE Absent])

BuildAddressSpace(m) ==
    LET ttbr0 == Fresh(m, 1)[1]
        low   == MapLow(m @@ (ttbr0 :> EmptyTable), ttbr0, 0)
        ttbr1 == Fresh(low, 1)[1]
        high  == MapLow(low @@ (ttbr1 :> EmptyTable), ttbr1, Lidx(Hhdm, 0))
    IN [m |-> MapKernel(high, ttbr1), space |-> [primary |-> ttbr1, secondary |-> ttbr0]]

\* The privatise loop of new_process_space.
Privatise(m, l2) ==
    LET split == {i \in Indices : IsTable(m[l2][i])}
        l3s   == Fresh(m, Cardinality(split))
        l3(i) == l3s[Cardinality({j \in split : j =< i})]
    IN [m EXCEPT ![l2] = [i \in Indices |->
            IF i \in split THEN [m[l2][i] EXCEPT !.at = l3(i)] ELSE m[l2][i]]]
       @@ [t \in Range(l3s) |-> m[m[l2][CHOOSE i \in split : l3(i) = t].at]]

\* new_process_space: a private low half; the high half is the kernel's own.
NewProcessSpace(m, kbase) ==
    LET ts == Fresh(m, 3)
        e0 == m[kbase.secondary][0]
        e1 == m[e0.at][1]
        cloned == m @@ (ts[1] :> [m[kbase.secondary] EXCEPT ![0].at = ts[2]])
                    @@ (ts[2] :> [m[e0.at] EXCEPT ![1].at = ts[3]])
                    @@ (ts[3] :> m[e1.at])
    IN [m |-> Privatise(cloned, ts[3]),
        space |-> [primary |-> kbase.primary, secondary |-> ts[1]]]

\* reap_process_space: the high half stays, and so does the alias of a leaf.
ReapProcessSpace(m, space, vas) ==
    LET l1 == m[space.secondary][0].at
        l2 == m[l1][1].at
        leaf(v) == m[m[l2][Lidx(v, 2)].at][Lidx(v, 3)]
        leaves == {v \in vas : IsTable(m[l2][Lidx(v, 2)]) /\ Valid(leaf(v))}
        tables == {m[l2][i].at : i \in {j \in Indices : IsTable(m[l2][j])}}
    IN [m |-> FreeTables(m, tables \cup {l2, l1, space.secondary}),
        data |-> {leaf(v).at : v \in leaves},
        freed |-> Cardinality(leaves) + Cardinality(tables) + 3]

Path(m, space, v) ==
    LET e0 == m[CurrentRoot(space, v)][Lidx(v, 0)]
        below(e, level) == IF IsTable(e) THEN m[e.at][Lidx(v, level)] ELSE e
        e1 == below(e0, 1)
        e2 == below(e1, 2)
    IN <<e0, e1, e2, below(e2, 3)>>

\* MASK: the offset a block or a page leaves to the address.
Offset(path, v) == IF ~IsTable(path[2]) THEN v % Fan^2
                   ELSE IF ~IsTable(path[3]) THEN v % Fan ELSE 0

Translate(m, space, v) ==
    LET path == Path(m, space, v)
    IN IF Valid(path[4]) THEN {path[4].at + Offset(path, v)} ELSE {}
PageProt(m, space, v) ==
    LET leaf == Path(m, space, v)[4]
    IN IF Valid(leaf) THEN {[w |-> "AP_RO" \notin leaf.bits, x |-> "PXN" \notin leaf.bits]} ELSE {}

\* What the processor grants: the leaf alone carries the permissions (tables
\* set no APTable or XNTable bit), and EL0 needs AP_EL0.
Mmu(m, space, v) ==
    LET leaf == Path(m, space, v)[4]
        user == "AP_EL0" \in leaf.bits
    IN [page |-> Translate(m, space, v), user |-> user,
        w |-> Valid(leaf) /\ "AP_RO" \notin leaf.bits,
        kx |-> Valid(leaf) /\ "PXN" \notin leaf.bits,
        ux |-> user /\ "UXN" \notin leaf.bits, attr |-> leaf.attr]

\* The conditions ensure_l3_table asserts.
Descends(m, space, v) ==
    LET path == Path(m, space, v) IN IsTable(path[1]) /\ IsTable(path[2]) /\ Valid(path[3])

\* The leaves that replace a block keep its attributes.
SplitBlockNormal(e) ==
    [j \in Indices |-> Entry(e.at + j, (e.bits \ {"BLOCK", "PXN"}) \cup {"TABLE"}, e.attr)]
SplitBlock(e) == [j \in Indices |-> Entry(e.at + j, (e.bits \ {"BLOCK"}) \cup {"TABLE"}, e.attr)]

EnsureL3Table(m, space, v) ==
    LET l2 == m[m[CurrentRoot(space, v)][Lidx(v, 0)].at][Lidx(v, 1)].at
        e2 == m[l2][Lidx(v, 2)]
        t  == Fresh(m, 1)[1]
    IN IF IsTable(e2) THEN [m |-> m, l3 |-> e2.at]
       ELSE [m |-> [m EXCEPT ![l2][Lidx(v, 2)] = Table(t)] @@ (t :> SplitBlock(e2)), l3 |-> t]

InstallGuardPage(m, space, v) ==
    LET e == EnsureL3Table(m, space, v) IN [e.m EXCEPT ![e.l3][Lidx(v, 3)] = Absent]

\* map_tagged: Normal-Tagged, read-write, never executable, the same frame.
MapTagged(m, space, v) ==
    LET e == EnsureL3Table(m, space, v)
    IN [e.m EXCEPT ![e.l3][Lidx(v, 3)] = Entry(@.at, {"TABLE", "UXN", "PXN"}, ATTR_TAGGED)]

MapPage(m, space, v, pa, prot) ==
    LET e == EnsureL3Table(m, space, v)
    IN [e.m EXCEPT ![e.l3][Lidx(v, 3)] = PageDesc(pa, prot)]

UserPageDesc(pa, prot) ==
    Entry(pa, {"TABLE", "AP_EL0", "PXN"} \cup [Rx |-> {"AP_RO"}, Ro |-> {"AP_RO", "UXN"},
                                               Rw |-> {"UXN"}][prot], ATTR_NORMAL)

\* map_user_page: in a non-zero domain the page and its direct-map alias are
\* both made Normal-Tagged.
MapUserPage(m, space, v, pa, prot, domain) ==
    LET e    == EnsureL3Table(m, space, v)
        desc == [UserPageDesc(pa, prot) EXCEPT !.attr = IF domain # 0 THEN ATTR_TAGGED ELSE @]
        m1   == [e.m EXCEPT ![e.l3][Lidx(v, 3)] = desc]
    IN IF domain # 0 THEN MapTagged(m1, space, PhysToVirt(pa)) ELSE m1

=============================================================================

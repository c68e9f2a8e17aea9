--------------------------- MODULE AddressSpaces ----------------------------
(***************************************************************************)
(* Address spaces from boot to the supervisor's restart: the kernel's base  *)
(* tables, the isolation self-test, the in-kernel loader demo, then one of  *)
(* the userspace demos (kernel/src/user/mod.rs), each process on a clone of *)
(* the base.  The boot task does all of this with preemption masked around  *)
(* every excursion off the kernel space; only a process's death happens in  *)
(* between.                                                                 *)
(***************************************************************************)
EXTENDS PhysTables

CONSTANTS
    Plans,          \* the demos: [demo, tasks], a task [segs, stack, domain]
    DemoVa,         \* where the in-kernel loader demo maps its segment
    SharedVa        \* SHARED_VA

VARIABLES
    arch,           \* "x86_64" or "aarch64": which backend is built in
    mem,            \* the allocated tables and their entries
    base,           \* kernel_space()
    cur,            \* the space in CR3 / TTBR0 + TTBR1
    ram,            \* free data frames
    stage,          \* "escape" | "domain" | "demo" | "run"
    plan,           \* the demo being run
    proc,           \* the tasks spawned so far, in order
    guards,         \* frames whose direct-map alias is a live guard page
    held,           \* data frames taken for good: victim, demo image, shared
    shared,         \* the shared region's frame, {} before it exists
    edited,         \* the spaces and addresses the last step set out to remap
    fatal           \* a boot check failed and the kernel halted

vars == <<arch, mem, base, cur, ram, stage, plan, proc, guards, held, shared, edited, fatal>>

X == INSTANCE X86Paging
A == INSTANCE ArmPaging

\* arch/mod.rs re-exports the backend the target selects.
X86 == arch = "x86_64"
MapPage(m, s, v, pa, prot) ==
    IF X86 THEN X!MapPage(m, s, v, pa, prot) ELSE A!MapPage(m, s, v, pa, prot)
MapUserPage(m, s, v, pa, prot, d) ==
    IF X86 THEN X!MapUserPage(m, s, v, pa, prot, d) ELSE A!MapUserPage(m, s, v, pa, prot, d)
InstallGuardPage(m, s, v) ==
    IF X86 THEN X!InstallGuardPage(m, s, v) ELSE A!InstallGuardPage(m, s, v)
Translate(m, s, v) == IF X86 THEN X!Translate(m, s, v) ELSE A!Translate(m, s, v)
PageProt(m, s, v) == IF X86 THEN X!PageProt(m, s, v) ELSE A!PageProt(m, s, v)
Descends(m, s, v) == IF X86 THEN X!Descends(m, s, v) ELSE A!Descends(m, s, v)
Mmu(m, s, v) == IF X86 THEN X!Mmu(m, s, v) ELSE A!Mmu(m, s, v)
IsTable(e) == IF X86 THEN X!IsTable(e) ELSE A!IsTable(e)

NoPlan == [demo |-> "none", tasks |-> <<>>]
Edit(ss, vs) == [spaces |-> ss, vas |-> vs]

Init ==
    /\ arch \in {"x86_64", "aarch64"}
    /\ LET built == IF X86 THEN X!BuildAddressSpace(<<>>) ELSE A!BuildAddressSpace(<<>>)
       IN mem = built.m /\ base = built.space
    /\ cur = base
    /\ ram = Ram
    /\ stage = "escape"
    /\ plan = NoPlan
    /\ proc = <<>>
    /\ guards = {}
    /\ held = {}
    /\ shared = {}
    /\ edited = Edit({base}, {})
    \* verify_wx, on the tables just activated
    /\ fatal = \E c \in 1 .. Len(Section) :
         PageProt(mem, cur, KernelVbase + c - 1)
           # {[w |-> Section[c] = "data", x |-> Section[c] = "text"]}

-----------------------------------------------------------------------------
\* isolation::run_escape_tests.

\* x86-64: unmap the victim's identity alias everywhere and its direct-map
\* alias in a cloned domain, and enter the domain.
EnterDomain(f) ==
    /\ X86 /\ stage = "escape" /\ f \in ram
    /\ LET d == X!BuildDomainExcluding(X!InstallGuardPage(mem, cur, f), cur, PhysToVirt(f))
       IN mem' = d.m /\ cur' = [primary |-> d.root, secondary |-> 0]
    /\ ram' = ram \ {f}
    /\ held' = held \cup {f}
    /\ stage' = "domain"
    /\ edited' = Edit({base}, {f})
    /\ fatal' = (fatal \/ ~Descends(mem, cur, f) \/ ~Descends(mem, cur, PhysToVirt(f)))
    /\ UNCHANGED <<arch, base, plan, proc, guards, shared>>

\* Both raw reads must fault in the domain, and the victim's data be there
\* again in the kernel's own space.
LeaveDomain ==
    /\ stage = "domain"
    /\ fatal' = (fatal \/ \E f \in held :
                    \/ Translate(mem, cur, PhysToVirt(f)) # {}
                    \/ Translate(mem, cur, f) # {}
                    \/ Translate(mem, base, PhysToVirt(f)) # {f})
    /\ cur' = base
    /\ stage' = "demo"
    /\ edited' = Edit({base}, {})
    /\ UNCHANGED <<arch, mem, base, ram, plan, proc, guards, held, shared>>

\* aarch64: tag the direct-map alias, unmap the identity alias; a foreign tag
\* faults on a tagged alias only.
EscapeTagged(f) ==
    /\ ~X86 /\ stage = "escape" /\ f \in ram
    /\ mem' = A!InstallGuardPage(A!MapTagged(mem, cur, PhysToVirt(f)), cur, f)
    /\ fatal' = (fatal \/ ~Descends(mem, cur, f) \/ ~Descends(mem, cur, PhysToVirt(f))
                       \/ A!Mmu(mem', cur, PhysToVirt(f)).attr # A!ATTR_TAGGED
                       \/ A!Translate(mem', cur, f) # {})
    /\ ram' = ram \ {f}
    /\ held' = held \cup {f}
    /\ stage' = "demo"
    /\ edited' = Edit({base}, {f, PhysToVirt(f)})
    /\ UNCHANGED <<arch, base, cur, plan, proc, guards, shared>>

\* loader::run maps a segment supervisor-only in the base window and leaves it.
DemoLoad(prot, p) ==
    /\ stage = "demo"
    /\ LET f == Min(ram)
       IN /\ mem' = MapPage(mem, cur, DemoVa, f, prot)
          /\ ram' = ram \ {f}
          /\ held' = held \cup {f}
    /\ fatal' = (fatal \/ ~Descends(mem, cur, DemoVa))
    /\ stage' = "run"
    /\ plan' = p
    /\ edited' = Edit({base}, {DemoVa})
    /\ UNCHANGED <<arch, base, cur, proc, guards, shared>>

-----------------------------------------------------------------------------
\* load_process and run_el0_process.

Task(p) == plan.tasks[p]
After(p, states) == p \in DOMAIN proc /\ proc[p].st \in states

\* When the boot task gets to task p: the bring-up blobs run one at a time;
\* ping and pong load together and evil when both are gone; the restart loads
\* the client once the server is spawned, and the server again once reaped.
Due(p) ==
    /\ stage = "run" /\ cur = base
    /\ p = Len(proc) + 1 /\ p =< Len(plan.tasks)
    /\ CASE plan.demo = "blobs"   -> \A q \in 1 .. p - 1 : proc[q].st = "dead"
         [] plan.demo = "shared"  -> p = 3 => \A q \in 1 .. 2 : proc[q].st = "dead"
         [] plan.demo = "restart" -> /\ p = 2 => After(1, {"live", "dead"})
                                     /\ p = 3 => After(1, {"reaped"})

Frames(m, free) == Cardinality(DOMAIN m) - Cardinality(free)

\* Clone the base and activate the clone.
NewSpace(p) ==
    /\ Due(p)
    /\ LET new == IF X86 THEN X!NewProcessSpace(mem, base) ELSE A!NewProcessSpace(mem, base)
       IN /\ mem' = new.m
          /\ cur' = new.space
          /\ proc' = Append(proc, [st |-> "loading", space |-> new.space, own |-> {},
                                   stack |-> 0, kstack |-> 0, win |-> "none",
                                   cost |-> Cardinality(DOMAIN new.m \ DOMAIN mem)])
    /\ edited' = Edit({base}, {})
    /\ UNCHANGED <<arch, base, ram, stage, plan, guards, held, shared, fatal>>

\* The frame a page of task p is given: both blobs run in the same two frames.
NextFrame(p, k) ==
    IF plan.demo = "blobs" /\ p = 2
    THEN (CHOOSE o \in proc[1].own : o.prot = (IF k = 0 THEN "Rw" ELSE "Rx")).page
    ELSE Min(ram)

\* map_user_page of one page of the process being loaded.
MapOwn(p, v, prot, k) ==
    LET f == NextFrame(p, k)
        m == MapUserPage(mem, cur, v, f, prot, Task(p).domain)
    IN /\ cur = proc[p].space
       /\ mem' = m
       /\ ram' = ram \ {f}
       /\ fatal' = (fatal \/ ~Descends(mem, cur, v) \/ ~Descends(mem, cur, PhysToVirt(f)))
       /\ edited' = Edit({cur}, {v} \cup (IF ~X86 /\ Task(p).domain # 0
                                        THEN {PhysToVirt(f)} ELSE {}))

\* The loader maps the next segment (its frame is the authority's Untyped's).
MapSegment(p) ==
    /\ After(p, {"loading"})
    /\ LET k == Cardinality(proc[p].own) + 1
       IN /\ k =< Len(Task(p).segs)
          /\ MapOwn(p, Task(p).segs[k].va, Task(p).segs[k].prot, k)
          /\ proc' = [proc EXCEPT
               ![p].own = @ \cup {[page |-> NextFrame(p, k), prot |-> Task(p).segs[k].prot]},
               ![p].cost = @ + Cardinality(DOMAIN mem' \ DOMAIN mem)]
    /\ UNCHANGED <<arch, base, cur, stage, plan, guards, held, shared>>

\* The stack page; back to the kernel space.  cost is the load's free-frame
\* delta: tables and this frame, not the segments, which the Untyped holds.
MapStack(p) ==
    /\ After(p, {"loading"})
    /\ Cardinality(proc[p].own) = Len(Task(p).segs)
    /\ MapOwn(p, Task(p).stack, "Rw", 0)
    /\ proc' = [proc EXCEPT
         ![p].own = @ \cup {[page |-> NextFrame(p, 0), prot |-> "Rw"]},
         ![p].stack = NextFrame(p, 0),
         ![p].st = "loaded",
         ![p].cost = @ + Cardinality(DOMAIN mem' \ DOMAIN mem) + 1]
    /\ cur' = base
    /\ UNCHANGED <<arch, base, stage, plan, guards, held, shared>>

\* The owner of the shared region writes it, every peer reads it.
SharedProt(p) == IF p = 1 THEN "Rw" ELSE "Ro"

\* setup_shared_region once ping and pong are loaded, and its repeat for evil;
\* assert_shared_ro then walks the peer's tables.
Share(peer) ==
    /\ plan.demo = "shared" /\ stage = "run" /\ cur = base
    /\ After(peer, {"loaded"}) /\ proc[peer].win = "none"
    /\ LET new   == IF shared = {} THEN {1, peer} ELSE {peer}
           f     == IF shared = {} THEN Min(ram) ELSE CHOOSE x \in shared : TRUE
           owned == IF shared = {}
                    THEN MapUserPage(mem, proc[1].space, SharedVa, f, SharedProt(1), 0)
                    ELSE mem
       IN /\ mem' = MapUserPage(owned, proc[peer].space, SharedVa, f, SharedProt(peer), 0)
          /\ shared' = {f}
          /\ ram' = ram \ {f}
          /\ held' = held \cup {f}
          /\ proc' = [p \in DOMAIN proc |->
                        IF p \in new THEN [proc[p] EXCEPT !.win = SharedProt(p)] ELSE proc[p]]
          /\ edited' = Edit({proc[p].space : p \in new}, {SharedVa})
          /\ fatal' = (fatal \/ \E x \in PageProt(mem', proc[peer].space, SharedVa) : x.w
                             \/ PageProt(mem', proc[peer].space, SharedVa) = {})
    /\ UNCHANGED <<arch, base, cur, stage, plan, guards>>

-----------------------------------------------------------------------------
\* spawn_inner, the end of a process, and the supervisor's reap.

Spawn(p) ==
    /\ stage = "run" /\ cur = base /\ After(p, {"loaded"})
    /\ plan.demo = "shared" => proc[p].win # "none"
    /\ LET k == Min(ram)
       IN /\ mem' = InstallGuardPage(mem, base, PhysToVirt(k))
          /\ ram' = ram \ {k}
          /\ guards' = guards \cup {k}
          /\ proc' = [proc EXCEPT ![p].st = "live", ![p].kstack = k]
          /\ edited' = Edit({base}, {PhysToVirt(k)})
          /\ fatal' = (fatal \/ ~Descends(mem, base, PhysToVirt(k)))
    /\ UNCHANGED <<arch, base, cur, stage, plan, held, shared>>

\* The process exits or is killed; its memory stays as it is.
Die(p) ==
    /\ cur = base /\ After(p, {"live"})
    /\ proc' = [proc EXCEPT ![p].st = "dead"]
    /\ edited' = Edit({base}, {})
    /\ UNCHANGED <<arch, mem, base, cur, ram, stage, plan, guards, held, shared, fatal>>

\* reap_finished: the guard's alias is restored before the block is freed.
RestoreAliasNot(m, k) == m
RestoreAlias(m, k) == MapPage(m, base, PhysToVirt(k), k, "Rw")

\* The leaves the dead process owns outright: its stack page, as its segments
\* belong to the loader's Untyped.
OwnedLeavesAll(p) == {Task(p).stack} \cup {Task(p).segs[k].va : k \in DOMAIN Task(p).segs}
OwnedLeaves(p) == {Task(p).stack}

\* The supervisor reaps the dead server and checks frame conservation.
Reap ==
    /\ plan.demo = "restart" /\ cur = base
    /\ After(1, {"dead"}) /\ After(2, {"live", "dead"})
    /\ LET p == proc[1]
           m == RestoreAlias(mem, p.kstack)
           r == IF X86 THEN X!ReapProcessSpace(m, p.space, OwnedLeaves(1))
                ELSE A!ReapProcessSpace(m, p.space, OwnedLeaves(1))
           free == ram \cup {p.kstack} \cup r.data
       IN /\ mem' = r.m
          /\ ram' = free
          /\ guards' = guards \ {p.kstack}
          /\ proc' = [proc EXCEPT ![1].st = "reaped"]
          /\ edited' = Edit({base}, {PhysToVirt(p.kstack)})
          /\ fatal' = (fatal \/ Frames(mem, ram) - Frames(r.m, free) # p.cost + 1)
    /\ UNCHANGED <<arch, base, cur, stage, plan, held, shared>>

Next ==
    /\ ~fatal
    /\ \/ \E f \in ram : EnterDomain(f)
       \/ LeaveDomain
       \/ \E f \in ram : EscapeTagged(f)
       \/ \E prot \in {"Rx", "Ro", "Rw"}, p \in Plans : DemoLoad(prot, p)
       \/ \E p \in 1 .. 3 : NewSpace(p)
       \/ \E p \in 1 .. 3 : MapSegment(p)
       \/ \E p \in 1 .. 3 : MapStack(p)
       \/ \E p \in 2 .. 3 : Share(p)
       \/ \E p \in 1 .. 3 : Spawn(p)
       \/ \E p \in 1 .. 3 : Die(p)
       \/ Reap

Spec == Init /\ [][Next]_vars

-----------------------------------------------------------------------------
Low == 0 .. (Gibs * Fan^2 - 1)
Vas == Low \cup {PhysToVirt(f) : f \in Low}
           \cup KernelVbase .. (KernelVbase + Len(Section) - 1)
Live == {p \in DOMAIN proc : proc[p].st # "reaped"}
Spaces == {base} \cup {proc[p].space : p \in Live}
View(s, v) == Mmu(mem, s, v)

\* Type correctness: every entry names a page of the mapped memory or a table
\* frame, and the free data frames are frames of RAM.
TypeOK ==
    /\ DOMAIN mem \subseteq TableFrames
    /\ \A t \in DOMAIN mem : \A i \in Indices :
         /\ mem[t][i].at \in Low \cup TableFrames
         /\ mem[t][i].attr \in 0 .. 15
    /\ ram \subseteq Ram /\ guards \subseteq Ram /\ held \subseteq Ram
    /\ stage \in {"escape", "domain", "demo", "run"}
    /\ fatal \in BOOLEAN

\* Isolation between processes (new_process_space, map_user_page): what user
\* mode reaches in a process's tables is a page of that process with exactly
\* the access it was mapped with, or the shared frame, writable by its owner
\* only; in the kernel's base tables it reaches nothing.  W^X (leaf_bits,
\* page_desc, section_prot): no address of any space is writable and executable
\* at either privilege, and the kernel image keeps its section protections.
Confined ==
    /\ \A v \in Vas : ~View(base, v).user
    /\ \A p \in Live : \A v \in Vas :
         LET a == View(proc[p].space, v)
         IN a.user =>
              \/ \E o \in proc[p].own : /\ a.page = {o.page}
                                        /\ a.w = (o.prot = "Rw") /\ a.ux = (o.prot = "Rx")
              \/ /\ a.page = shared /\ shared # {} /\ ~a.ux
                 /\ a.w = (proc[p].win = "Rw") /\ proc[p].win # "none"
    /\ \A s \in Spaces : \A v \in Vas : LET a == View(s, v) IN ~(a.w /\ (a.kx \/ a.ux))
    /\ \A s \in Spaces : \A c \in 1 .. Len(Section) :
         LET a == View(s, KernelVbase + c - 1)
         IN /\ a.page = {KernelPhys + c - 1} /\ ~a.user
            /\ a.w = (Section[c] = "data") /\ a.kx = (Section[c] = "text")

\* The kernel's view of memory (install_guard_page, map_tagged,
\* reap_finished): in every space the direct map shows each RAM frame at its
\* own address, read-write and not executable, except under a live guard; a
\* free frame is under no guard and no longer tagged.  Inside the domain of
\* build_domain_excluding everything is as in the kernel's space but the
\* victim's direct-map alias, which is gone there and only there.
DirectMapWhole ==
    /\ \A s \in Spaces : \A f \in Ram :
         LET a == View(s, PhysToVirt(f))
         IN /\ ~a.user
            /\ IF f \in guards THEN a.page = {}
               ELSE a.page = {f} /\ a.w /\ ~a.kx
            /\ f \in ram => f \notin guards /\ a.attr = 0
    /\ stage = "domain" =>
         \A f \in held : \A v \in Vas :
           IF v = PhysToVirt(f) THEN View(cur, v).page = {} ELSE View(cur, v) = View(base, v)

InUse(p) ==
    {o.page : o \in {x \in proc[p].own : proc[p].st # "reaped" \/ x.page # proc[p].stack}}
    \cup (IF proc[p].st \in {"live", "dead"} THEN {proc[p].kstack} ELSE {})
Kids(ts) == {e.at : e \in {x \in UNION {Range(mem[t]) : t \in ts} : IsTable(x)}}
Reach(roots) ==
    LET l1 == Kids(roots) l2 == Kids(l1) IN roots \cup l1 \cup l2 \cup Kids(l2)
Roots(s) == {s.primary, s.secondary} \ {0}
Private(s) ==
    LET root == IF X86 THEN s.primary ELSE s.secondary
        dir  == mem[mem[root][0].at][1].at
    IN {root, mem[root][0].at, dir} \cup Kids({dir})

\* Frames are neither lost nor handed out twice (ensure_pt, new_process_space,
\* reap_process_space).  The free data frames and those in use partition RAM
\* (segments of a reaped process stay with the loader's Untyped).  The
\* allocated tables are exactly those some space still reaches and the four the
\* x86-64 self-test keeps for good, and the tables of a process's window are
\* reached from it alone.  No boot check halts the kernel: verify_wx, the
\* escape probes, the assertions of the walks, assert_shared_ro, and the
\* supervisor's own check that a reap returns what load and spawn took.
FramesConserved ==
    LET used    == held \cup UNION {InUse(p) : p \in DOMAIN proc}
        reached == Reach(UNION {Roots(s) : s \in Spaces \cup {cur}})
    IN /\ TypeOK /\ ~fatal
       /\ ram \cap used = {}
       /\ ram \cup used = Ram
       /\ plan.demo # "blobs" => \A p, q \in DOMAIN proc : p # q => InUse(p) \cap InUse(q) = {}
       /\ reached \subseteq DOMAIN mem
       /\ Cardinality(DOMAIN mem \ reached) = IF X86 /\ stage \in {"demo", "run"} THEN 4 ELSE 0
       /\ \A s, t \in Spaces : s # t => Private(s) \cap Reach(Roots(t)) = {}

\* An edit changes what it was asked to change (ensure_pt splits, clones):
\* between two states the access a space gives to an address changes only at
\* an address the step remaps, and a low address only in the space remapped.
OnlyTargetChanges ==
    [][\A s \in Spaces \cap Spaces' : \A v \in Vas :
         Mmu(mem', s, v) # View(s, v) =>
           v \in edited'.vas /\ (v >= Fan^3 \/ s \in edited'.spaces)]_vars

=============================================================================

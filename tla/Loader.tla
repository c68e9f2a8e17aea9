-------------------------------- MODULE Loader --------------------------------
(***************************************************************************)
(* The process loader (src/kernel/src/loader/mod.rs) and the invocation     *)
(* dispatch a loaded process reaches the kernel through                     *)
(* (src/kernel/src/syscall.rs), composed with the capability spaces of      *)
(* CSpace and the image format of Pex.                                     *)
(*                                                                         *)
(* One authority, the space Auth, serves several loads, of different        *)
(* processes or of one process again, which share the scratch cursor.  A    *)
(* load is a sequence of capability operations; each of them may be         *)
(* refused, and the load then returns with what it did so far in place.     *)
(***************************************************************************)
EXTENDS CSpace, Sequences

CONSTANTS
  WordMax, HEADER_LEN, SEGMENT_LEN, MANIFEST_LEN, MAX_SEGMENTS, MAX_MANIFEST,
  PAGE, MAX_SEGMENT_PAGES,       \* of Pex
  Auth,                          \* the loader's space
  PROCESS_SLOTS,                 \* slots of a process's space
  L_SCRATCH,                     \* the first scratch slot of the authority
  PROC_VA_BASE, PROC_VA_END,     \* the window of process addresses
  SHARED_SLOT, NOTIF_SLOT,       \* where the kernel installs capabilities
  SharedPfn, NotifId,            \* the shared frame, the notification's id
  Elfs,                          \* the files mkpex is run on
  Inputs                         \* specifications encode is run on, and what
                                 \* befalls the image then: [spec, damage]

VARIABLES
  scratch,       \* the scratch cursor
  job,           \* the load in progress
  vm,            \* vm[p]: the page table of process p, within user addresses
  outcome        \* outcome[p]: what the last load of p returned

P == INSTANCE Pex

lvars == <<slots, nextObj, dirty, op, scratch, job, vm, outcome>>

Procs == Spaces \ {Auth}
L_UNTYPED  == 0
L_SCHED    == 1
L_ENDPOINT == 2
ARCH == "here"

ASSUME LoaderAssumption ==
  /\ Auth \in Spaces
  /\ {HEADER_LEN, SEGMENT_LEN, MANIFEST_LEN, PAGE} \subseteq Nat \ {0}
  /\ {MAX_SEGMENTS, MAX_MANIFEST, MAX_SEGMENT_PAGES, WordMax} \subseteq Nat
  /\ PROCESS_SLOTS \in 1 .. N
  /\ L_SCRATCH \in 3 .. N
  /\ {SHARED_SLOT, NOTIF_SLOT} \subseteq 0 .. PROCESS_SLOTS - 1
  /\ \A c \in Slots : (Boot[Auth][c].type = "Null") = (c \notin {L_UNTYPED, L_SCHED})
  /\ \A p \in Procs, c \in Slots : Boot[p][c] = EMPTY

-----------------------------------------------------------------------------
(* Images.                                                                 *)

Pages == 0 .. WordMax \div PAGE
Unmapped == [frame |-> NIL, prot |-> "None"]

(* An image whose byte, field or record d has been overwritten.             *)
Damaged(img, d) ==
  IF d.at = 0 THEN [img EXCEPT ![d.field] = d.value]
  ELSE [img EXCEPT !.segs = [i \in DOMAIN @ |->
          IF i = d.at THEN [@[i] EXCEPT ![d.field] = d.value] ELSE @[i]]]

Intact == [at |-> 0, field |-> "magic", value |-> TRUE]

(* The images that reach the loader: build_pex's, possibly damaged, and     *)
(* mkpex's.                                                                *)
Sources ==
  Inputs \cup {[spec |-> P!Mkpex(elf), damage |-> Intact] :
               elf \in {e \in Elfs : P!MkpexAccepts(e)}}

-----------------------------------------------------------------------------
(* Whether an operation on the authority is refused.                       *)

FreeSlots == {c \in Slots : ~IsLive(slots[Auth], c)}

RetypeRefused(pages, dest) ==
  \/ pages = 0
  \/ pages > Available(slots[Auth][L_UNTYPED])
  \/ dest \notin FreeSlots

SplitRefused(amount, dest) ==
  \/ amount = 0
  \/ amount > Remaining(slots[Auth][L_SCHED])
  \/ dest \notin FreeSlots

GrantRefused(src, p, dest, r, mode) ==
  \/ ~Grantable(slots[Auth][src], r, mode)
  \/ ~Vacates(slots[Auth], src, mode)
  \/ IsLive(slots[p], dest)

-----------------------------------------------------------------------------
(* load.                                                                   *)

NoJob == [phase |-> "idle"]

Return(res) ==
  /\ outcome' = [outcome EXCEPT ![job.proc] =
                   [res |-> res, image |-> job.image, budget |-> job.budget]]
  /\ job' = NoJob

(* authority: the Endpoint every process gets a derivation of.              *)
Authority ==
  /\ job.phase = "boot"
  /\ Retype(Auth, L_UNTYPED, "Endpoint", 1, 1, L_ENDPOINT)
  /\ job' = NoJob
  /\ UNCHANGED <<scratch, vm, outcome>>

(* The cursor a load starts from; the mutant starts over.                   *)
CursorReset == L_SCRATCH
Cursor == scratch

(* A load begins with an empty space and page table for p, and the parse.   *)
Begin(p, in) ==
  LET img == Damaged(P!Encode(in.spec), in.damage)
      res == P!Parse(img, ARCH)
      new == [phase |-> "segment", proc |-> p, in |-> in, image |-> img, i |-> 1,
              segFrames |-> <<>>, budget |-> 0]
  IN /\ job.phase = "idle"
     /\ scratch <= N                  \* bounds the loads after the last slot
     /\ P!Encodes(in.spec, U32Max)
     /\ outcome[p].res = "none"
     /\ scratch' = Cursor
     /\ IF res = "Ok"
        THEN job' = new /\ UNCHANGED outcome
        ELSE /\ job' = NoJob
             /\ outcome' = [outcome EXCEPT ![p] = [res |-> res, image |-> img, budget |-> 0]]
     /\ UNCHANGED <<slots, nextObj, dirty, op, vm>>

Seg == P!Segments(job.image)[job.i]
MoreSegments == job.phase = "segment" /\ job.i <= job.image.segCount

(* The window check.                                                       *)
InWindow(s) == s.vaddr >= PROC_VA_BASE /\ s.vaddr + s.memSize <= PROC_VA_END

SegmentRefused ==
  /\ MoreSegments
  /\ \/ ~InWindow(Seg) /\ Return("SegmentVaddrOutOfRange") /\ UNCHANGED scratch
     \/ /\ InWindow(Seg)
        /\ RetypeRefused(Seg.memSize \div PAGE, scratch)
        /\ Return("Cap")
        /\ scratch' = scratch + 1
  /\ UNCHANGED <<slots, nextObj, dirty, op, vm>>

SegmentRetype ==
  /\ MoreSegments
  /\ InWindow(Seg)
  /\ ~RetypeRefused(Seg.memSize \div PAGE, scratch)
  /\ Retype(Auth, L_UNTYPED, "Frame", Seg.memSize \div PAGE, 1, scratch)
  /\ scratch' = scratch + 1
  /\ job' = [job EXCEPT !.phase = "copy", !.segFrames = Append(@, scratch)]
  /\ UNCHANGED <<vm, outcome>>

(* perm_to_prot.                                                           *)
PermToProt(perm) == IF "X" \in perm THEN "Rx" ELSE IF "W" \in perm THEN "Rw" ELSE "Ro"

(* The page table with the frames from base on mapped at the segment's      *)
(* pages.                                                                  *)
MapSegment(t, s, base) ==
  [a \in Pages |-> IF a * PAGE \in s.vaddr .. s.vaddr + s.memSize - 1
                   THEN [frame |-> base + a - s.vaddr \div PAGE, prot |-> PermToProt(s.perm)]
                   ELSE t[a]]

(* The pages the copy of the file bytes touches, a partly filled one too.   *)
FilePages(s) == (s.fileSize + PAGE - 1) \div PAGE

(* The file bytes are copied, and the pages mapped.                         *)
SegmentMap ==
  LET base == slots[Auth][scratch - 1].objref
  IN /\ job.phase = "copy"
     /\ dirty' = dirty \cup (base .. base + FilePages(Seg) - 1)
     /\ vm' = [vm EXCEPT ![job.proc] = MapSegment(@, Seg, base)]
     /\ job' = [job EXCEPT !.phase = "segment", !.i = @ + 1]
     /\ UNCHANGED <<slots, nextObj, op, scratch, outcome>>

SegmentsDone ==
  /\ job.phase = "segment"
  /\ job.i > job.image.segCount
  /\ job' = [job EXCEPT !.phase = "manifest", !.i = 1]
  /\ UNCHANGED <<slots, nextObj, dirty, op, scratch, vm, outcome>>

-----------------------------------------------------------------------------
(* The manifest loop.                                                      *)

Ent == P!Manifest(job.image)[job.i]
MoreEntries == job.phase = "manifest" /\ job.i <= job.image.manCount

BadEntry(e) ==
  P!FirstError(<< <<e.dest >= PROCESS_SLOTS, "DestSlotOutOfRange">>,
                  <<~(e.rights \subseteq Rights), "BadRights">>,
                  <<e.type \notin {"SCHED", "ENDPOINT", "FRAME"}, "UnknownManifestType">>,
                  <<e.type = "FRAME" /\ e.param0 >= Len(job.segFrames), "BadSegmentRef">> >>)

EntryRefused ==
  /\ MoreEntries
  /\ BadEntry(Ent) # "Ok"
  /\ Return(BadEntry(Ent))
  /\ UNCHANGED <<slots, nextObj, dirty, op, scratch, vm>>

(* param0 as u32.                                                          *)
Amount(e) == e.param0 % (U32Max + 1)

EntrySplit ==
  /\ MoreEntries
  /\ BadEntry(Ent) = "Ok"
  /\ Ent.type = "SCHED"
  /\ scratch' = scratch + 1
  /\ \/ /\ SplitRefused(Amount(Ent), scratch)
        /\ Return("Cap")
        /\ UNCHANGED <<slots, nextObj, dirty, op>>
     \/ /\ ~SplitRefused(Amount(Ent), scratch)
        /\ Split(Auth, L_SCHED, scratch, Amount(Ent))
        /\ job' = [job EXCEPT !.phase = "grant"]
        /\ UNCHANGED outcome
  /\ UNCHANGED vm

(* The source slot and the mode of an entry's grant; the mutant takes the   *)
(* first segment's Frame.                                                  *)
SourceFirst(e) == CASE e.type = "SCHED" -> scratch - 1
                    [] e.type = "ENDPOINT" -> L_ENDPOINT
                    [] e.type = "FRAME" -> job.segFrames[1]
Source(e) == CASE e.type = "SCHED" -> scratch - 1
               [] e.type = "ENDPOINT" -> L_ENDPOINT
               [] e.type = "FRAME" -> job.segFrames[e.param0 + 1]

GrantModeOf(e) == IF e.type = "SCHED" THEN "Move" ELSE "Mint"

(* The rights the process is given.                                        *)
Given(e) == e.rights

EntryGrant ==
  /\ \/ MoreEntries /\ BadEntry(Ent) = "Ok" /\ Ent.type # "SCHED"
     \/ job.phase = "grant"
  /\ \/ /\ GrantRefused(Source(Ent), job.proc, Ent.dest, Given(Ent), GrantModeOf(Ent))
        /\ Return("Cap")
        /\ UNCHANGED <<slots, nextObj, dirty, op>>
     \/ /\ Grant(Auth, Source(Ent), job.proc, Ent.dest, Given(Ent), GrantModeOf(Ent))
        /\ job' = [job EXCEPT !.phase = "manifest", !.i = @ + 1,
                              !.budget = IF Ent.type = "SCHED" THEN Amount(Ent) ELSE @]
        /\ UNCHANGED outcome
  /\ UNCHANGED <<scratch, vm>>

Finish ==
  /\ job.phase = "manifest"
  /\ job.i > job.image.manCount
  /\ Return("Ok")
  /\ UNCHANGED <<slots, nextObj, dirty, op, scratch, vm>>

-----------------------------------------------------------------------------
(* What the kernel does with loaded processes.                             *)

Loaded(p) == outcome[p].res = "Ok"

Installed(p, c, e) == [slots[p] EXCEPT ![c] = e]

(* setup_shared_region: the owner's Frame and the peer's SharedRo.          *)
Share(owner, peer) ==
  /\ job.phase = "idle"
  /\ owner # peer /\ Loaded(owner) /\ Loaded(peer)
  /\ \A p \in Procs, c \in Slots : slots[p][c].type # "SharedRo"
  /\ slots' = [slots EXCEPT
                 ![owner] = Installed(owner, SHARED_SLOT, InstalledFrame(SharedPfn, 1, {"READ", "WRITE"})),
                 ![peer] = Installed(peer, SHARED_SLOT, InstalledSharedRo(SharedPfn, 1))]
  /\ UNCHANGED <<nextObj, dirty, op, scratch, job, vm, outcome>>

InstallNotification(p) ==
  /\ job.phase = "idle"
  /\ Loaded(p)
  /\ \A q \in Procs, c \in Slots : slots[q][c].type # "Notification"
  /\ slots' = [slots EXCEPT ![p] = Installed(p, NOTIF_SLOT, InstalledNotification(NotifId, {"WAIT"}))]
  /\ UNCHANGED <<nextObj, dirty, op, scratch, job, vm, outcome>>

(* The supervisor drops the space of a dead server and reaps its page       *)
(* table, before it loads the server again from the same authority.         *)
Discard(p) ==
  /\ job.phase = "idle"
  /\ Loaded(p)
  /\ slots' = [slots EXCEPT ![p] = [c \in Slots |-> EMPTY]]
  /\ vm' = [vm EXCEPT ![p] = [a \in Pages |-> Unmapped]]
  /\ outcome' = [outcome EXCEPT ![p] = [res |-> "none"]]
  /\ UNCHANGED <<nextObj, dirty, op, scratch, job>>

(* The type and the right an operation requires of the capability.          *)
Requires ==
  [FRAME_PROBE   |-> <<"Frame", "READ">>,
   ENDPOINT_SEND |-> <<"Endpoint", "SEND">>,
   DEBUG_EMIT    |-> <<"Endpoint", "SEND">>,
   PROC_EXIT     |-> <<"Endpoint", "SEND">>,
   ENDPOINT_CALL |-> <<"Endpoint", "SEND">>,
   ENDPOINT_RECV |-> <<"Endpoint", "RECV">>,
   SHARED_QUERY  |-> <<"SharedRo", "READ">>,
   NOTIFY_WAIT   |-> <<"Notification", "WAIT">>,
   NOTIFY_SIGNAL |-> <<"Notification", "SIGNAL">>]

(* invoke: whether the capability at cptr of the table t answers o.  The     *)
(* mutant looks at the rights alone.                                       *)
PermitsAnyType(e, o) == Requires[o][2] \in e.rights
Permits(e, o) == Requires[o][1] = e.type /\ Requires[o][2] \in e.rights

Invoke(t, cptr, o) ==
  CASE cptr >= PROCESS_SLOTS -> "BadCptr"
    [] cptr < PROCESS_SLOTS /\ ~IsLive(t, cptr) -> "EmptySlot"
    [] cptr < PROCESS_SLOTS /\ IsLive(t, cptr) ->
         IF o = "CAP_IDENTIFY" THEN "Ok"
         ELSE IF o \notin DOMAIN Requires THEN "UnknownOp"
         ELSE IF Permits(t[cptr], o) THEN "Ok"
         ELSE IF Requires[o][1] # t[cptr].type THEN "WrongType"
         ELSE "InsufficientRights"

-----------------------------------------------------------------------------
(* The authority's memory was used before.                                 *)
LoaderInit ==
  /\ slots = Boot
  /\ nextObj = [s \in Spaces |-> IF s = Auth THEN 2 ELSE 1]
  /\ dirty = FramesOf(Boot[Auth][L_UNTYPED])
  /\ op = Idle
  /\ scratch = L_SCRATCH
  /\ job = [phase |-> "boot"]
  /\ vm = [p \in Procs |-> [a \in Pages |-> Unmapped]]
  /\ outcome = [p \in Procs |-> [res |-> "none"]]

LoadStep ==
  \/ SegmentRefused
  \/ SegmentRetype
  \/ SegmentMap
  \/ SegmentsDone
  \/ EntryRefused
  \/ EntrySplit
  \/ EntryGrant
  \/ Finish

LoaderNext ==
  \/ Authority
  \/ \E p \in Procs, in \in Sources : Begin(p, in)
  \/ LoadStep
  \/ \E owner, peer \in Procs : Share(owner, peer)
  \/ \E p \in Procs : InstallNotification(p) \/ Discard(p)

LoaderSpec == LoaderInit /\ [][LoaderNext]_lvars

-----------------------------------------------------------------------------
(* Properties.                                                             *)

Phases == {"boot", "idle", "segment", "copy", "manifest", "grant"}

(* The tables stay well formed, and a load in progress is at an index of    *)
(* its image.                                                              *)
LoaderTypeOK ==
  /\ TypeOK
  /\ scratch \in Nat
  /\ job.phase \in Phases
  /\ job.phase \in {"segment", "copy"} => job.i \in 1 .. job.image.segCount + 1
  /\ job.phase \in {"manifest", "grant"} => job.i \in 1 .. job.image.manCount + 1
  /\ vm \in [Procs -> [Pages -> [frame: Nat \cup {NIL}, prot: {"None", "Ro", "Rw", "Rx"}]]]

(* Every image that Pex::parse accepts is one its consumers can use without *)
(* reading outside the buffer, mapping a page that is writable and          *)
(* executable, or entering at an address no executable segment holds:       *)
(* "this never panics and never reads out of bounds, for any input".        *)
ParseSafe ==
  /\ job.phase \notin {"boot", "idle"} => P!Usable(job.image)
  /\ \A p \in Procs : Loaded(p) => P!Usable(outcome[p].image)

(* An ELF file a linker script lays out the way mkpex expects.              *)
WellLinked(elf) ==
  /\ elf.arch = ARCH
  /\ \A i \in DOMAIN elf.segs :
       LET s == elf.segs[i]
       IN  /\ Len(s.data) <= s.memsz /\ s.memsz <= MAX_SEGMENT_PAGES * PAGE
           /\ ~P!BadPerm(s.flags)
           /\ s.vaddr % PAGE = 0
           /\ s.vaddr >= PROC_VA_BASE /\ s.vaddr + s.memsz <= PROC_VA_END
  /\ \E i \in DOMAIN elf.segs :
       LET s == elf.segs[i]
       IN  "X" \in s.flags /\ elf.entry \in s.vaddr .. s.vaddr + s.memsz - 1

(* An image nothing has happened to since encode wrote it reads back as the *)
(* specification it was written from, segment bytes included.  What mkpex   *)
(* writes from an ELF file whose segments are page-aligned, in the window,  *)
(* of valid permissions and hold the entry point is accepted, and a load    *)
(* leaves room for every byte the ELF asks for.                            *)
RoundTrip ==
  /\ job.phase \notin {"boot", "idle"} /\ job.in.damage = Intact =>
       LET img == job.image
       IN  /\ Len(img.bytes) = img.total
           /\ P!Manifest(img) = job.in.spec.man
           /\ \A i \in DOMAIN job.in.spec.segs :
                LET s == job.in.spec.segs[i]
                IN  /\ P!SegmentData(img, P!Segments(img)[i]) = s.data
                    /\ P!Segments(img)[i].vaddr = s.vaddr
                    /\ P!Segments(img)[i].memSize = s.memSize
  /\ \A p \in Procs, elf \in Elfs :
       /\ WellLinked(elf)
       /\ outcome[p].res # "none"
       /\ outcome[p].image = P!Encode(P!Mkpex(elf))
       => /\ outcome[p].res \in {"Ok", "Cap"}
          /\ Loaded(p) => \A i \in DOMAIN elf.segs :
               \A a \in elf.segs[i].vaddr .. elf.segs[i].vaddr + elf.segs[i].memsz - 1 :
                 vm[p][a \div PAGE] # Unmapped

(* The capabilities of a loaded process: its manifest's, and what the       *)
(* kernel installs.                                                        *)
Declares(img, c, type, r) ==
  \E i \in DOMAIN P!Manifest(img) :
    LET e == P!Manifest(img)[i]
    IN  /\ e.dest = c /\ r = e.rights
        /\ <<e.type, type>> \in {<<"SCHED", "Sched">>, <<"ENDPOINT", "Endpoint">>, <<"FRAME", "Frame">>}

KernelGives(c, type, r) ==
  \/ c = SHARED_SLOT /\ <<type, r>> \in {<<"Frame", {"READ", "WRITE"}>>, <<"SharedRo", {"READ"}>>}
  \/ c = NOTIF_SLOT /\ <<type, r>> = <<"Notification", {"WAIT"}>>

(* A successful load gives the process exactly the capabilities of its      *)
(* manifest, each with the declared rights: every entry is there, nothing   *)
(* else is, and neither later loads from the same authority nor a shared    *)
(* region change that ("On success `proc` holds exactly the manifest's      *)
(* capabilities").  A Sched has the CPU time asked for, as a u32, and the   *)
(* budget that Loaded reports is the one of a Sched the process holds.      *)
(* Whatever the process invokes, at any slot, succeeds only with a type and  *)
(* a right that its manifest or the kernel gave that slot.                  *)
NoAmbientAuthority ==
  \A p \in Procs : Loaded(p) =>
    LET img == outcome[p].image
        has(c, type, r) == Declares(img, c, type, r) \/ KernelGives(c, type, r)
    IN
    /\ \A c \in Slots : IsLive(slots[p], c) => has(c, slots[p][c].type, slots[p][c].rights)
    /\ \A i \in DOMAIN P!Manifest(img) :
         LET e == P!Manifest(img)[i]
         IN  /\ IsLive(slots[p], e.dest)
             /\ e.type = "SCHED" => Remaining(slots[p][e.dest]) = Amount(e)
    /\ outcome[p].budget \in {0} \cup {Remaining(slots[p][c]) :
                                        c \in {d \in Slots : slots[p][d].type = "Sched"}}
    /\ \A c \in 0 .. N, o \in DOMAIN Requires : Invoke(slots[p], c, o) = "Ok" =>
         Requires[o][2] \in slots[p][c].rights /\ has(c, Requires[o][1], slots[p][c].rights)

(* Segments stay in the process window, on frames of their own: no frame is *)
(* mapped twice, in one process or in two, and each mapped frame belongs to *)
(* a Frame capability the loader retyped for a segment.  The scratch cursor  *)
(* is always at a free slot with free slots above it, also after a load that *)
(* failed ("each load must use fresh slots"), and the tables and the load in *)
(* progress stay well formed (LoaderTypeOK).                               *)
SegmentsApart ==
  /\ LoaderTypeOK
  /\ \A c \in Slots : c >= scratch => ~IsLive(slots[Auth], c)
  /\ \A p \in Procs, a \in Pages : vm[p][a] # Unmapped =>
       /\ a * PAGE \in PROC_VA_BASE .. PROC_VA_END - 1
       /\ \E c \in L_SCRATCH .. N - 1 : slots[Auth][c].type = "Frame"
                                     /\ vm[p][a].frame \in FramesOf(slots[Auth][c])
  /\ \A p, q \in Procs, a, b \in Pages :
       vm[p][a] # Unmapped /\ vm[p][a].frame = vm[q][b].frame => p = q /\ a = b

(* The last segment to be mapped at an address.                            *)
TopSegment(img, va) ==
  P!Segments(img)[Max({i \in DOMAIN P!Segments(img) :
     va \in P!Segments(img)[i].vaddr .. P!Segments(img)[i].vaddr + P!Segments(img)[i].memSize - 1})]

(* The memory of a loaded process is its image.  A page holds data exactly  *)
(* where its segment has file bytes and is zero behind them, although the   *)
(* frames were used before and other loads run from the same Untyped; the   *)
(* entry point lies on an executable page; and a Frame the manifest asks    *)
(* for is the very memory of the segment it names.  Where segments overlap, *)
(* which the parser does not refuse, the last one counts.                  *)
ImageLoaded ==
  \A p \in Procs : Loaded(p) =>
    LET img == outcome[p].image
        in(s) == {a \in Pages : a * PAGE \in s.vaddr .. s.vaddr + s.memSize - 1}
    IN
    /\ \A a \in Pages : vm[p][a] # Unmapped =>
         LET s == TopSegment(img, a * PAGE)
         IN  (vm[p][a].frame \in dirty) <=> a * PAGE < s.vaddr + s.fileSize
    /\ "X" \in TopSegment(img, img.entry).perm => vm[p][img.entry \div PAGE].prot = "Rx"
    /\ \A k \in DOMAIN P!Manifest(img) :
         LET e == P!Manifest(img)[k]
             s == P!Segments(img)[e.param0 + 1]
         IN  /\ e.type = "FRAME"
             /\ \A j \in e.param0 + 2 .. img.segCount : in(P!Segments(img)[j]) \cap in(s) = {}
             => FramesOf(slots[p][e.dest]) = {vm[p][a].frame : a \in in(s)}

(* A load changes the space of no other process and, in the authority, only *)
(* slots from the scratch cursor on, the watermark and the Sched budget.    *)
(* Loads conserve CPU time, failed ones included: what a refused grant      *)
(* leaves behind is still a Sched of the authority.  Only dropping the      *)
(* space of a dead process, which no code empties first, takes its budget.  *)
LoadsConserve ==
  [][/\ \/ TotalBudget' = TotalBudget
        \/ \E p \in Procs : outcome[p].res # "none" /\ outcome'[p].res = "none"
     /\ job.phase \notin {"boot", "idle"} =>
          /\ \A p \in Procs \ {job.proc} : slots'[p] = slots[p] /\ vm'[p] = vm[p]
          /\ \A c \in Slots : c < scratch - 1 =>
               slots'[Auth][c] = [slots[Auth][c] EXCEPT !.wm = slots'[Auth][c].wm,
                                                       !.size = slots'[Auth][c].size]]_lvars
=============================================================================

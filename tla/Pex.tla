--------------------------------- MODULE Pex ---------------------------------
(***************************************************************************)
(* The .pex image format: the parser (src/abi/src/pex.rs), the encoder      *)
(* (src/abi/src/encode.rs) and the packager that turns an ELF file into an  *)
(* image (src/tools/src/mkpex.rs).                                         *)
(*                                                                         *)
(* An image is a record of the header fields, the records found at the two  *)
(* table offsets, and the bytes.  Addresses and sizes keep their widths     *)
(* (u32 and u64, scaled down), so that the sums the parser checks can       *)
(* overflow; permission bits and rights are sets, "?" an unknown bit.       *)
(***************************************************************************)
EXTENDS Integers, SequencesExt

CONSTANTS
  U32Max, WordMax,                       \* the largest u32 and u64
  HEADER_LEN, SEGMENT_LEN, MANIFEST_LEN, \* lengths of the wire records
  MAX_SEGMENTS, MAX_MANIFEST,            \* the most records of a table
  PAGE, MAX_SEGMENT_PAGES                \* bytes of a page, pages of a segment

-----------------------------------------------------------------------------
(* Parsing.  A check is a condition that fails the parse and its error; the *)
(* parser returns the error of the first one that holds.                   *)

FirstError(checks) ==
  LET failed == {k \in DOMAIN checks : checks[k][1]}
  IN  IF failed = {} THEN "Ok" ELSE checks[Min(failed)][2]

(* table_fits, and a check of the start alone.                             *)
TableFitsStart(total, off, count, recLen) == off <= total
TableFits(total, off, count, recLen) == off + count * recLen <= total

(* The header, and the tables it places.                                   *)
HeaderChecks(img, arch) ==
  LET len == Len(img.bytes)
  IN  << <<len < HEADER_LEN, "TooShort">>,
         <<~img.magic, "BadMagic">>,
         <<~img.version, "BadVersion">>,
         <<img.arch # arch, "ArchMismatch">>,
         <<img.total # len, "LenMismatch">>,
         <<img.reserved # 0, "ReservedNonZero">>,
         <<img.segCount > MAX_SEGMENTS \/ img.manCount > MAX_MANIFEST, "TooManyRecords">>,
         <<\/ ~TableFits(len, img.segOff, img.segCount, SEGMENT_LEN)
           \/ ~TableFits(len, img.manOff, img.manCount, MANIFEST_LEN), "TableOutOfBounds">>,
         <<img.integLen # 0 /\ img.integOff + img.integLen > len, "TableOutOfBounds">> >>

(* validate_perm.                                                          *)
BadPerm(perm) == ~(perm \subseteq {"R", "W", "X"}) \/ "R" \notin perm \/ {"W", "X"} \subseteq perm

(* One turn of the segment loop.                                           *)
SegmentChecks(img, s) ==
  << <<BadPerm(s.perm), "BadPermission">>,
     <<s.vaddr % PAGE # 0 \/ s.memSize % PAGE # 0, "Unaligned">>,
     <<s.fileSize > s.memSize, "BadMemSize">>,
     <<s.memSize \div PAGE > MAX_SEGMENT_PAGES, "SegmentTooLarge">>,
     <<s.fileOff + s.fileSize > Len(img.bytes), "SegmentOutOfBounds">>,
     <<s.vaddr + s.memSize > WordMax, "Unaligned">> >>

(* Whether the entry point lies in the executable segment s.                *)
HoldsEntry(s, entry) == "X" \in s.perm /\ s.vaddr <= entry /\ entry < s.vaddr + s.memSize

Segments(img) == SubSeq(img.segs, 1, img.segCount)
Manifest(img) == SubSeq(img.mans, 1, img.manCount)

Parse(img, arch) ==
  LET header == FirstError(HeaderChecks(img, arch))
      segs   == Segments(img)
  IN  IF header # "Ok" THEN header
      ELSE FirstError(FlattenSeq([i \in DOMAIN segs |-> SegmentChecks(img, segs[i])])
                      \o << <<\A i \in DOMAIN segs : ~HoldsEntry(segs[i], img.entry),
                              "EntryNotExecutable">> >>)

(* segment_data: the file bytes of a segment.                              *)
SegmentData(img, s) == SubSeq(img.bytes, s.fileOff + 1, s.fileOff + s.fileSize)

-----------------------------------------------------------------------------
(* Encoding.  A specification names the segments with their bytes, and the  *)
(* manifest.                                                               *)

DataOf(spec) == FlattenSeq([i \in DOMAIN spec.segs |-> spec.segs[i].data])

(* encoded_len, which is None when a count exceeds the limits.              *)
WithinLimits(spec) == Len(spec.segs) <= MAX_SEGMENTS /\ Len(spec.man) <= MAX_MANIFEST

TablesLen(spec) ==
  HEADER_LEN + Len(spec.segs) * SEGMENT_LEN + Len(spec.man) * MANIFEST_LEN

EncodedLen(spec) == TablesLen(spec) + Len(DataOf(spec))

Encodes(spec, room) ==
  WithinLimits(spec) /\ EncodedLen(spec) <= room /\ EncodedLen(spec) <= U32Max

(* data_cursor at segment i; the mutant does not advance it.                *)
DataCursorStuck(spec, i) == TablesLen(spec)
DataCursor(spec, i) ==
  TablesLen(spec) + Len(DataOf([spec EXCEPT !.segs = SubSeq(@, 1, i - 1)]))

EncodeSegment(spec, i) ==
  LET s == spec.segs[i]
  IN  [fileOff |-> DataCursor(spec, i), fileSize |-> Len(s.data), vaddr |-> s.vaddr,
       memSize |-> s.memSize, perm |-> s.perm]

Encode(spec) ==
  [magic |-> TRUE, version |-> TRUE, arch |-> spec.arch, entry |-> spec.entry,
   total |-> EncodedLen(spec), reserved |-> 0,
   segOff |-> HEADER_LEN, segCount |-> Len(spec.segs),
   manOff |-> HEADER_LEN + Len(spec.segs) * SEGMENT_LEN, manCount |-> Len(spec.man),
   integOff |-> 0, integLen |-> 0,
   segs |-> [i \in DOMAIN spec.segs |-> EncodeSegment(spec, i)], mans |-> spec.man,
   bytes |-> [k \in 1 .. TablesLen(spec) |-> "table"] \o DataOf(spec)]

-----------------------------------------------------------------------------
(* mkpex: the loadable segments of an ELF file, sizes rounded up to pages,  *)
(* and a manifest of a Sched and an Endpoint.                              *)

Loadable(elf) == SelectSeq(elf.segs, LAMBDA s : s.memsz # 0)

MkpexAccepts(elf) ==
  /\ Loadable(elf) # <<>>
  /\ \A i \in DOMAIN Loadable(elf) : Loadable(elf)[i].vaddr % PAGE = 0

(* The mapped size of an ELF segment.                                      *)
MemSize(memsz) == ((memsz + PAGE - 1) \div PAGE) * PAGE

MkpexManifest(elf) ==
  << [type |-> "SCHED", dest |-> 1, rights |-> {"DERIVE"}, param0 |-> elf.budget],
     [type |-> "ENDPOINT", dest |-> 2, rights |-> elf.rights, param0 |-> elf.badge] >>

Mkpex(elf) ==
  [arch |-> elf.arch, entry |-> elf.entry, man |-> MkpexManifest(elf),
   segs |-> [i \in DOMAIN Loadable(elf) |->
               LET s == Loadable(elf)[i]
               IN  [vaddr |-> s.vaddr, memSize |-> MemSize(s.memsz), perm |-> s.flags,
                    data |-> s.data]]]

-----------------------------------------------------------------------------
(* What a consumer of a parsed image relies on: the records and the file    *)
(* bytes it reads lie inside the buffer, a segment is a page-aligned,       *)
(* bounded range of addresses large enough for its bytes and never both     *)
(* writable and executable, and the entry point is the address of a byte of *)
(* an executable segment.                                                  *)
Usable(img) ==
  LET len == Len(img.bytes)
  IN  /\ len >= HEADER_LEN
      /\ \A i \in 1 .. img.segCount : img.segOff + i * SEGMENT_LEN <= len
      /\ \A i \in 1 .. img.manCount : img.manOff + i * MANIFEST_LEN <= len
      /\ \A i \in DOMAIN Segments(img) :
           LET s == img.segs[i]
           IN  /\ Len(SegmentData(img, s)) = s.fileSize
               /\ \A k \in s.fileOff .. s.fileOff + s.fileSize - 1 : k < len
               /\ \E pages \in 0 .. MAX_SEGMENT_PAGES : s.memSize = pages * PAGE
               /\ \E page \in 0 .. WordMax \div PAGE : s.vaddr = page * PAGE
               /\ s.vaddr + s.memSize <= WordMax
               /\ s.fileSize <= s.memSize
               /\ s.perm \in {{"R"}, {"R", "W"}, {"R", "X"}}
      /\ \E i \in DOMAIN Segments(img) :
           img.entry \in img.segs[i].vaddr .. img.segs[i].vaddr + img.segs[i].memSize - 1
           /\ "X" \in img.segs[i].perm
=============================================================================

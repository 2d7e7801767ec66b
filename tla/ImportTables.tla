---------------------------- MODULE ImportTables ----------------------------
(***************************************************************************)
(* How the probes list the call targets of a loaded image: the jump slots  *)
(* of ELF on Linux and Android, the symbol pointers of Mach-O on Apple and *)
(* the import table of PE on Windows (sys/dispatch.rs of the four probes,  *)
(* elf/mod.rs, macho/dispatch.rs and pe/mod.rs of fidelity-formats).       *)
(* DispatchTargets models what becomes of the list.                        *)
(*                                                                         *)
(* A dynamic entry, a relocation and a pointer are one unit of memory      *)
(* each. The images and their loaders are external.                        *)
(***************************************************************************)
EXTENDS Integers, Sequences, SequencesExt, FiniteSetsExt

CONSTANTS
  ElfImages, MachImages, PeImages,   \* the images that may be loaded
  ANCHOR,                            \* the address of a byte of Fidelity
  LIMIT,                             \* how many targets a snapshot keeps
  MAX_POINTER_SECTIONS               \* how many sections Mach-O may have

ASSUME ImportAssumption == LIMIT \in Nat \ {0} /\ MAX_POINTER_SECTIONS \in Nat

\* The loader maps an image at one base, with at most one dynamic segment; what a
\* load segment maps can be read.
ASSUME ElfAssumption ==
  \A im \in ElfImages :
    /\ im.base \in Nat
    /\ \A d \in im.dynamic :
         /\ d.vaddr \in Nat /\ d.entries \in Seq([tag : STRING, value : Nat])
         /\ \A e \in im.dynamic : d = e
    /\ \A load \in im.loads :
         /\ load.vaddr \in Nat /\ load.memsz \in Nat
         /\ \A a \in 0 .. load.memsz - 1 :
              im.relocations[im.base + load.vaddr + a].offset \in Nat

Sections == [pointers : BOOLEAN, address : Nat, count : Nat, whole : BOOLEAN]

ASSUME MachAssumption ==
  \A im \in MachImages :
    /\ im.commands \in Seq([kind : STRING, sound : BOOLEAN, sections : Seq(Sections)])
    /\ im.slide \in Int
    /\ \A r \in im.regions : r.low \in Nat /\ r.high \in Nat

Descriptors == [name : BOOLEAN, lookup : Nat, table : Nat]

ASSUME PeAssumption ==
  \A im \in PeImages :
    /\ im.base \in Nat /\ im.cells \in Seq(Nat) /\ im.directory \in Seq(Descriptors)

VARIABLES
  reader,     \* the probe that ran, and the image that it read
  snapshot,   \* its answer
  touched     \* the addresses that it read

importVars == <<reader, snapshot, touched>>

NoTable == [kind |-> "Unsupported", targets |-> <<>>, bound |-> FALSE,
            truncated |-> FALSE]

\* DispatchTargets::new(), the order left out: what is above the limit is cut,
\* and the snapshot says so.
TakeTargets(targets, bound) ==
  [kind |-> "Fact", bound |-> bound, truncated |-> Len(targets) > LIMIT,
   targets |-> SubSeq(targets, 1, Min({Len(targets), LIMIT}))]

\* Slip: the readers of ELF and Mach-O stop at the limit itself.
RoomExact == LIMIT

\* They list one target more than a snapshot keeps, so that it can see the cut.
Room == LIMIT + 1

Within(address, units, ranges) ==
  \E r \in ranges : address >= r.low /\ address + units <= r.high

Units(address, units) == address .. address + units - 1

\* The elements of a list that a test holds of, in their order.
Passing(list, Test(_)) ==
  FlattenSeq([i \in DOMAIN list |-> IF Test(list[i]) THEN <<list[i]>> ELSE <<>>])

-----------------------------------------------------------------------------
(* ELF. loads are the PT_LOAD segments, dynamic the PT_DYNAMIC segment with *)
(* its entries, and relocations and memory what the addresses hold.         *)

\* Of several entries with one tag the last counts, and none reads as 0.
Entry(entries, tag) ==
  LET places == {i \in DOMAIN entries : entries[i].tag = tag}
  IN  IF places = {} THEN 0 ELSE entries[Max(places)].value

DF_BIND_NOW == 8
DF_1_NOW == 1
RELA == 7

HasBit(value, bit) == (value \div bit) % 2 = 1

Binds(entry) ==
  \/ entry.tag = "BIND_NOW"
  \/ entry.tag = "FLAGS" /\ HasBit(entry.value, DF_BIND_NOW)
  \/ entry.tag = "FLAGS_1" /\ HasBit(entry.value, DF_1_NOW)

\* dynamic_table(): the entries in front of the first DT_NULL state a table of
\* RELA relocations, or there is none.
dynamic_table(array) ==
  LET ends == {i \in DOMAIN array : array[i].tag = "NULL"}
      entries == SubSeq(array, 1, Min(ends) - 1)
  IN  IF \/ ends = {}
         \/ Entry(entries, "JMPREL") = 0 \/ Entry(entries, "PLTRELSZ") = 0
         \/ Entry(entries, "PLTREL") # RELA
      THEN {}
      ELSE {[jump_relocations |-> Entry(entries, "JMPREL"),
             jump_relocation_bytes |-> Entry(entries, "PLTRELSZ"),
             bound |-> \E i \in DOMAIN entries : Binds(entries[i])]}

\* jump_slots(): the offsets of the first jump slots.
jump_slots(relocations, limit) ==
  LET jumps == Passing(relocations, LAMBDA r : r.jump)
  IN  [i \in 1 .. Min({Len(jumps), limit}) |-> jumps[i].offset]

LoadRanges(im) ==
  {[low |-> im.base + load.vaddr, high |-> im.base + load.vaddr + load.memsz] :
     load \in im.loads}

\* Slip: the first address of a range speaks for all of it.
MappedFirst(im, address, units) == Within(address, 1, LoadRanges(im))

\* mapped_bytes(): one load segment holds the whole range.
mapped_bytes(im, address, units) == Within(address, units, LoadRanges(im))

Nothing == [snapshot |-> NoTable, touched |-> {}]

\* read(): the dynamic array, the relocations at table, and every slot, each
\* only inside a load segment.
ReadElf(im, table, array) ==
  LET units == array.jump_relocation_bytes
      relocations == [i \in 1 .. units |-> im.relocations[table + i - 1]]
      offsets == jump_slots(relocations, Room)
      slots == [i \in DOMAIN offsets |-> im.base + offsets[i]]
      found == [i \in DOMAIN slots |->
                  [slot |-> slots[i], value |-> im.memory[slots[i]]]]
  IN  IF ~mapped_bytes(im, table, units) THEN Nothing
      ELSE IF \A i \in DOMAIN slots : mapped_bytes(im, slots[i], 1)
           THEN [snapshot |-> TakeTargets(found, array.bound),
                 touched |-> Units(table, units) \cup ToSet(slots)]
           ELSE [Nothing EXCEPT !.touched = Units(table, units)]

\* segment_bytes(): the dynamic segment, when it is mapped.
DynamicArray(im) ==
  UNION {IF mapped_bytes(im, im.base + d.vaddr, Len(d.entries))
         THEN dynamic_table(d.entries) ELSE {} : d \in im.dynamic}

\* take_main_image(): the image without a name. glibc leaves the address of the
\* relocations in the array.
LinuxImages == {im \in ElfImages : im.main}

LinuxTargets(im) ==
  LET array == DynamicArray(im)
  IN  IF array = {} THEN Nothing
      ELSE LET a == CHOOSE a \in array : TRUE IN ReadElf(im, a.jump_relocations, a)

\* take_own_image(): the image with the anchor of Fidelity in a load segment.
\* bionic leaves the offset from the base in the array.
holds(im, address) == Within(address, 1, LoadRanges(im))

AndroidImages == {im \in ElfImages : holds(im, ANCHOR)}

AndroidTargets(im) ==
  LET array == DynamicArray(im)
  IN  IF array = {} THEN Nothing
      ELSE LET a == CHOOSE a \in array : TRUE
           IN  ReadElf(im, im.base + a.jump_relocations, a)

-----------------------------------------------------------------------------
(* Mach-O. A command is sound when its size holds what it states, regions   *)
(* are what the kernel maps, and complete says that the commands fill their *)
(* area.                                                                    *)

\* dispatch_layout(): the sections of symbol pointers.
PointerSections(im) ==
  Passing(FlattenSeq([i \in DOMAIN im.commands |->
                     IF im.commands[i].kind = "SEGMENT"
                     THEN im.commands[i].sections ELSE <<>>]),
       LAMBDA s : s.pointers)

dispatch_layout(im) ==
  IF /\ im.complete
     /\ \A i \in DOMAIN im.commands : im.commands[i].sound
     /\ Len(PointerSections(im)) <= MAX_POINTER_SECTIONS
  THEN {[sections |-> PointerSections(im),
         bound |-> \E i \in DOMAIN im.commands :
                     im.commands[i].kind = "CHAINED_FIXUPS"]}
  ELSE {}

\* regions::mapped(): one region of the kernel holds the whole range.
region_mapped(im, address, units) == units > 0 /\ Within(address, units, im.regions)

Pointers(im, address, count) ==
  [i \in 1 .. count |-> [slot |-> address + i - 1,
                         value |-> im.memory[address + i - 1]]]

\* One section of the loop in targets(): as much of it as there is room for.
\* Nothing follows a cut section or a full list, and a range that the kernel
\* does not map is no table at all.
TakeSection(im, sofar, section) ==
  LET address == section.address + im.slide
      take == Min({section.count, Room - Len(sofar.list)})
  IN  IF sofar.state # "open" \/ (take = 0 /\ section.whole) THEN sofar
      ELSE IF ~section.whole \/ ~region_mapped(im, address, take)
           THEN [sofar EXCEPT !.state = "none"]
           ELSE [list |-> sofar.list \o Pointers(im, address, take),
                 state |-> IF take < section.count \/ Len(sofar.list) + take > LIMIT
                           THEN "full" ELSE "open",
                 touched |-> sofar.touched \cup Units(address, take)]

\* The loop: what is read after the last section.
ReadSections(im, sections) ==
  LET read[i \in 0 .. Len(sections)] ==
        IF i = 0 THEN [list |-> <<>>, state |-> "open", touched |-> {}]
        ELSE TakeSection(im, read[i - 1], sections[i])
  IN  read[Len(sections)]

\* read() and targets() on the executable that dyld lists.
AppleTargets(im) ==
  LET layout == dispatch_layout(im)
      read == ReadSections(im, PointerSections(im))
  IN  IF layout = {} THEN Nothing
      ELSE [snapshot |-> IF read.state = "none" \/ read.list = <<>> THEN NoTable
                         ELSE TakeTargets(read.list, \E l \in layout : l.bound),
            touched |-> read.touched]

-----------------------------------------------------------------------------
(* PE. cells are the readable units of the module from its base on, and a   *)
(* gap is a page that does not read.                                        *)

\* copy_readable_allocation(): a gap reads as zero.
Copied(im) == [i \in DOMAIN im.cells |-> IF i \in im.gaps THEN 0 ELSE im.cells[i]]

\* Slip: the loader overwrites the address table, which is counted all the same.
CountTableBound(d) == d.table

\* The entries of a descriptor: as many as the lookup table has in front of its
\* first zero, or the address table when there is no other. A run that leaves
\* the image has no end.
CountTable(d) == IF d.lookup = 0 THEN d.table ELSE d.lookup

RunLength(image, at) ==
  Max({n \in 0 .. Len(image) : \A i \in 0 .. n - 1 :
         at + i \in DOMAIN image /\ image[at + i] # 0})

\* One descriptor of mapped_import_slots().
TakeDescriptor(image, base, sofar, d) ==
  LET count == RunLength(image, CountTable(d))
      room == LIMIT - Len(sofar.list)
      take == Min({count, room})
      slots == [i \in 1 .. take |-> d.table + i - 1]
  IN  CASE sofar.state # "open" -> sofar
        [] sofar.state = "open" /\ ~d.name /\ d.table = 0 ->
             [sofar EXCEPT !.state = "end"]
        [] OTHER ->
             IF \/ d.table = 0
                \/ \E i \in DOMAIN slots : slots[i] \notin DOMAIN image
                \/ /\ count < room
                   /\ CountTable(d) + count \notin DOMAIN image
             THEN [sofar EXCEPT !.state = "none"]
             ELSE [list |-> sofar.list \o
                              [i \in DOMAIN slots |->
                                 [slot |-> base + slots[i], value |-> image[slots[i]]]],
                   state |-> IF count >= room THEN "full" ELSE "open"]

\* mapped_import_slots(): the import directory of the image, descriptor by
\* descriptor.
mapped_import_slots(image, base, directory) ==
  LET read[i \in 0 .. Len(directory)] ==
        IF i = 0 THEN [list |-> <<>>, state |-> "open"]
        ELSE TakeDescriptor(image, base, read[i - 1], directory[i])
  IN  read[Len(directory)]

\* optional_header() and directory(): the descriptors of a 64-bit image that
\* states an import directory.
import_directory(im) == IF im.header THEN {im.directory} ELSE {}

\* read_targets(): the loader bound the table, whatever it holds.
WindowsTargets(im) ==
  LET read == mapped_import_slots(Copied(im), im.base, im.directory)
  IN  [snapshot |-> IF import_directory(im) = {} THEN NoTable
                    ELSE IF read.state = "full" \/ (read.state = "end" /\ read.list # <<>>)
                         THEN TakeTargets(read.list, TRUE) ELSE NoTable,
       touched |-> DOMAIN im.cells \ im.gaps]

-----------------------------------------------------------------------------
ImportInit ==
  /\ reader = [probe |-> "none", image |-> {}]
  /\ snapshot = NoTable /\ touched = {}

\* One capability reads the tables of one image.
Reads(probe, im, result) ==
  /\ reader' = [probe |-> probe, image |-> {im}]
  /\ snapshot' = result.snapshot
  /\ touched' = result.touched

Idling == reader.probe = "none"

LinuxDispatch ==
  Idling /\ \E im \in LinuxImages : Reads("linux", im, LinuxTargets(im))

AndroidDispatch ==
  Idling /\ \E im \in AndroidImages : Reads("android", im, AndroidTargets(im))

AppleDispatch ==
  Idling /\ \E im \in MachImages : Reads("apple", im, AppleTargets(im))

WindowsDispatch ==
  Idling /\ \E im \in PeImages : Reads("windows", im, WindowsTargets(im))

\* A read keeps nothing for the next one.
NextRead ==
  /\ reader.probe # "none"
  /\ reader' = [probe |-> "none", image |-> {}]
  /\ snapshot' = NoTable /\ touched' = {}

ImportNext == LinuxDispatch \/ AndroidDispatch \/ AppleDispatch \/ WindowsDispatch \/ NextRead

ImportSpec == ImportInit /\ [][ImportNext]_importVars
-----------------------------------------------------------------------------
(* What an image really holds, read without a limit and without a check.   *)

ElfSlots(im, table, array) ==
  {im.base + r.offset :
     r \in {q \in {im.relocations[a] : a \in Units(table, array.jump_relocation_bytes)} :
             q.jump}}

PeEntries(im, d) == {im.base + d.table + i - 1 :
                       i \in 1 .. RunLength(im.cells, IF d.lookup = 0 THEN d.table
                                                     ELSE d.lookup)}

EndMark(d) == ~d.name /\ d.table = 0

InFront(directory) ==
  {i \in DOMAIN directory : \A j \in 1 .. i : ~EndMark(directory[j])}

\* An image as a linker writes it, all of it readable.
Sound(im) ==
  /\ im.gaps = {} /\ \E i \in DOMAIN im.directory : EndMark(im.directory[i])
  /\ \A i \in InFront(im.directory) : im.directory[i].table # 0

TrueSlots(probe, im) ==
  CASE probe = "linux" ->
         UNION {ElfSlots(im, a.jump_relocations, a) : a \in DynamicArray(im)}
    [] probe = "android" ->
         UNION {ElfSlots(im, im.base + a.jump_relocations, a) :
                  a \in DynamicArray(im)}
    [] probe = "apple" ->
         UNION {Units(s.address + im.slide, s.count) : s \in ToSet(PointerSections(im))}
    [] probe = "windows" ->
         UNION {PeEntries(im, im.directory[i]) :
                  i \in InFront(im.directory)}

Listed == {snapshot.targets[i].slot : i \in DOMAIN snapshot.targets}

Whole == snapshot.kind = "Fact" /\ ~snapshot.truncated

\* A snapshot of ELF or Mach-O that is not marked as cut lists every call target
\* of the image (fidelity-core/src/fact/dispatch.rs:109-116).
WholeMeansWhole ==
  Whole /\ reader.probe \in {"linux", "android", "apple"} =>
    \A im \in reader.image : Listed = TrueSlots(reader.probe, im)

\* So does one of PE, when the image is sound and holds fewer than the limit: the
\* list ends where the loader's does (pe/mod.rs:66-104).
ImportsWithinLimit ==
  reader.probe = "windows" /\ snapshot.kind = "Fact" /\ Len(snapshot.targets) < LIMIT
    => \A im \in reader.image : Sound(im) => Listed = TrueSlots("windows", im)

\* No reader leaves what the loader or the kernel maps, whatever the tables of
\* the image state (sys/dispatch.rs of Linux:129-157, Android:171-199 and
\* Apple:107).
ReadsStayMapped ==
  \A im \in reader.image :
    LET ranges == IF reader.probe = "apple" THEN im.regions ELSE LoadRanges(im)
    IN  reader.probe # "windows" =>
          touched \subseteq UNION {Units(r.low, r.high - r.low) : r \in ranges}

\* A snapshot that claims to be whole is whole, and was read inside what is
\* mapped, whatever the tables of the image state.
ImportsReadRight == WholeMeansWhole /\ ImportsWithinLimit /\ ReadsStayMapped

\* "Whether the main image holds more targets than the snapshot keeps"
\* (fidelity-core/src/fact/dispatch.rs:109).
WindowsCutIsStated ==
  Whole /\ reader.probe = "windows" =>
    \A im \in reader.image : Sound(im) => Listed = TrueSlots("windows", im)
=============================================================================

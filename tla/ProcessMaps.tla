---------------------------- MODULE ProcessMaps ----------------------------
(***************************************************************************)
(* The probes of Linux and Android that read procfs and the loader:        *)
(* /proc/self/maps (fidelity-formats/src/procfs/maps.rs), the status file  *)
(* (procfs/status.rs) and dl_iterate_phdr (sys/catalog.rs).                *)
(*                                                                         *)
(* The process changes while a probe runs: its other threads map, list,    *)
(* unlist and unmap images. The kernel and the loader are external. A text *)
(* is the set of its lines.                                                *)
(***************************************************************************)
EXTENDS Naturals, FiniteSets, Facts

CONSTANTS
  Images,         \* the mappings that may come and go
  Page,           \* the size of a page
  MaxAddress,     \* the largest address
  MAX_LOADED      \* how many ranges the catalog keeps (MAX_REGIONS)

\* One load segment with code. The dynamic loader lists the ones with loader,
\* and "none" and "kernel" have no file.
Image == [base : Nat, vaddr : Nat, memsz : Nat, align : Nat, exec : BOOLEAN,
          backing : {"file", "none", "kernel"}, loader : BOOLEAN]

ASSUME MapsAssumption ==
  /\ Page \in Nat \ {0} /\ MaxAddress \in Nat /\ MAX_LOADED \in Nat
  /\ Images \subseteq Image

VARIABLES
  placed,     \* the images in the address space
  catalog,    \* the images that the loader lists
  gone,       \* the images whose file was unlinked
  tracer,     \* the TracerPid of the kernel, "0" for none
  stage,      \* "idle", or "maps" between the two reads of image_catalog_state
  text,       \* the mapping text of that call
  fact,       \* the capability that answered last, and what it answered
  bypass,     \* the file images that no catalog listed since the call began
  calm        \* nothing was mapped, listed, unlisted or unmapped since then

procVars ==
  <<placed, catalog, gone, tracer, stage, text, fact, bypass, calm>>

-----------------------------------------------------------------------------
(* The mapping text.                                                       *)

Down(address, unit) == address - (address % unit)
Up(address, unit) == Down(address + unit - 1, unit)

\* The line that the kernel writes for an image: whole pages, and the path with
\* a mark when its file is gone.
Line(i) ==
  [start |-> Down(i.base + i.vaddr, Page),
   end   |-> Up(i.base + i.vaddr + i.memsz, Page), x |-> i.exec,
   path  |-> CASE i.backing = "none" -> "empty"
               [] i.backing = "kernel" -> "bracket"
               [] i \in gone -> "deleted"
               [] OTHER -> "path"]

origin(path) ==
  CASE path = "empty" -> "Anonymous"
    [] path = "deleted" -> "Deleted"
    [] path = "bracket" -> "Named"
    [] path = "path" -> "File"

\* mapping(): a line, when it is executable.
mapping(line) ==
  IF line.x THEN {[start |-> line.start, end |-> line.end,
                   origin |-> origin(line.path)]}
  ELSE {}

executable_mappings(lines) == UNION {mapping(line) : line \in lines}

\* Slip: code whose file is gone has a file all the same.
UnaccountedLive(lines) ==
  {m \in executable_mappings(lines) : m.origin = "Anonymous"}

\* The regions that unaccounted() counts.
unaccounted(lines) ==
  {m \in executable_mappings(lines) : m.origin \in {"Anonymous", "Deleted"}}

\* Slip: the loader accounts for every image whose file is gone.
OutsideLive(lines, ranges) ==
  {m \in executable_mappings(lines) :
     /\ m.origin = "File"
     /\ ~\E r \in ranges : m.start >= r.start /\ m.end <= r.end}

\* The regions that outside_loader() counts.
outside_loader(lines, ranges) ==
  {m \in executable_mappings(lines) :
     /\ m.origin \in {"File", "Deleted"}
     /\ ~\E r \in ranges : m.start >= r.start /\ m.end <= r.end}

\* tracer_pid(): 0 names no tracer, and a text without the field is no answer.
tracer_pid(status) ==
  CASE status = "unreadable" -> {}
    [] status = "0" -> {"Absent"}
    [] status = "pid" -> {"Present"}

-----------------------------------------------------------------------------
(* The loader catalog.                                                     *)

IsPowerOfTwo(n) == \E k \in 0 .. n : n = 2 ^ k

\* Slip: the end of a range is rounded down as its start is.
AlignedDown(i) ==
  LET start == i.base + i.vaddr
      end == start + i.memsz
  IN  IF i.align <= 1 THEN {[start |-> start, end |-> end]}
      ELSE {[start |-> Down(start, i.align), end |-> Down(end, i.align)]}

\* aligned(): the segment widened to its alignment, unless an address does not
\* fit or the alignment is no power of two.
aligned(i) ==
  LET start == i.base + i.vaddr
      end == start + i.memsz
  IN  CASE end > MaxAddress -> {}
        [] end <= MaxAddress /\ i.align <= 1 -> {[start |-> start, end |-> end]}
        [] end <= MaxAddress /\ i.align > 1 ->
             IF ~IsPowerOfTwo(i.align) \/ end + i.align - 1 > MaxAddress THEN {}
             ELSE {[start |-> Down(start, i.align), end |-> Up(end, i.align)]}

\* catalog::read(): the ranges, or no answer when one is invalid, when they are
\* more than the bound, or when there is none.
LoaderRanges(listed) ==
  IF \/ \E i \in listed : aligned(i) = {}
     \/ Cardinality(listed) > MAX_LOADED
     \/ listed = {}
  THEN {}
  ELSE {UNION {aligned(i) : i \in listed}}

\* The loader and the kernel are external. A load segment is aligned to whole
\* pages, and the range of a listed image, widened to its alignment, holds no code
\* of another file.
ASSUME LoaderAssumption ==
  \A i \in Images : i.loader =>
    /\ i.align > 1 /\ \E k \in 1 .. i.align : i.align = k * Page
    /\ \A j \in Images \ {i} : j.exec /\ j.backing = "file" =>
         \A r \in aligned(i) :
           ~(/\ Down(j.base + j.vaddr, Page) >= r.start
             /\ Up(j.base + j.vaddr + j.memsz, Page) <= r.end)

-----------------------------------------------------------------------------
(* The capabilities. A read that fails is the empty set.                   *)

\* Slip: the field reaches the caller as the kernel wrote it.
LinuxTracerRaw(status) ==
  IF status = {} THEN "Failed" ELSE CHOOSE s \in status : TRUE

LinuxTracer(status) ==
  IF status = {} THEN "Failed"
  ELSE LET field == tracer_pid(CHOOSE s \in status : TRUE)
       IN  IF field = {} THEN "Failed" ELSE CHOOSE state \in field : TRUE

LinuxCodeOrigin(read) ==
  CASE read = {} -> "Failed"
    [] OTHER -> IF unaccounted(UNION read) = {} THEN "Accounted"
                ELSE "Unaccounted"

\* The regions of the baseline are the business of RuntimeBaseline; none at all
\* is a failed read.
LinuxCodeRegions(read) ==
  IF read = {} \/ executable_mappings(UNION read) = {} THEN "Failed"
  ELSE "Regions"

LinuxImageCatalog(lines, ranges) ==
  CASE ranges = {} -> "Failed"
    [] OTHER -> IF outside_loader(lines, UNION ranges) = {} THEN "Accounted"
                ELSE "Unregistered"

\* Android runs the same code over the same files.
AndroidTracer(status) == LinuxTracer(status)
AndroidCodeOrigin(read) == LinuxCodeOrigin(read)
AndroidCodeRegions(read) == LinuxCodeRegions(read)
AndroidImageCatalog(lines, ranges) == LinuxImageCatalog(lines, ranges)
AndroidAligned(i) == aligned(i)
AndroidLoaderRanges(listed) == LoaderRanges(listed)

-----------------------------------------------------------------------------
ProcInit ==
  /\ placed = {} /\ catalog = {} /\ gone = {} /\ tracer = "0"
  /\ stage = "idle"
  /\ text = {}
  /\ fact = [of |-> "none", is |-> "none"]
  /\ bypass = {}
  /\ calm = TRUE

Lines == {Line(i) : i \in placed}

ProcAnswer(capability, state) ==
  /\ fact' = [of |-> capability, is |-> state]
  /\ UNCHANGED <<placed, catalog, gone, tracer>>

\* A read of the mapping text opens the file, or does not.
MapsReads == {{Lines}, {}}

TracerProbe ==
  /\ stage = "idle"
  /\ \E status \in {{tracer}, {"unreadable"}, {}} :
       \/ ProcAnswer("tracer", LinuxTracer(status))
       \/ ProcAnswer("tracer", AndroidTracer(status))
  /\ UNCHANGED <<stage, text, bypass, calm>>

InjectionProbe ==
  /\ stage = "idle"
  /\ \E read \in MapsReads :
       \/ ProcAnswer("code_origin", LinuxCodeOrigin(read))
       \/ ProcAnswer("code_origin", AndroidCodeOrigin(read))
  /\ UNCHANGED <<stage, text, bypass, calm>>

BaselineProbe ==
  /\ stage = "idle"
  /\ \E read \in MapsReads :
       \/ ProcAnswer("code_regions", LinuxCodeRegions(read))
       \/ ProcAnswer("code_regions", AndroidCodeRegions(read))
  /\ UNCHANGED <<stage, text, bypass, calm>>

FileCode == {i \in Images : i.exec /\ i.backing = "file"}

\* image_catalog_state() reads the mapping text first.
CatalogProbeMaps ==
  /\ stage = "idle"
  /\ stage' = "maps"
  /\ text' = Lines
  /\ bypass' = (placed \cap FileCode) \ catalog
  /\ calm' = TRUE
  /\ UNCHANGED <<placed, catalog, gone, tracer, fact>>

CatalogProbeNoMaps ==
  /\ stage = "idle"
  /\ ProcAnswer("image_catalog", "Failed")
  /\ UNCHANGED <<stage, text, bypass, calm>>

\* Then it asks the loader, on the same thread but at a later moment.
CatalogProbeLoader ==
  /\ stage = "maps"
  /\ stage' = "idle"
  /\ \/ ProcAnswer("image_catalog", LinuxImageCatalog(text, LoaderRanges(catalog)))
     \/ ProcAnswer("image_catalog",
               AndroidImageCatalog(text, AndroidLoaderRanges(catalog)))
  /\ text' = {} /\ bypass' = {} /\ calm' = TRUE

-----------------------------------------------------------------------------
(* The rest of the process, and whoever changes it from outside.           *)

Change(images, listed) ==
  /\ placed' = images
  /\ catalog' = listed
  /\ calm' = (stage = "idle")
  /\ bypass' = bypass \ listed
  /\ UNCHANGED <<gone, tracer, stage, text, fact>>

\* dlopen() maps an image and then lists it, dlclose() goes the other way, and
\* an image without loader is never listed.
MapImage(i) == i \notin placed /\ Change(placed \cup {i}, catalog)

ListImage(i) ==
  i.loader /\ i \in placed \ catalog /\ Change(placed, catalog \cup {i})

UnlistImage(i) == i \in catalog /\ Change(placed, catalog \ {i})

UnmapImage(i) == i \in placed \ catalog /\ Change(placed \ {i}, catalog)

\* A package upgrade, or code that unlinks itself.
UnlinkFile(i) ==
  /\ i.backing = "file" /\ i \notin gone
  /\ gone' = gone \cup {i}
  /\ UNCHANGED <<placed, catalog, tracer, stage, text, fact, bypass, calm>>

Attach ==
  /\ tracer' \in {"0", "pid"} \ {tracer}
  /\ UNCHANGED <<placed, catalog, gone, stage, text, fact, bypass, calm>>

ProcNext ==
  \/ TracerProbe \/ InjectionProbe \/ BaselineProbe
  \/ CatalogProbeMaps \/ CatalogProbeNoMaps \/ CatalogProbeLoader
  \/ \E i \in Images :
       MapImage(i) \/ ListImage(i) \/ UnlistImage(i) \/ UnmapImage(i)
         \/ UnlinkFile(i)
  \/ Attach

ProcSpec == ProcInit /\ [][ProcNext]_procVars

-----------------------------------------------------------------------------
\* The loader lists only what is mapped, and every capability answers with a
\* fact of its kind.
ProcTypeOK ==
  /\ placed \subseteq Images /\ catalog \subseteq placed /\ gone \subseteq Images
  /\ tracer \in {"0", "pid"} /\ stage \in {"idle", "maps"} /\ calm \in BOOLEAN
  /\ bypass \subseteq FileCode
  /\ CASE fact.of = "tracer" -> fact.is \in Observation(TracerState)
       [] fact.of = "code_origin" -> fact.is \in Observation(CodeOrigin)
       [] fact.of = "image_catalog" -> fact.is \in Observation(ImageCatalogState)
       [] OTHER -> TRUE

ProcSays(capability, state) == fact'.of = capability /\ fact'.is = state

\* The line of the mapping text that an image with a file has, whatever happened
\* to the file.
LineOfFile(line, i) ==
  /\ line.start = Down(i.base + i.vaddr, Page)
  /\ line.end = Up(i.base + i.vaddr + i.memsz, Page)
  /\ line.x = i.exec
  /\ line.path \in {"path", "deleted"}

\* Between the two reads the text has a line for every image that bypassed the
\* loader, and while nothing changed a line of a file is of such an image or of a
\* listed one (procfs/maps.rs:280-301).
TextIsOfProcess ==
  stage = "maps" =>
    /\ \A i \in bypass : \E line \in text : LineOfFile(line, i)
    /\ \A line \in text : line.path \in {"empty", "deleted", "bracket", "path"}
    /\ \A line \in text :
         line.x /\ line.path \in {"path", "deleted"} =>
           \E i \in FileCode : /\ LineOfFile(line, i)
                               /\ calm => i \in catalog \/ i \in bypass

\* The inductive invariant behind ProcAnswersTrue. Only the loader's own images
\* are listed, and only a file is unlinked.
ProcInv ==
  /\ placed \subseteq Images /\ catalog \subseteq placed /\ gone \subseteq Images
  /\ tracer \in {"0", "pid"}
  /\ \A i \in catalog : i.loader
  /\ \A i \in gone : i.backing = "file"
  /\ bypass \subseteq FileCode \ catalog
  /\ TextIsOfProcess

\* No failed read, no unlinked file and no unnamed code reads as clean
\* (procfs/maps.rs:260-278, procfs/status.rs:20-40).
CleanFactsAreTrue ==
  /\ InjectionProbe /\ ProcSays("code_origin", "Accounted") =>
       \A i \in placed : i.exec => i.backing # "none" /\ i \notin gone
  /\ TracerProbe /\ ProcSays("tracer", "Absent") => tracer = "0"

\* An image that stayed outside the catalog for the whole call is reported,
\* whatever the loader did beside it (procfs/maps.rs:280-301).
BypassReported ==
  CatalogProbeLoader /\ ProcSays("image_catalog", "Accounted") => bypass = {}

\* While the loader is quiet, only an image outside the catalog is reported: the
\* widened ranges cover whole pages (sys/catalog.rs:87-98).
QuietLoaderIsClean ==
  CatalogProbeLoader /\ ProcSays("image_catalog", "Unregistered") /\ calm
    => bypass # {}

\* What the procfs probes answer is true of the process, whatever its other
\* threads map, load, unload and unlink while a probe reads (procfs/maps.rs:226-301,
\* procfs/status.rs:20-40, sys/catalog.rs:87-114).
ProcAnswersTrue ==
  [][CleanFactsAreTrue /\ BypassReported /\ QuietLoaderIsClean]_procVars
=============================================================================

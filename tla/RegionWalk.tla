----------------------------- MODULE RegionWalk -----------------------------
(***************************************************************************)
(* The probes of Apple and Windows that walk the address space, one kernel *)
(* call at a time: mach_vm_region() (sys/regions.rs of the Apple probe)    *)
(* and VirtualQuery() (sys/memory.rs of the Windows probe), and the three  *)
(* capabilities that use the walk. On Apple a call of the kernel also hands*)
(* out a port name, so the call and what is done with its answer are two   *)
(* steps, in the walk and in the query for one range (mapped()).           *)
(*                                                                         *)
(* The other threads map, unmap and protect pages between any two calls.   *)
(* The kernel and the loader are external. A page is the unit of address.  *)
(***************************************************************************)
EXTENDS Naturals, FiniteSets, FiniteSetsExt, Facts

CONSTANTS
  Kinds,         \* what a page may hold
  Top,           \* the number of pages
  MAX_PASSES     \* how many calls a walk makes

\* What a page may hold: nothing, data, or code. An image is what the loader
\* lists; file and anon code belongs to a section with and without a file, and
\* private code to no section.
Loadable == {"main", "other"}
Contents == {"free", "data", "file", "anon", "private"} \cup Loadable
PageKind == [holds : Contents, writable : BOOLEAN]
FREE == [holds |-> "free", writable |-> FALSE]
Code == {k \in PageKind : k.holds \notin {"free", "data"}}
Platforms == {"apple", "windows"}
Purposes == {"regions", "origin", "catalog", "mapped"}

\* "A process holds far fewer runs than this" (sys/memory.rs:55).
ASSUME WalkAssumption ==
  /\ Kinds \subseteq PageKind /\ FREE \in Kinds
  /\ Top \in Nat \ {0} /\ MAX_PASSES \in Nat /\ MAX_PASSES > Top

VARIABLES
  space,     \* what every page holds
  modules,   \* the images that the loader of Windows lists
  walk,      \* the call that runs: "idle", "walk", "answered", "judge" or
             \* "modules", for which platform and capability, over how many pages
  cursor,    \* the address of the next query
  reply,     \* what mach_vm_region() wrote: its result, the region unless it is
             \* of size zero, and the name of the memory object, 0 for none
  passes,    \* how many were made
  gathered,  \* the executable regions so far
  todo,      \* the regions that the injection capability has to judge
  odd,       \* whether it met one without a file
  rights,    \* how many names of memory objects the task holds
  steady,    \* the pages that kept their contents since the call began
  unlisted,  \* the images that the loader did not list since a catalog call began
  told       \* the last answer

walkVars == <<space, modules, walk, cursor, reply, passes, gathered, todo, odd,
              rights, steady, unlisted, told>>

Idle == [at |-> "idle", platform |-> "none", purpose |-> "none", pages |-> 0]
NoReply == [ok |-> FALSE, region |-> {}, object |-> 0]
NotTold == [of |-> "none", is |-> "none"]
Addresses == 0 .. Top - 1

-----------------------------------------------------------------------------
(* The kernel: a region is a run of pages of one kind.                     *)

SameKind(a, b) == \A p \in a .. b : space[p] = space[a]

RunEnd(a) == Max({b \in a .. Top - 1 : SameKind(a, b)}) + 1
RunStart(a) == Min({b \in 0 .. a : SameKind(b, a)})

\* VirtualQuery() answers for the pages from the address on, and for nothing
\* above the last one.
VirtualQuery(a) ==
  IF a >= Top THEN {}
  ELSE {[start |-> a, end |-> RunEnd(a), is |-> space[a]]}

\* mach_vm_region() answers with the region that holds the address, or with the
\* next one above it.
mach_vm_region(a) ==
  LET above == {b \in a .. Top - 1 : space[b] # FREE}
  IN  {[start |-> RunStart(b), end |-> RunEnd(b), is |-> space[b]] :
         b \in IF above = {} THEN {} ELSE {Min(above)}}

-----------------------------------------------------------------------------
(* executable(): one pass of the loop.                                     *)

\* Slip: the protection is compared as a whole.
KeptExact(region) ==
  IF region.is \in Code /\ ~region.is.writable
  THEN {[start |-> region.start, end |-> region.end, is |-> region.is]} ELSE {}

KeptRegion(region) ==
  IF region.is \in Code
  THEN {[start |-> region.start, end |-> region.end, is |-> region.is]} ELSE {}

\* Slip: the walk advances by the size from where it asked, and not from where
\* the region was found.
NextFromCursor(region) == cursor + (region.end - region.start)

NextAddress(region) == region.end

\* Slip: the walk leaves before it releases the name that came with an answer of
\* size zero.
ReleasedLate(answer) ==
  IF answer.ok /\ answer.object # 0 /\ answer.region # {} THEN 1 ELSE 0

\* The name of the memory object is released before the answer is looked at. A
\* call that failed wrote no name over the 0 that the pass began with.
Released(answer) == IF answer.ok /\ answer.object # 0 THEN 1 ELSE 0

\* A capability answers, and what it collected is dropped.
Return(answer) ==
  /\ told' = [of |-> walk.purpose, is |-> answer]
  /\ walk' = Idle
  /\ cursor' = 0 /\ passes' = 0 /\ gathered' = {} /\ todo' = {} /\ odd' = FALSE
  /\ steady' = {} /\ unlisted' = {}

\* What follows the walk. No executable region at all is a broken one.
Finish ==
  \/ gathered = {} /\ Return("Failed")
  \/ gathered # {} /\ walk.purpose = "regions" /\ Return("Regions")
  \/ /\ gathered # {} /\ walk.purpose # "regions"
     /\ walk' = [walk EXCEPT !.at = IF walk.purpose = "origin" THEN "judge"
                                   ELSE "modules"]
     /\ todo' = IF walk.purpose = "origin" THEN gathered ELSE {}
     /\ UNCHANGED <<cursor, passes, gathered, odd, steady, unlisted, told>>

Advance(region) ==
  /\ gathered' = gathered \cup KeptRegion(region)
  /\ cursor' = NextAddress(region)
  /\ passes' = passes + 1
  /\ walk' = [walk EXCEPT !.at = "walk"]
  /\ UNCHANGED <<todo, odd, steady, unlisted, told>>

\* The kernel answers, and moves a name into the task or none. Above the last
\* region the call fails, or succeeds with a size of zero.
AppleQuery ==
  /\ walk.at = "walk" /\ walk.platform = "apple"
  /\ IF passes < MAX_PASSES
     THEN /\ \E object \in {0, 1}, ok \in BOOLEAN :
               /\ ok \/ (mach_vm_region(cursor) = {} /\ object = 0)
               /\ reply' = [ok |-> ok, region |-> mach_vm_region(cursor),
                            object |-> object]
               /\ rights' = rights + object
          /\ walk' = [walk EXCEPT !.at = "answered"]
          /\ UNCHANGED <<cursor, passes, gathered, todo, odd, steady, unlisted, told>>
     ELSE Finish /\ UNCHANGED <<reply, rights>>
  /\ UNCHANGED <<space, modules>>

\* The rest of a pass of executable().
AppleExecutable ==
  /\ walk.at = "answered" /\ walk.purpose # "mapped"
  /\ rights' = rights - Released(reply) /\ reply' = NoReply
  /\ IF reply.region # {} THEN \E region \in reply.region : Advance(region)
     ELSE Finish
  /\ UNCHANGED <<space, modules>>

\* Slip: a range whose start lies in the region is taken for mapped.
InsideStart(region) == region.start <= cursor

\* The whole range belongs to the one region that was found.
Inside(region) == region.start <= cursor /\ cursor + walk.pages <= region.end

\* The rest of mapped().
AppleMapped ==
  /\ walk.at = "answered" /\ walk.purpose = "mapped"
  /\ rights' = rights - Released(reply) /\ reply' = NoReply
  /\ Return(IF \E region \in reply.region : Inside(region) THEN "Mapped"
            ELSE "NotMapped")
  /\ UNCHANGED <<space, modules>>

WindowsExecutable ==
  /\ walk.at = "walk" /\ walk.platform = "windows"
  /\ LET answer == VirtualQuery(cursor)
     IN  IF passes < MAX_PASSES /\ answer # {}
         THEN \E region \in answer : Advance(region) ELSE Finish
  /\ UNCHANGED <<space, modules, rights, reply>>

-----------------------------------------------------------------------------
(* The capabilities.                                                       *)

Begin(platform, purpose, address, pages) ==
  /\ walk = Idle
  /\ walk' = [at |-> "walk", platform |-> platform, purpose |-> purpose,
              pages |-> pages]
  /\ cursor' = address /\ passes' = 0 /\ gathered' = {} /\ odd' = FALSE
  /\ steady' = Addresses
  /\ unlisted' = IF purpose = "catalog" THEN Loadable \ modules ELSE {}
  /\ told' = NotTold
  /\ UNCHANGED <<space, modules, todo, rights, reply>>

\* Only Windows answers more than the baseline.
AppleCodeRegions == Begin("apple", "regions", 0, 0)
WindowsCodeRegions == Begin("windows", "regions", 0, 0)
WindowsCodeOrigin == Begin("windows", "origin", 0, 0)
WindowsImageCatalog == Begin("windows", "catalog", 0, 0)

\* mapped(), which the readers of the import tables ask. An empty range, and one
\* that wraps, is refused before the kernel is asked.
AppleMappedRange ==
  \E address \in Addresses : \E pages \in 1 .. Top - address :
    Begin("apple", "mapped", address, pages)

\* mapped_file(): the kernel names a file for the page now.
mapped_file(address) == space[address].holds \in {"file"} \cup Loadable

\* Slip: every section counts, with a file or without one.
AccountedSection(region) == region.is.holds # "private"

\* accounted(): an image always, and a section when it has a file.
accounted(region) ==
  \/ region.is.holds \in Loadable
  \/ region.is.holds \in {"file", "anon"} /\ mapped_file(region.start)

\* Slip: a region whose name does not read is asked again.
RemainingRetry(region) == IF accounted(region) THEN todo \ {region} ELSE todo

Remaining(region) == todo \ {region}

JudgeRegion ==
  /\ walk.at = "judge"
  /\ \E region \in todo :
       LET strange == odd \/ ~accounted(region)
       IN  \/ /\ Remaining(region) = {}
              /\ Return(IF strange THEN "Unaccounted" ELSE "Accounted")
           \/ /\ Remaining(region) # {}
              /\ todo' = Remaining(region) /\ odd' = strange
              /\ UNCHANGED <<walk, cursor, passes, gathered, steady, unlisted, told>>
  /\ UNCHANGED <<space, modules, rights, reply>>

\* The image regions whose allocation base no module has.
Unregistered(listed) == {region \in gathered : region.is.holds \in Loadable \ listed}

\* module_bases() may fail: the call, its bound, or an empty list.
ModuleBases ==
  /\ walk.at = "modules"
  /\ \/ Return("Failed")
     \/ /\ modules # {}
        /\ Return(IF Unregistered(modules) = {} THEN "Accounted"
                  ELSE "Unregistered")
  /\ UNCHANGED <<space, modules, rights, reply>>

-----------------------------------------------------------------------------
(* The rest of the process.                                                *)

ChangePage(p, kind) ==
  /\ space[p] # kind
  /\ space' = [space EXCEPT ![p] = kind]
  /\ steady' = steady \ {p}
  /\ UNCHANGED <<modules, walk, cursor, reply, passes, gathered, todo, odd, rights,
                 unlisted, told>>

\* LoadLibrary() and FreeLibrary(); the main module never leaves.
ListModule(m) ==
  /\ modules' = IF m \in modules THEN modules \ {m} ELSE modules \cup {m}
  /\ unlisted' = unlisted \ modules'
  /\ UNCHANGED <<space, walk, cursor, reply, passes, gathered, todo, odd, rights, steady,
                 told>>

WalkInit ==
  /\ space = [p \in Addresses |-> FREE] /\ modules = {"main"}
  /\ walk = Idle /\ cursor = 0 /\ passes = 0 /\ gathered = {} /\ todo = {}
  /\ odd = FALSE /\ rights = 0 /\ reply = NoReply
  /\ steady = {} /\ unlisted = {}
  /\ told = NotTold

\* A step of the thread that runs the call.
WalkStep ==
  \/ AppleQuery \/ AppleExecutable \/ AppleMapped
  \/ WindowsExecutable \/ JudgeRegion \/ ModuleBases

WalkNext ==
  \/ AppleCodeRegions \/ WindowsCodeRegions
  \/ WindowsCodeOrigin \/ WindowsImageCatalog \/ AppleMappedRange
  \/ WalkStep
  \/ \E p \in Addresses, kind \in Kinds : ChangePage(p, kind)
  \/ \E m \in Loadable \ {"main"} : ListModule(m)

WalkSpec == WalkInit /\ [][WalkNext]_walkVars /\ WF_walkVars(WalkStep)

-----------------------------------------------------------------------------
WalkTypeOK ==
  /\ space \in [Addresses -> PageKind] /\ modules \subseteq Loadable
  /\ walk.at \in {"idle", "walk", "answered", "judge", "modules"}
  /\ cursor \in 0 .. Top /\ passes \in 0 .. Top
  /\ todo \subseteq gathered /\ odd \in BOOLEAN
  /\ steady \subseteq Addresses /\ unlisted \subseteq Loadable
  /\ told.of \in {"none"} \cup Purposes

Covers(region, p) == region.start <= p /\ p < region.end /\ region.is = space[p]

\* The regions so far are runs of code, and a page of theirs that kept its contents
\* holds what its region says (sys/regions.rs:143-210, sys/memory.rs:211-267).
RegionsAreReal ==
  \A r \in gathered :
    /\ r.start \in Addresses /\ r.end \in r.start + 1 .. Top /\ r.is \in Code
    /\ \A p \in steady : r.start <= p /\ p < r.end => space[p] = r.is

\* The run that a call of the kernel gives the walk: nothing but free pages between
\* the cursor and the run, as far as the pages kept their contents since.
IsNextRun(run) ==
  /\ run.start \in Addresses /\ run.end \in cursor + 1 .. Top
  /\ run.start < run.end
  /\ \A p \in steady : run.start <= p /\ p < run.end => space[p] = run.is
  /\ \A p \in steady : cursor <= p /\ p < run.start => space[p] = FREE

Walks == walk.at \in {"walk", "answered"} /\ walk.purpose # "mapped"

\* The range that mapped() asks for is one run of pages that stay as they are.
RangeStands ==
  /\ cursor .. cursor + walk.pages - 1 \subseteq steady
  /\ space[cursor] # FREE
  /\ \A p \in cursor .. cursor + walk.pages - 1 : space[p] = space[cursor]

\* The answer of mach_vm_region() that waits is of the space as it was
\* (sys/regions.rs:99-110, 156-169), and the name that came with it is the only one
\* that the task holds.
ReplyIsReal ==
  /\ rights = reply.object
  /\ reply.object \in {0, 1} /\ (~reply.ok => reply.object = 0)
  /\ walk.at # "answered" => reply = NoReply
  /\ walk.at = "answered" =>
       /\ \A run \in reply.region : IsNextRun(run) /\ run.is # FREE
       /\ reply.region = {} =>
            \A p \in steady : p >= cursor => space[p] = FREE
       /\ walk.purpose = "mapped" /\ RangeStands =>
            \E region \in reply.region : Inside(region)

\* The walk has seen the code below its cursor that kept its place.
WalkedIsGathered ==
  Walks =>
    \A p \in steady : p < cursor /\ space[p] \in Code =>
      \E r \in gathered : Covers(r, p)

\* A region that was judged, is outside every file and stayed there was noticed.
JudgedIsKnown ==
  walk.at = "judge" =>
    \A r \in gathered \ todo :
      r.is.holds \in {"anon", "private"} /\ r.start .. r.end - 1 \subseteq steady => odd

\* The inductive invariant behind NoNameKept and SteadyCodeSeen. Every pass moves
\* the cursor, so that the bound on the passes never ends a walk
\* (sys/memory.rs:55, 257-260).
WalkInv ==
  /\ WalkTypeOK
  /\ walk \in {Idle} \cup [at : {"walk", "answered", "judge", "modules"},
                           platform : Platforms, purpose : Purposes, pages : 0 .. Top]
  /\ walk.purpose = "mapped" =>
       walk.platform = "apple" /\ walk.at \in {"walk", "answered"} /\ walk.pages # 0
  /\ walk.at # "judge" => todo = {}
  /\ walk.at # "idle" => told = NotTold
  /\ passes <= cursor
  /\ unlisted \cap modules = {}
  /\ ReplyIsReal /\ RegionsAreReal /\ WalkedIsGathered /\ JudgedIsKnown

\* Code that stayed where it was for the whole walk is in the regions, with its
\* protection, whatever happened beside it (sys/regions.rs:143-210,
\* sys/memory.rs:211-267).
SteadyCodeFound ==
  Walks /\ ~Walks' =>
    \A p \in steady : space[p] \in Code => \E r \in gathered : Covers(r, p)

\* Between two calls of the kernel the task holds no name of a memory object: the
\* walk and mapped() release what came with an answer before they use it, leave the
\* loop or return, with an answer of size zero too (sys/regions.rs:114, 171-182).
NoNameKept == walk.at # "answered" => rights = 0

\* A range that mapped() calls mapped has no page that was free all the time, and
\* a range within one region that stayed there is called mapped
\* (sys/regions.rs:83-124).
RangeAnswered ==
  AppleMapped =>
    /\ told'.is = "Mapped" =>
         \A p \in steady : cursor <= p /\ p < cursor + walk.pages => space[p] # FREE
    /\ RangeStands => told'.is = "Mapped"

\* A region outside every file, and an image outside the module list, is reported
\* when it was there for the whole call (injection.rs:27, image_catalog.rs:22).
SteadyCodeReported ==
  \A region \in gathered :
    (region.start .. region.end - 1) \subseteq steady =>
      /\ JudgeRegion /\ told'.is = "Accounted" =>
           region.is.holds \notin {"anon", "private"}
      /\ ModuleBases /\ told'.is = "Accounted" =>
           region.is.holds \notin unlisted

\* Code that was there for the whole call is seen and judged, and a range that was
\* is called mapped, whatever other threads map, split and unmap between two calls
\* of the kernel (sys/memory.rs:211-267, sys/regions.rs:83-210).
SteadyCodeSeen ==
  [][SteadyCodeFound /\ SteadyCodeReported /\ RangeAnswered]_walkVars

\* Every call answers: the walk always advances (sys/memory.rs:257-260).
WalkEnds == walk.at # "idle" ~> walk.at = "idle"
=============================================================================

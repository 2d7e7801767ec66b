# Fidelity, specified in TLA+

Fidelity is a library that a Rust application links to learn whether it runs in
a modified, debugged, instrumented or emulated environment. A host configures a
policy, calls `start()` once, and asks `ensure_allowed()` before each protected
operation. A worker thread that the library owns scans the environment for the
life of the process, and responds to what it finds.

This directory specifies the library from the system calls of its probes to the
answer of `ensure_allowed()`: the process-wide runtime with its words, its start
protocol with rollback, its worker and the handle that hosts call from any
thread; the detectors and the comparisons behind them; the probes of four
platforms with the file formats they read; the constants that a build guards
with the identity of its signer; and the plugin that gives the handle to a
Tauri application.

## Inventory

| Component | State | Operations | Interacts with |
|---|---|---|---|
| process words (`fidelity/src/lib.rs`) | `RUNNING`, `LATCHED`, `DENY_UNTIL_FULL_SCAN`, `FULL_SCAN_DONE`, `FULL_SCAN_WAIT` | claim, release, latch, clear, mark, wait, `abandon_start` | every thread, without a common lock |
| builder (`fidelity/src/builder.rs`) | one provisional claim | setters, `start()` with eleven ways to end | words, engine, worker |
| handle (`fidelity/src/handle.rs`) | shared `Runtime` | `ensure_allowed`, `deny`, `report_ui_abuse`, waits, `snapshot` | words, engine state, queue |
| engine state (`fidelity-engine/src/state.rs`) | one slot per detector, two category sets | record, latch, latch by host, snapshot | under the state lock |
| queue (`fidelity-engine/src/pending.rs`) | at most 16 reports | add, take | handle to worker |
| policy (`fidelity-engine/src/policy.rs`) | action and threshold per category | qualifying action | record |
| worker (`fidelity-engine/src/worker.rs`) | the reports to dispatch | initial actions, readiness, take, scan, record, dispatch, callback | all of the above, host code |
| detectors (`fidelity-detect`) | captured snapshots | scan, twelve detectors | probes |
| facts (`fidelity-core/src/fact`) | region and dispatch snapshots | comparisons | detectors |
| loopback probe (`fidelity-core/src/capability/local_agent.rs`) | one exchange | connect, write, read against a deadline | detectors |
| values (`fidelity-types`) | none | cut of evidence text, pins, category word | host, detectors, latch |
| guarded secrets (`fidelity-cipher`, `fidelity-macros`, `fidelity/build.rs`, `secret.rs`) | none | seal at build time, resolve the material at start, open at a read | builder, identity capability |
| formats (`fidelity-formats`) | none | bounded readers: procfs, ELF, Mach-O, PE, APK, SMBIOS | probes |
| probes (`probe/*`) | handles of the system during a call | eleven capabilities, on Linux, Android, macOS, iOS and Windows | detectors, worker, builder |
| Tauri plugin (`bindings/`) | the stored handle | setup, commands | builder, handle |

What is hard here, and what makes each part correct:

- *The process words.* Five words and a condition variable are read and written
  one after another, by any host thread and by the worker, without a common
  lock. Correct means: the denial word and the engine state agree whenever
  somebody can look, no denial is lost, the startup window closes once, and a
  start that fails leaves nothing behind.
- *The start protocol.* A start claims, validates, captures, scans, records,
  spawns and waits; each step can fail, and another host may call `start()` at
  any of them. Correct means: one start and one runtime at a time, every start
  ends, every failed start returns the slot.
- *The worker and the queue.* A response is decided by one thread and applied
  by another, behind callbacks that may panic, call back into the handle or
  share it. Correct means: every due `Crash` happens, none is overtaken by a
  return of `start()`, every queued report is taken, every waiter is released.
- *The detectors.* A scan joins eleven independent answers, two of them
  relative to a capture of the start. Correct means: a failure, a panic or a
  gap never reads as clean, and a failure never as a gap.
- *The snapshot comparisons.* Merge loops over two sorted lists that were cut
  at a bound. Correct means: exactly the reference rule, for every pair of
  lists.
- *The probes that look at memory.* They read a text, a list or one region at a
  time, while other threads map, unmap, load and unlink. Correct means: code
  that was there all along is found, with its protection; what has no file, or
  is not in the loader's list, is reported; nothing outside a mapping is read;
  no walk goes on for ever or keeps a port name.
- *The readers of import tables.* Each stops at a limit. Correct means: a list
  that is not marked as cut is whole.
- *The probes that look at identity.* They open the same file several times,
  parse offsets that the file states, and hold handles over calls that fail.
  Correct means: a match is of the archive that the process runs from, no
  failure reads as an acceptance or as another signer, every handle goes back.
- *The probes that look at the machine.* Two sources, one of them missing or
  refused, or a size from one call and bytes from the next. Correct means: a
  clean answer rests on sources that were read, and on a table that names the
  machine of the second call; a cut table names no other machine.
- *Guarded constants.* The build script, the macro, the start and the read
  compute the same key in four places, and a wrong key shows nowhere. Correct
  means: they agree, or the start fails.
- *The plugin.* It starts and then stores, beside a host that may do either.
  Correct means: no runtime without a reachable handle, no handle of a start
  that was rolled back and no denial taken back, unless a callback kept the
  handle of a start whose worker then stopped.
- *The loopback probe.* A bounded read of a stream that arrives in any split,
  from a peer that may fall silent. Correct means: a finding is real, an
  absence is explained, and the probe returns.

## Modules

| Module | Models | Used by |
|---|---|---|
| `Findings` | the exchanged values and the policy | everything above the probes |
| `EngineState` | slots and category sets as values, and their updates | `Runtime` |
| `Pending` | the bounded queue as a value | `Runtime` |
| `Runtime` | process words, start protocol, engine lock, worker, handle: the composition | the runs `MCRuntime*` |
| `RuntimeInvariant` | the inductive invariant of the words, the lock and the start | proofs, `MCRuntimeSafety` |
| `RuntimeReports` | the inductive invariant of the findings and reports in flight | proofs, `MCRuntimeResponse` |
| `RuntimeHistory` | `Runtime` with a history of `ensure_allowed()` | `MCRuntimeWindow` |
| `RuntimeResume` | `Runtime` in a process that is suspended and resumed | `MCRuntimeResume` |
| `StartGate` | the abstract specification: one slot, denials that only grow, a window that closes once | `RuntimeGate`, `TauriPlugin` |
| `RuntimeGate` | the refinement mapping from `Runtime` to `StartGate` | `MCRuntimeSafety`, `RuntimeGateProofs` |
| `TauriPlugin` | the plugin composed with `StartGate` | `MCIdentities` |
| `RuntimeSafety`, `RuntimeGateProofs`, `RuntimeReportProofs` | theorems about `Runtime` | |
| `SnapshotProofs` | theorems about `RuntimeBaseline`, `DispatchTargets` and `ImportTables` | `DetectionProofs` |
| `DetectionProofs` | theorems about `LocalAgent`, `DetectorSet`, `ProcessMaps` and `RegionWalk`, and about all of `MCDetection` side by side | |
| `IdentityProofs` | theorems about `TauriPlugin`, `SignerIdentity`, `Machines` and `PackageIdentity` | |
| `ValueProofs` | theorems about `HostValues` and `Secrets` | |
| `SequenceFacts` | lemmas about data: extreme elements, induction and recursion over naturals, the cells of a concatenation | the four modules above |
| `DetectorSet` | the twelve detectors, both scan sets, required coverage | `MCDetection`, `MCDetectorCoverage` |
| `RuntimeBaseline` | region snapshots and their two merge loops | `MCDetection`, `MCSnapshotsSplit` |
| `DispatchTargets` | dispatch snapshots and their merge loop | `MCDetection` |
| `LocalAgent` | the loopback exchange | `MCDetection`, `MCLocalAgentCut` |
| `Facts` | the answers of the capabilities | the probe modules |
| `ProcessMaps` | procfs and the loader's catalog on Linux and Android: tracer, code origin, code regions, image catalog | `MCDetection` |
| `RegionWalk` | the walks of `mach_vm_region()` and `VirtualQuery()`, and `mapped()`: code regions, code origin, image catalog, a range | `MCDetection` |
| `ImportTables` | the call targets of ELF, Mach-O and PE images | `MCDetection`, `MCImportsCut` |
| `Machines` | properties, firmware tables, verified boot, tracer and worker setup of the five systems | `MCIdentities` |
| `PackageIdentity` | the signer of an APK, found and read in steps; the image of a Linux process | `MCIdentities` |
| `SignerIdentity` | Authenticode, macOS code requirements, the embedded signature of iOS | `MCIdentities` |
| `Secrets` | a guarded constant from the build to the read, with the framing of SHA-256 | `MCIdentities` |
| `HostValues` | evidence text, pins, the category word | `MCIdentities` |
| `MCRuntime`, `MCRuntimeHistory`, `MCRuntimeResume` | the instances of the runtime's runs | |
| `MCDetection`, `MCIdentities` | the instances of the others; `side` says which component a behaviour follows, since they share no state | |

### How `Runtime` corresponds to the code

One action is one access to something that another thread can see: an atomic
word, the state under its lock, the queue, the channel of readiness, the
condition variable. `pc[t]` is where thread `t` is between two of them, and
`call[t]` its local variables. `record()` is four actions: it takes the lock,
updates one slot per outcome, sets the denial word for what it latched, and
unlocks; `snapshot()` can look at any moment when the lock is free.

| Variable | Code |
|---|---|
| `running`, `latched`, `denyUntil`, `scanDone`, `waitDone` | the words of `fidelity/src/lib.rs` |
| `runtime`, `handles` | the runtime of the current claim, and the ones a host holds a handle of |
| `config`, `eng`, `lock`, `pending` | per runtime: configuration, engine state, its mutex, the queue |
| `work`, `phase`, `ready` | the reports that the worker dispatches, why, and the readiness channel |
| `crashed` | `process::abort()` happened |

A host thread does `StartClaim`, then one `Start*` step per stage of
`start_claimed()`, and `Abandon*` for the rollback. The worker does `Dispatch*`,
`Callback*`, `Worker*`. Every thread with a handle, the worker inside the
callback too, does `Ensure*`, `Deny*`, `Report*` and `Wait*`. What a detector
answers is any element of `Environments`; `DetectorSet` says where it comes
from. `Finding::in_category` is unused outside tests, so the category of a
finding is the one of its detector. `Unwinds` says whether a second panic, in
the drop of a panic payload or in a diagnostic subscriber, can end the worker
before it is ready.

### The other state machines

`DetectorSet` takes one step per start stage that touches detectors and one per
full scan. Each detector is a rule: which fact is clean, which ones are findings
of which strength, which ones are gaps. `probed` remembers what the platform
really answered to the capture, and only the properties read it.

`RuntimeBaseline` and `DispatchTargets` take one step per test of a loop.
`mapped` and `listed`, `held` and `seen` remember what the process really had
before a snapshot cut its list. Only the properties read them.

`ProcessMaps` interleaves the capabilities with a process whose other threads
map, list, unlist, unmap and unlink images; the image catalog is two steps, the
text and then the loader. `RegionWalk` takes one step per call of the kernel,
and pages change kind between any two. On Apple the call and what the code does
with its answer are two steps: `reply` holds the answer with the name of the
memory object that came with it, `rights` counts the names that the task holds,
and the second step releases the name under the guard of the code and then
tests the region. `mapped()` is a walk of one call. `PackageIdentity` takes one step per read
of the archive, with an upgrade possible between two, and `SignerIdentity` one
per call that gives out or takes back a handle, each of which can fail, the
check of `WinVerifyTrust()` too. In `Machines` the calls that come in pairs, a
size and then the bytes, are two steps, and the machine can move to another host
between them. In `ImportTables` a capability is one step, an operator over the cells of
the image, because a loaded table has no other reader or writer that matters. In these modules the properties that speak of a
whole call compare its answer with variables that remember what was the case
throughout (`bypass` and `calm`, `steady` and `unlisted`, `ran`), which no
action of the code reads.

`Secrets` takes the build, the shipping, the start, the reads and the drop as
steps; block size, alphabet and digest length are constants, and the compression
function is a constant operator. `HostValues` makes one value per step.

`StartGate` has no threads: claiming, arming, denying, completing the first
scan, opening, failing, releasing and aborting are one step each. The mapping of
`RuntimeGate` calls a rollback one step, taken when the start fails: between
there and the release of the slot the abstract words are already reset, because
no thread can read them. `TauriPlugin` runs over these steps instead of over
`Runtime`, which is what the refinement is for. It adds what the refinement
excludes: a start that fails although a callback kept its handle
(`builder.rs:329`). Such a handle is `stale`; it still writes and reads the
process words, which by then belong to no start or to the next one
(`StaleHandleDenies`, `ArmsOverDenial`).

`LocalAgent` takes one step per socket call. A piece of the answer stands for a
line, the empty line, other text, bytes that are no UTF-8, or one of the two
parts of a character of several bytes: a read, or the limit, may fall between
them, and then the buffer is no text.

## Runs

Passing runs; every property, and every named part of one, has a mutant of the
code that breaks it:

| Run | Question | Instance |
|---|---|---|
| `MCRuntimeSafety` | do the denial word and every snapshot agree, does every denial last and have a reason; do concurrent, failing and retried starts keep one runtime and a clean slot; is `IInv` an invariant; do the threads implement `StartGate` | two hosts and the worker; four configurations: one that denies from each source, three that fail at different stages |
| `MCRuntimeResponse` | is a due `Crash` ever lost, or overtaken by a return of `start()`; is `ReportInv` an invariant | callbacks, panics, health findings, a full queue |
| `MCRuntimeProgress` | does every start end, does a failed one return the slot, are waiters released, reports taken and due crashes done, under fairness | one host, `Unwinds`: the worker may stop before it is ready |
| `MCDetection` | do the merge loops compute the reference rules, and end; in which ways does the verdict of the loopback probe depend on the split; do failure, panic, gap and clean stay apart, and is required coverage kept; is steady code found and unregistered code reported beside threads that map and load; is an uncut list of call targets whole, and read inside its mappings | all lists of disjoint regions over three pages and tables of three slots, room for two; 522 streams in every split; the real detector inventory; three images of the process; walks over two pages of five kinds, and every range of `mapped()` in them; 600 ELF, 5,000 Mach-O and 12,000 PE images |
| `MCIdentities` | is a match of the own archive, also across an upgrade; does every handle go back, and no failure read as an acceptance or another signer; does a clean answer rest on what was read, and firmware name the machine it describes; do build and read of a guarded constant agree; are text, pins and the category word right at their limits; does the plugin keep what the gate promises | eight archives, three mappings, four own images; about 3,600 iOS images; 98 firmware tables, one longer than the limit; 9 bindings, 12 literals, 4 seeds, 7 answers of the platform; all texts of up to four characters; both starts of the plugin, with handles that outlive a start |

What a run checks is a small number of properties, most of them conjunctions of
named parts, each stated beside its code:

| Property | Parts, and what they say |
|---|---|
| `SlotIsSafe` | `CleanSlot`, `OneStart`, `OneRuntime`: concurrent, failed and retried starts |
| `ImplementsGate` | every step of the threads is one of the abstract gate, or none |
| `StartsSettle` | `StartEnds`, `SlotReturned` |
| `ReportInv` | the inductive invariant of the findings: which one stands behind each denial, report, callback and `Crash` |
| `DetectionInv` | the types of `MCDetection`'s modules, and the inductive invariants of the proofs: `LoopInv`, `RedirectedInv`, `AgentInv`, `SetInv`, `ProcInv`, `WalkInv` |
| `ScansEnd` | `ScanEnds`, `DispatchScanEnds`, `ProbeEnds`, `WalkEnds` |
| `VerdictIsExplained` | `PresentIsReal`, `AbsentIsExplained`: the loopback verdict under every split; only a cut inside a character behind the head hides a peer that would match otherwise |
| `OutcomesAreReal` | `CleanMeansChecked`, `GapsAreReal`: clean, gap and failure stay apart |
| `ProcAnswersTrue` | `CleanFactsAreTrue`, `BypassReported`, `QuietLoaderIsClean`: procfs and the loader beside other threads |
| `SteadyCodeSeen`, `NoNameKept` | `SteadyCodeFound`, `SteadyCodeReported`, `RangeAnswered`: the walks and `mapped()` beside other threads; no port name outlives the handling of its answer |
| `ImportsReadRight` | `WholeMeansWhole`, `ImportsWithinLimit`, `ReadsStayMapped` |
| `MachineAnswersTrue`, `TracerSeen` | `MachineTypeOK`, `CleanMachineIsClean` (`BuildClean`, `BoardClean`, `BootClean`, `DmiClean`, `AppleClean`: what a clean answer says of each source), `FirmwareTableRead`, `FirmwareAnswered` (the two calls), `WorkerJoinsHostMachine` |
| `ArchiveAnswersTrue` | `WholeArchiveAnswers`, `MatchIsOfOwnArchive`: across an upgrade, with decoys and damage |
| `HandlesReturned`, `AnswersAreGiven`, `IosSignatureRead` | handles on every path; what is accepted the system accepted, and no failure is another signer; `SignatureInsideSegment`, `TeamIsNamed` |
| `BuildAndReadAgree` | `BuildAgreesWithTarget`, `BoundReadHasMaterial`, `GuardedReadsTrue`, `WrongKeyStaysPrintable` |
| `HashInputsAreFramed` | `SaltsTellBuildsApart`, `KeyInputFits`, `PaddingIsStandard` |
| `ValuesAreKept` | `CutBetweenCharacters`, `PinIsWhatWasWritten`, `WordIsItsSet` |
| `ManagedHandleServes`, `DeniedStaysDenied` | `NoOrphan`, `ManagedIsHeld`; no command finds allowed what one found denied, but after a rollback under a kept handle |

Violation runs, each one a statement of the repository that the code does not
keep:

| Run | Statement | What happens |
|---|---|---|
| `MCRuntimeWindow` | an operation is denied until the first full scan, and when a category latched | `ensure_allowed()` reads an empty latch before the first full scan latches, and the scan flag after it: `Ok`, allowed at no instant of the call |
| `MCRuntimeEscape` | nothing clears a host denial | the initial callback shares its handle, a host denies through it, the worker stops before readiness, and the rollback clears the word |
| `MCRuntimeResume` | after a resume the worker scans before it applies a pending response | the loop takes the queue first |
| `MCDetectorCoverage` | a required full-only detector is run before success | `start()` runs only the cheap scan, so `Instrumentation` can never be required |
| `MCSnapshotsSplit` | read-execute code that turned writable is reported | a part of a region that turned writable has a new first address inside a known region, and reads as clean |
| `MCImportsCut` | the truncation flag says whether the image holds more targets than are kept | the Windows probe asks for `MAX_TARGETS` entries, the others for one more, so its list is cut without the flag |
| `MCLocalAgentCut` | a matching endpoint reports `Medium` | a binary frame in the same read as the head makes the whole answer no text |

These observations have no run of their own. The properties say what the code
does, and these are the places where a reader may expect more:

- *A failed call reads as a rejection on Windows.* `wintrust.rs:182-186` maps
  every status but success and `TRUST_E_NOSIGNATURE` to `Trust::Rejected`, which
  `wintrust.rs:127-128` describes as "The image carries a signature that did not
  validate", and `code_identity()` reports it as a finding.
  `docs/research/platform-notes.md:15` says "An API error is a health finding",
  and lines 118-121 ask that an inability to complete become one and that results
  tell revocation, expiry and tampering apart. `AnswersAreGiven` therefore gives
  "rejected" a meaning on macOS only; on Windows it gives one to "accepted" and to
  a match.
- *One absent firmware file on Linux.* `dmi.rs:50-54` returns `Ok(None)` when
  either file is absent; its comment at line 38 says "when the kernel writes
  neither file". The file that is there may name a monitor, and the machine still
  reads as hardware when it has no paravirtual device. `DmiClean` excludes the
  case.
- *Lost optional properties on Android.* `ro.boot.qemu`, the characteristics and
  one of the two locks read as absent when their read fails, so a clean answer
  says nothing about them. `emulation.rs:85-86` states it for a positive
  answer only: "a failed read of them changes nothing".
- *A cut inside a character.* `local_agent.rs:120` decodes the whole buffer, so a
  matching answer that a read ends in the middle of a character behind the head
  reads as absent. `MCLocalAgentCut` shows the same line with a binary frame.
- *A library that moves during the catalog.* The image catalog reads the mapping
  text and then asks the loader: an image that `dlopen()` or `dlclose()` moves in
  between can read as unregistered, so `QuietLoaderIsClean` is stated for calls
  that none overlaps.

Four other texts are behind the code and have no run. The comments at
`fidelity/src/builder.rs:148`, `fidelity/src/error.rs:162` and
`fidelity/src/lib.rs:159` say that the initial scan leaves root, jailbreak,
emulator and UI evidence to the first full scan. The detectors of the first three
are in the cheap set today, UI evidence comes from host reports and never from a
scan, and the first full scan adds only the loopback probe. `docs/plan/03-runtime-and-api.md:22-25` says that the two sets
are one set and that a loopback probe is the one to expect; it has arrived.

### Bounds, and why they are enough

- Two hosts: every race of the code is between two callers, or a caller and the
  worker. `MCRuntimeProgress` and `MCRuntimeResponse` need one, because their questions are about one caller and the worker.
- One runtime, because a start that fails before a handle escaped frees its
  runtime for the retry. `MCRuntimeEscape` has two: one that stays reachable
  after its start failed, and the one of the retry.
- `MOST_REPORTS = 1` for 16: one report fills the queue, so that a full queue
  and a dropped report happen. `MaxOccurrences = 1` caps the counter of a slot,
  which no guard reads. `Clock = {0}`: no guard reads a time.
- Three categories and three detectors: one per source of an outcome (initial
  scan, full scan only, host) with a response of its own each.
- Three pages with room for two regions, three slots with room for two: lists
  that are shorter, equal, longer and cut, with a boundary shared, before,
  inside and after. The theorems remove this bound.
- One deviating detector at a time, or none that answers: a detector reads no
  other's answer, and coverage is a conjunction over detectors.
- A buffer of seven pieces with matching heads of five to eight, so that the
  limit falls before, at and behind the end of a head and between the parts of a
  character. `MCLocalAgentCut` has room for six.
- `MOST_BYTES = 40` with firmware tables of 22 to 41 bytes.
- Pages of two bytes with segments that begin and end inside one, and an
  alignment of two pages: a range must be widened at both ends.
- Walks over two pages: regions that grow, split and vanish before, at and after
  the walk's address. `MAX_PASSES = 3` is more than such a walk can use, which
  is what the comment at the constant says of a process.
- Call targets with `LIMIT = 2`, and images with none to four: below, at and
  above the limit, with tables that end inside, at and outside a segment.
- Archives with a tail of nine cells and blocks of up to 22: a comment with a
  decoy end record, a block that does not fit, schemes in several orders.
- Images of iOS in nine cells of memory with slides of -4, 0 and 1: a signature
  before, inside, across and after its segment, and sums that wrap.
- `Secrets` with blocks of six cells, a length field of one, digests of four, an
  alphabet of seven and a cap of four: literals, seeds and materials below, at
  and above each of them. The toy compression function only has to tell inputs
  apart; no property rests on its strength.
- Texts of four characters of one to four bytes against a limit of five: every
  way for the limit to fall inside a character.

### Fairness

Liveness holds under what the code's scheduling gives. The system runs every
runnable thread (weak fairness of the worker's own steps and of the steps of a
call that began). The callback returns or panics, and a thread that waits for a
lock that becomes free again and again gets it (strong fairness). The wait of a
callback expires, since it has a limit. Nothing makes a host call, share a
handle, or give up a wait. A waiter that misses a notification is woken by the
next cycle, because every cycle notifies again. Three of the properties exempt
a runtime that is not `Served`: when the worker stops before it is ready, the
start fails, and a handle that the initial callback gave away has no worker.
A comparison, and a walk over the address space, only need their own thread to
run: the other threads may change every page between two calls, and a walk
still ends. The probe needs `connect_timeout`, `write` and `read` to keep
their deadlines; the peer need not send and need not close.

## Proofs

All theorems hold for every value of the constants under the named assumptions
of the modules. TLC evaluates each assumption on the runs that extend its
module. Most of them only give the constants their kinds. These say more:

| Assumption | What it says, and why the code justifies it |
|---|---|
| `RuntimeAssumption` | a detector names its own findings; a host observation is never a health finding, and the cheap scan does not run the host-report detector (`ui_abuse/host_report.rs:38-57`, `fidelity-detect/src/lib.rs:137-192`) |
| `BaselineAssumption`, `DispatchAssumption` | an address has one protection, an entry one value |
| `LoaderAssumption` | the alignment of a listed image is whole pages and not one byte, and its range, widened to that alignment, holds no code of another file. Code that hides in the padding of a listed image is accounted to it, so `BypassReported` does not cover it |
| `WalkAssumption` | an address space has fewer regions than `MAX_PASSES`, as the comment at the constant says |
| `ElfAssumption`, `MachAssumption`, `PeAssumption` | the loader maps an ELF image at one base with at most one dynamic segment, and what a load segment maps can be read; the rest are kinds |
| `SignerAssumption` | a process of iOS has an image |
| `FirmwareAssumption` | a string of the firmware is not empty and has no zero byte, and only the last structure has the type that ends the table, as SMBIOS prescribes |
| `ArchiveAssumption` | `MAX_TAIL` is the longest comment and the record in front of it (`zip.rs:17-23`); no second end record whose comment reaches the end of the file hides in a comment, or in a file that lost its own. Android would read such a file by that record, too |
| `InstallAssumption` | the package manager gives a package a directory of its own two below `/data/app`, and here a package has one archive. The code takes the first one of the mapping text, so of a package with splits it may be any of them: all are signed by the same key |
| `SizeAssumption`, `LiteralAssumption`, `InputAssumption` | the alphabet is bytes, a digest fits its cap, a literal that parses, a seed and an identity are bytes, and the length of a seed fits its field, which in the code is a `u64` |
| `HostValuesAssumption` | the declared categories differ and fit the 32 bits of the word; a character takes one to four bytes |

Two hypotheses stand in theorems. `RuntimeSafety`, and what rests
on it, assumes that no panic escapes the worker (`~Unwinds`); `MCRuntimeEscape`
shows that it must. `SecretsAgree` and `HashesFramed` assume `OutputsAreBytes`, that the hash
gives bytes whatever its state, which TLC cannot evaluate because it ranges over
everything.

### Loops and tables

Many of the properties speak of what a loop computes, from a byte that it cuts
to a table that it walks. The induction theorems of the library take an operator
as a parameter, which the provers cannot instantiate. `SequenceFacts` states
induction for sets instead: a set of naturals that holds 0 and each successor is
all of them (`SetInduction`, and `BoundedInduction` and `DownwardInduction` for
an interval). Each proof defines the set of indices where its claim holds. That
a recursive function is what its definition says also has to be shown, since
`CHOOSE` picks it: `BoundedRecursion`, `NatRecursion` and `DownwardRecursion`
give existence, and `RecursionUnique` that there is no other. `Joined` and the
`Flatten*` lemmas say which cell of a concatenation is which cell of its parts;
every layout of bytes is read through them.

### The runtime

- `RuntimeSafety!TypeCorrect`: types and the bound of the queue, whether or not
  a panic escapes the worker.
- `RuntimeSafety!Invariance` proves the inductive invariant `IInv`. None
  of the safety properties is inductive: that the denial word equals the latched
  set of the current runtime is kept by a rollback only because a start before
  its wait is alone (nobody holds a handle, the worker is off, no other start is
  past its claim), and by a record only because whoever is between the two
  writes holds the lock. `IInv` says who may be where in terms of `running`,
  `handles`, the lock and `pc`, and relates the words to the state at each of
  those places. The lemmas take one group of actions each: start stages,
  rollback, record, worker, handle. `LatchAgreement`, `SlotSafety`,
  `Permanence` and `WindowStaysClosed` follow from it; the last two are action
  properties.
- `RuntimeGateProofs!GateRefinement`: an initial state maps to one of
  `StartGate`, and each group of actions to one gate step or a stutter. The
  mapping resets the words when a start fails and the code does it later, word by
  word, so the proof needs to know that nobody reads them in between; and it
  needs the two words of the startup window to be clean whenever the slot is
  free, until a start spawns its worker, and after a rollback. Both are in
  `IInv`.
- `RuntimeReportProofs`: `ReportInv` adds to `IInv` what is in flight.
  A thread carries, the queue holds and the worker dispatches only reports with
  the action of their policy entry (`OutcomesInv`, `CarriedInv`, `QueuedInv`,
  `WorkInv`); a latch has a finding behind it and the reverse (`DenyInv`); the
  report of a due `Crash` is with some thread, in the queue or with the worker
  (`CrashInv`); and before the first full scan it is with the start or among the
  initial actions (`InitialInv`, with `OffInv` and `ReadyInv` for the order of
  spawn, initial actions, readiness and first take). `DenialExplained`,
  `DenialEffective`, `CrashKept` and `InitialCrashStops` follow.

### Detection

- `SnapshotProofs!LoopsExact` and `LoopExact`: `LoopInv`, or `RedirectedInv`,
  says that a snapshot is in order and, unless it was cut, complete; that the
  loop has collected exactly what the reference rule selects from the part it
  passed; and that everything before the second position ends, or starts, before
  what is still to be tested, which is why a position that never goes back is
  enough. From them follow `RegionCleanCertain` and `RegionFindingExact`,
  `TargetCleanCertain` and `TargetFindingExact`. Overlapping regions are included.
- `ImportsRight`: the readers of the three formats, for every image and every
  limit. `SectionsInv` and `ImportsInv` say of the loops over Mach-O sections and
  PE descriptors that the list so far is what the passed part of the table
  holds, or full, and that what Mach-O read is mapped. ELF has one table, and
  what is kept of it is the jump slots (`KeptElements`). A PE list is whole below
  the limit only; `MCImportsCut` shows why.
- `DetectionProofs!AgentVerdict`: in `AgentInv` the buffer is a prefix of the
  stream, and the verdict is that of a buffer to which no read would add. The
  early match that the loop makes after each read and the match at its end then
  agree, because a head that matches in a prefix matches in the whole. A prefix
  of a text that is no text ends between the parts of a character
  (`CutIsInCharacter`), which is the one excuse that depends on the split.
- `OutcomesReal`, `RequiredCoverage`: in `SetInv` what the detectors compare
  with is what the platform answered to the capture, and no slot is filled
  before the start succeeds. Each rule is then a case of its own.
- `ProcAnswers`: in `ProcInv` each line of the text that a call holds is of an
  image that was placed when it was read, which is in the catalog or in `bypass`
  as long as the loader was calm.
- `NamesReleased`, `SteadyCode`: `WalkInv` says that the answer of Apple's call
  that waits is of the space as it was, and that its name is the only one that the
  task holds (`ReplyIsReal`); that a region of the list is a
  run of code whose steady pages hold what it says (`RegionsAreReal`), that steady
  code below the cursor is in the list (`WalkedIsGathered`), that a judged region
  without a file was noticed (`JudgedIsKnown`), and that each pass moved the
  cursor, so that the limit on passes ends no walk. Where a run of pages ends is
  the least page of another kind (`LeastOfSet`).
- `ScanKept`: `MCDetection` runs all components of a scan side by side. A step of
  one leaves the state of the others alone (`SidesApart`), so each
  specification is implemented by the composition and `DetectionInv` holds of it.

### Identity

- `PluginServes`, `PluginStaysDenied`: over `StartGate`, `PluginInv` says that the
  plugin and the host never both own the start, that a current handle is of the
  start that holds the slot, and that a stale one in the state is one that a
  callback kept. A rollback under such a handle is the exception that the second
  theorem states.
- `HandlesBack`, `AnswersGiven`, `SignatureRead`: in `SignerInv` the handles are a
  function of the point (`HandlesAt`), what macOS keeps between two calls is of the
  image that was asked about, and what Windows found was copied out of a file; in `IosInv` the team is that of the
  loaded image. That the address of a signature lies inside its segment is
  arithmetic of `signature_layout`, with its checked sums.
- `MachineAnswers`, `TracerReported`: in `MachineInv` the size that the Apple probe
  holds between its two calls is one that the kernel gave. The walk over the
  firmware table rests on the layout of a table: where a run of strings ends
  (`RunEndsBehind`), that its pieces are the strings that were written
  (`PiecesAre`), and that a step of the walk goes from one structure to the next
  (`StructureMoves`). `TableRead` then is an induction over the structures, and
  `CutRead` says that a walk over a cut table, at any byte, names the same
  machine or none. `FirmwareAnswers` relates the two calls: what the second one
  wrote is the whole table of the machine that answered it, or nothing.
- `ArchiveAnswers`: `InstallInv` says that the mapping text is that of a
  layout, and names every archive that is installed; `HoldInv` that what the
  probe holds after each read is of the archive that the process ran from when
  the text was read. The reads of a path and of an open file differ there: an
  upgrade replaces the archive under a path, never the cells of an open file.
  `FoundIsOwn` shows that the path is the own one, `TailRead` that the record
  found from the end is the archive's own, `FooterRead` and `BlockRead` that the
  block is the one it states, and `SignerRead` that the walk over its
  entries, in any order and with any unknown or damaged ones between, ends at the
  certificate of the newest scheme.

### Values

- `ValuesKept`: in `ValueInv` what was made is what its constructor makes of what
  was given, and `WordInv` says that bit `i` of the word is set just when category
  `i` was inserted. `TextCut` shows that the search downward for a boundary ends
  behind the last character that fits, and `DigestReadBack` that an accepted
  digest is written out as it was given, up to case. `contains`,
  `iter` and `len` then agree with the set: the shift and the mask are halving
  and doubling, and the count of bits is the number of elements.
- `SecretsAgree`: in `SecretInv` there is one artifact, its value is its literal
  under the key of what it states, a running runtime keeps what it resolved, and an
  open secret is the decrypted value. The text cipher turns back because its step
  is addition modulo the size of the alphabet, and the other because `Xor` twice is
  the identity on bytes, bit by bit.
- `HashesFramed`: in `FrameInv` every part of a hash input is bytes: seed and
  literal of the build, the salt it derived, what it states and what the image
  reports. Two framed inputs that are equal have equal first lengths, hence
  equal parts (`FrameTells`); what is longer than the cap is replaced by its
  digest, so the input of a key fits (`ReducedFits`); and the blocks that were
  compressed, one after another, are the message, one mark, the least number of
  zeros and the length (`BlocksPadded`), wherever the message ends in its block.

TLC has checked these invariants on the instances of the runs as well. `IInv`,
`ReportInv` and `DetectionInv` are properties of runs; `PluginInv`, `SignerInv`,
`IosInv`, `MachineInv`, `PackageInv` and `SecretInv` hold on the instance of
`MCIdentities`.

### Only model-checked

- Every liveness property and everything with fairness, which this prover does
  not reach: `StartsSettle`, `WaitersReleased`, `ReportsTaken`, `CrashHappens`,
  `ScansEnd`.
- The violation runs, which are counterexamples.

## Not modelled

| Part | Why |
|---|---|
| the compression function of SHA-256 | a published algorithm, checked by vectors; a parameter of `Secrets` |
| the layouts and declarations of foreign functions in the probes | they have no steps; what the calls do is external |
| the setters of `ExpectedIdentity`, the traits of `fidelity-types/src/interface.rs` | one assignment each, or no code |
| texts of errors and of evidence, labels of signers | nothing depends on their wording |
| test kit, examples, the Android harness, fuzz targets and benchmarks | test support |
| the jittered sleep, the overwriting of a dropped secret | nothing reads their effect |
| the caps (`limit`) of `mapped_bytes()` in the ELF readers (`sys/dispatch.rs:136` on Linux, `:178` on Android), a build without `FIDELITY_BUILD_SEED` (`fidelity-macros/src/lib.rs:86`) | each one refuses what it stops at, with an error of its own |
| `ContentDigest::new` (`identity.rs:317-323`) | it refuses an empty value and keeps any other as given |

## Plan

Done: the model of every part above, and a theorem for every invariant and every
action property that a passing run checks. What is left:

1. Liveness, when a prover for it is at hand: `StartsSettle` and `ReportsTaken`
   would rest on `IInv`, with the place of the starting thread and the length of
   the queue as the measure.
2. `RuntimeSafety` with `Unwinds`: a weaker `IInv`, in which a runtime that lost
   its worker may still be reachable. `MCRuntimeEscape` shows which part has
   to go.
3. Packages with splits in `PackageIdentity`, which need the fact that all
   archives of a package have one signer.

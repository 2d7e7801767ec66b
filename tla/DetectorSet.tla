---------------------------- MODULE DetectorSet ----------------------------
(***************************************************************************)
(* The built-in detectors (crates/fidelity-detect): what each one makes of *)
(* the answer of the platform, which of them the initial scan and a full   *)
(* scan run, and the coverage that a host can require (crates/fidelity,    *)
(* builder.rs). Runtime models the start protocol and the worker, and takes*)
(* the outcomes that this module computes from a set.                      *)
(*                                                                         *)
(* A platform answers each detector with one of its facts, with            *)
(* "Unsupported" or "Failed", or the detector panics. The platform is      *)
(* external. RuntimeBaseline and DispatchTargets compute the facts of the  *)
(* two detectors that compare with a capture.                              *)
(***************************************************************************)
EXTENDS Naturals, FiniteSets

CONSTANTS
  Worlds,      \* the answers that a platform may give to one scan
  Required     \* the sets of categories that a host may require

CategoryOf ==
  [PLATFORM_TRUST    |-> "Integrity",        EXPECTED_IDENTITY |-> "Integrity",
   RUNTIME_BASELINE  |-> "Integrity",        TRACER_PRESENT    |-> "Debugging",
   UNACCOUNTED_CODE  |-> "Instrumentation",  DISPATCH_TARGETS  |-> "Instrumentation",
   IMAGE_CATALOG     |-> "Instrumentation",  LOCAL_AGENT       |-> "Instrumentation",
   SYSTEM_BUILD      |-> "DeviceCompromise", VERIFIED_BOOT     |-> "DeviceCompromise",
   MACHINE_HOST      |-> "Virtualization",   HOST_REPORT       |-> "UiAbuse"]

INVENTORY == DOMAIN CategoryOf
Categories == {CategoryOf[d] : d \in INVENTORY}

\* What scan_cheap() and scan_all() run; only the host supplies HOST_REPORT.
CheapScan == INVENTORY \ {"LOCAL_AGENT", "HOST_REPORT"}
FullScan == CheapScan \cup {"LOCAL_AGENT"}

\* The detectors that compare with what start() captured.
Comparing == {"RUNTIME_BASELINE", "DISPATCH_TARGETS"}

Captures == {"Snapshot", "Partial", "Unsupported", "Failed"}

F == INSTANCE Findings WITH Detectors <- INVENTORY

-----------------------------------------------------------------------------
(* What each detector reports as clean, as a finding and as a gap, and how *)
(* strong the finding is.                                                  *)

Rule(clean, found, gap, strength) ==
  [clean |-> clean, found |-> found, gap |-> gap, strength |-> strength]

platform_trust == Rule("Accepted", {"Rejected"}, {"Unavailable"}, F!Medium)
expected_identity == Rule("Same", {"Different"}, {}, F!High)
runtime_baseline == Rule("Unchanged", {"Added", "Opened"}, {"Truncated"}, F!Medium)
tracer_present == Rule("Absent", {"Present"}, {}, F!Medium)
unaccounted_code == Rule("Accounted", {"Unaccounted"}, {}, F!Medium)
dispatch_targets == Rule("Unmoved", {"Redirected"}, {"Truncated"}, F!Medium)
image_catalog == Rule("Accounted", {"Unregistered"}, {}, F!Medium)
local_agent == Rule("Absent", {"Present"}, {}, F!Medium)
system_build == Rule("Released", {"Development"}, {}, F!Medium)
verified_boot == Rule("Verified", {"Unverified"}, {}, F!Medium)
machine_host == Rule("Hardware", {"VirtualMachine", "Simulated"}, {}, F!Medium)

RuleOf ==
  [PLATFORM_TRUST   |-> platform_trust,   EXPECTED_IDENTITY |-> expected_identity,
   RUNTIME_BASELINE |-> runtime_baseline, TRACER_PRESENT    |-> tracer_present,
   UNACCOUNTED_CODE |-> unaccounted_code, DISPATCH_TARGETS  |-> dispatch_targets,
   IMAGE_CATALOG    |-> image_catalog,    LOCAL_AGENT       |-> local_agent,
   SYSTEM_BUILD     |-> system_build,     VERIFIED_BOOT     |-> verified_boot,
   MACHINE_HOST     |-> machine_host]

Answers(d) ==
  {RuleOf[d].clean} \cup RuleOf[d].found \cup RuleOf[d].gap
    \cup {"Unsupported", "Failed", "Panics"}

IsWorld(world) ==
  DOMAIN world = FullScan /\ \A d \in FullScan : world[d] \in Answers(d)

ASSUME WorldAssumption ==
  /\ \A world \in Worlds : IsWorld(world)
  /\ Required \subseteq SUBSET Categories

VARIABLES
  setPc,      \* "build", "scan", "failed" or "running"
  required,   \* Builder::required_coverage
  expected,   \* the host supplied an expected identity
  captured,   \* what start() captured for the detectors that compare
  probed,     \* what the platform answered to the capture
  slots,      \* the last outcome of each detector
  answers     \* the answers of the platform to the last scan

setVars == <<setPc, required, expected, captured, probed, slots, answers>>

-----------------------------------------------------------------------------
(* One detector.                                                           *)

Sight(d, strength, health) ==
  F!Found([detector |-> d, strength |-> strength, health |-> health, at |-> 0])

Health(d) == Sight(d, F!Low, TRUE)

Interpret(d, answer) ==
  CASE answer = RuleOf[d].clean -> F!Clean
    [] answer \in RuleOf[d].found -> Sight(d, RuleOf[d].strength, FALSE)
    [] answer \in RuleOf[d].gap \cup {"Unsupported"} -> F!Unsupported
    [] answer = "Failed" -> Health(d)

\* The detector reads the platform at all.
Asks(d) ==
  /\ d = "EXPECTED_IDENTITY" => expected
  /\ d \in Comparing => captured[d] = "Snapshot"

\* A detector that does not ask states a gap, or that its capture failed.
WithoutAsking(d) ==
  IF d \in Comparing /\ captured[d] = "Failed" THEN Health(d)
  ELSE F!Unsupported

\* Slip: a panic leaves the outcome of an idle detector.
GuardedQuiet(d, answer) ==
  IF ~Asks(d) THEN WithoutAsking(d)
  ELSE IF answer = "Panics" THEN F!Clean ELSE Interpret(d, answer)

\* A panic in a detector is its own health finding.
Guarded(d, answer) ==
  IF ~Asks(d) THEN WithoutAsking(d)
  ELSE IF answer = "Panics" THEN Health(d) ELSE Interpret(d, answer)

SetOutcomes(scan, world) == [d \in scan |-> Guarded(d, world[d])]

-----------------------------------------------------------------------------
(* The coverage that a host requires.                                      *)

\* Slip: one detector of the category is enough.
MissingCoverageAny(outcomes) ==
  {c \in required :
     ~\E d \in INVENTORY :
        /\ CategoryOf[d] = c
        /\ d \in DOMAIN outcomes
        /\ F!SuppliesCoverage(outcomes[d])}

\* missing_required_coverage(): a detector that did not run has no outcome.
MissingCoverage(outcomes) ==
  {c \in required :
     \E d \in INVENTORY :
       /\ CategoryOf[d] = c
       /\ ~(d \in DOMAIN outcomes /\ F!SuppliesCoverage(outcomes[d]))}

-----------------------------------------------------------------------------
NoAnswers == [d \in FullScan |-> "Unsupported"]
NewSlots == [d \in INVENTORY |-> F!NotRun]

SetInit ==
  /\ setPc = "build"
  /\ required = {}
  /\ expected = FALSE
  /\ captured = [d \in Comparing |-> "Unsupported"]
  /\ probed = captured
  /\ slots = NewSlots
  /\ answers = NoAnswers

\* Slip: a capture that failed reads as one that the platform cannot give.
CaptureMerged ==
  /\ setPc = "build"
  /\ required' \in Required
  /\ expected' \in BOOLEAN
  /\ probed' \in [Comparing -> Captures]
  /\ captured' = [d \in Comparing |->
                    IF probed'[d] = "Failed" THEN "Unsupported" ELSE probed'[d]]
  /\ setPc' = "scan"
  /\ UNCHANGED <<slots, answers>>

\* The host chose its options, and start() captures once.
Capture ==
  /\ setPc = "build"
  /\ required' \in Required
  /\ expected' \in BOOLEAN
  /\ probed' \in [Comparing -> Captures]
  /\ captured' = probed'
  /\ setPc' = "scan"
  /\ UNCHANGED <<slots, answers>>

\* Slip: the slots are what the scan returned.
RecordedAlone(outcomes) == outcomes

\* The slots after a scan recorded its outcomes.
Recorded(outcomes) ==
  [d \in INVENTORY |-> IF d \in DOMAIN outcomes THEN outcomes[d] ELSE slots[d]]

InitialScan ==
  /\ setPc = "scan"
  /\ \E world \in Worlds :
       LET outcomes == SetOutcomes(CheapScan, world)
       IN  /\ setPc' = IF MissingCoverage(outcomes) = {} THEN "running"
                    ELSE "failed"
           /\ slots' = IF MissingCoverage(outcomes) = {}
                       THEN Recorded(outcomes) ELSE slots
           /\ answers' = world
  /\ UNCHANGED <<required, expected, captured, probed>>

\* The host builds again after a start that failed.
Rebuild ==
  /\ setPc = "failed"
  /\ setPc' = "build"
  /\ required' = {}
  /\ expected' = FALSE
  /\ captured' = [d \in Comparing |-> "Unsupported"]
  /\ probed' = captured'
  /\ answers' = NoAnswers
  /\ UNCHANGED slots

FullScanRuns ==
  /\ setPc = "running"
  /\ \E world \in Worlds :
       /\ slots' = Recorded(SetOutcomes(FullScan, world))
       /\ answers' = world
  /\ UNCHANGED <<setPc, required, expected, captured, probed>>

\* host_report(): an overlay is Medium, every other observation is Low.
HostReports ==
  /\ setPc = "running"
  /\ \E strength \in {F!Medium, F!Low} :
       slots' = [slots EXCEPT !["HOST_REPORT"] =
                                Sight("HOST_REPORT", strength, FALSE)]
  /\ UNCHANGED <<setPc, required, expected, captured, probed, answers>>

SetNext == Capture \/ InitialScan \/ Rebuild \/ FullScanRuns \/ HostReports

SetSpec == SetInit /\ [][SetNext]_setVars

-----------------------------------------------------------------------------
SetTypeOK ==
  /\ setPc \in {"build", "scan", "failed", "running"}
  /\ required \subseteq Categories
  /\ expected \in BOOLEAN
  /\ {captured, probed} \subseteq [Comparing -> Captures]
  /\ DOMAIN slots = INVENTORY
  /\ \A d \in INVENTORY :
       /\ slots[d].kind \in {"NotRun", "Clean", "Unsupported", "Finding"}
       /\ F!IsFinding(slots[d]) => slots[d].finding.detector = d
  /\ IsWorld(answers)

\* The host and the capture gave d what it needs.
Equipped(d) ==
  /\ d = "EXPECTED_IDENTITY" => expected
  /\ d \in Comparing => probed[d] = "Snapshot"

\* The platform answered the question of d about the environment itself.
Answered(d) ==
  Equipped(d) /\ answers[d] \in {RuleOf[d].clean} \cup RuleOf[d].found

\* "`NotRun` must never read as a clean result", nor a failure nor a panic
\* (docs/plan/04, detect/src/lib.rs:194-210): a clean slot of a running runtime
\* means that the detector compared a good answer, with all that it needs.
CleanMeansChecked ==
  \A d \in INVENTORY : slots[d] = F!Clean =>
    d \in FullScan /\ Equipped(d) /\ answers[d] = RuleOf[d].clean

\* "A transient failure must never read as a platform that cannot answer"
\* (detect/src/lib.rs:52-54): behind every gap is an answer, or a capture, that
\* stated one, or an identity that the host did not supply.
GapsAreReal ==
  \A d \in INVENTORY : slots[d] = F!Unsupported =>
    \/ d = "EXPECTED_IDENTITY" /\ ~expected
    \/ d \in Comparing /\ probed[d] \in {"Unsupported", "Partial"}
    \/ Equipped(d) /\ answers[d] \in RuleOf[d].gap \cup {"Unsupported"}

\* Clean, gap and failure stay apart from the probe to the slot, through captures,
\* panics and partial answers (detect/src/lib.rs:52-54, 194-230).
OutcomesAreReal == CleanMeansChecked /\ GapsAreReal

\* The inductive invariant behind OutcomesAreReal: the detectors compare with what
\* the platform answered to the capture, nothing is recorded before the start
\* succeeds (builder.rs:288-298), and only the host fills the slot of its reports.
SetInv ==
  /\ SetTypeOK
  /\ captured = probed
  /\ setPc # "running" => slots = NewSlots
  /\ slots["HOST_REPORT"].kind \in {"NotRun", "Finding"}
  /\ OutcomesAreReal

\* Required coverage is complete (builder.rs:164-171): a start succeeds only
\* when every detector of every required category was asked by the
\* initial scan, and the platform answered it.
CoverageKept ==
  [][setPc = "scan" /\ setPc' = "running" =>
       \A d \in INVENTORY : CategoryOf[d] \in required =>
         d \in CheapScan /\ Answered(d)']_setVars

\* "`require_complete_coverage()` runs each required detector before success.
\* This includes a bounded full-only detector when its category is required"
\* (CHANGELOG.md): a start fails only for a detector that the platform does not
\* answer, or for a category that has no platform detector.
CoverageIsObtainable ==
  setPc = "failed" =>
    \E d \in INVENTORY : /\ CategoryOf[d] \in required
                         /\ d \in FullScan => ~Answered(d)
=============================================================================

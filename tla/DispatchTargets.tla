-------------------------- MODULE DispatchTargets --------------------------
(***************************************************************************)
(* The dispatch detector: start() captures the call targets of the image   *)
(* of the host (fidelity/src/builder.rs), and every later scan compares    *)
(* the table with that capture                                             *)
(* (fidelity-detect/src/instrumentation/dispatch.rs) in one pass over both *)
(* (fidelity-core/src/fact/dispatch.rs).                                   *)
(*                                                                         *)
(* The loop runs one test at a time, and the vector that it fills is a set.*)
(* held and seen hold the whole table, before the snapshot dropped         *)
(* anything; no step reads them.                                           *)
(***************************************************************************)
EXTENDS Naturals, Sequences, Functions

CONSTANTS
  Tables,        \* the call targets that a probe may list
  MAX_TARGETS    \* how many of them a snapshot keeps

\* A table entry, and where it points.
Target == [slot : Nat, value : Nat]

\* A probe that lists an entry twice reads the same value twice.
ASSUME DispatchAssumption ==
  /\ MAX_TARGETS \in Nat
  /\ Tables \subseteq Seq(Target)
  /\ \A table \in Tables : \A i, j \in DOMAIN table :
       table[i].slot = table[j].slot => table[i].value = table[j].value

VARIABLES
  start,        \* what start() captured
  present,      \* the targets of the scan that runs
  step,         \* "start", then "idle" or "compare"
  target,       \* the position in present
  before,       \* the position in the capture
  redirected,   \* the targets that redirected_since() returns
  verdict,      \* the outcome of the last scan
  held,         \* the whole table at start
  seen          \* the whole table at the last scan

dispatchVars == <<start, present, step, target, before, redirected, verdict,
                  held, seen>>

-----------------------------------------------------------------------------
(* Snapshots.                                                              *)

\* The derived order of Target: slot, then value.
TargetPrecedes(a, b) ==
  a.slot < b.slot \/ (a.slot = b.slot /\ a.value < b.value)

SlotOrder(s) == \A i, j \in DOMAIN s : i < j => ~TargetPrecedes(s[j], s[i])

SortedTargets(table) ==
  LET places == 1 .. Len(table)
      orders == Bijection(places, places)
  IN  {s \in {[i \in places |-> table[p[i]]] : p \in orders} : SlotOrder(s)}

TargetSnapshot(kind, targets, bound, truncated) ==
  [kind |-> kind, targets |-> targets, bound |-> bound,
   truncated |-> truncated]

\* DispatchTargets::new(): the first MAX_TARGETS targets in slot order.
Targets(table, bound) ==
  {TargetSnapshot("Fact",
                  IF Len(s) > MAX_TARGETS THEN SubSeq(s, 1, MAX_TARGETS) ELSE s,
                  bound, Len(s) > MAX_TARGETS) : s \in SortedTargets(table)}

NoTargets(kind) == TargetSnapshot(kind, <<>>, FALSE, FALSE)

-----------------------------------------------------------------------------
DispatchInit ==
  /\ start = NoTargets("Unsupported")
  /\ present = <<>>
  /\ step = "start"
  /\ target = 1
  /\ before = 1
  /\ redirected = {}
  /\ verdict = "NotRun"
  /\ held = {}
  /\ seen = {}

\* start() reads the table once, and never again.
CaptureTargets ==
  /\ step = "start"
  /\ \E table \in Tables, bound \in BOOLEAN :
       /\ start' \in Targets(table, bound)
       /\ held' = {table[i] : i \in DOMAIN table}
  /\ step' = "idle"
  /\ UNCHANGED <<present, target, before, redirected, verdict, seen>>

CaptureNoTargets ==
  /\ step = "start"
  /\ \E kind \in {"Unsupported", "Failed"} : start' = NoTargets(kind)
  /\ step' = "idle"
  /\ UNCHANGED <<present, target, before, redirected, verdict, held, seen>>

\* Slip: a capture that was cut is compared all the same.
ComparableAny == start.kind = "Fact" /\ start.bound

\* The capture supports a comparison: read, fully bound and complete.
Comparable == start.kind = "Fact" /\ start.bound /\ ~start.truncated

\* A scan without such a capture reads nothing.
DispatchWithoutStart ==
  /\ step = "idle"
  /\ ~Comparable
  /\ verdict' = IF start.kind = "Failed" THEN "DetectorHealth"
                ELSE "Unsupported"
  /\ UNCHANGED <<start, present, step, target, before, redirected, held, seen>>

\* The scan has no table to compare: a gap, or a health finding.
DispatchReadsNothing ==
  /\ step = "idle"
  /\ Comparable
  /\ verdict' \in {"Unsupported", "DetectorHealth"}
  /\ UNCHANGED <<start, present, step, target, before, redirected, held, seen>>

\* Slip: the loop goes on at the positions of the last scan.
DispatchReadsKeeps ==
  /\ step = "idle"
  /\ Comparable
  /\ \E table \in Tables, bound \in BOOLEAN : \E now \in Targets(table, bound) :
       /\ present' = now.targets
       /\ seen' = {table[i] : i \in DOMAIN table}
       /\ step' = IF now.truncated THEN "idle" ELSE "compare"
       /\ verdict' = IF now.truncated THEN "Unsupported" ELSE "NotRun"
  /\ redirected' = {}
  /\ UNCHANGED <<start, held, target, before>>

\* The scan has a table: a gap when it was cut, otherwise the comparison.
DispatchReads ==
  /\ step = "idle"
  /\ Comparable
  /\ \E table \in Tables, bound \in BOOLEAN : \E now \in Targets(table, bound) :
       /\ present' = now.targets
       /\ seen' = {table[i] : i \in DOMAIN table}
       /\ step' = IF now.truncated THEN "idle" ELSE "compare"
       /\ verdict' = IF now.truncated THEN "Unsupported" ELSE "NotRun"
  /\ target' = 1 /\ before' = 1 /\ redirected' = {}
  /\ UNCHANGED <<start, held>>

-----------------------------------------------------------------------------
(* redirected_since().                                                     *)

\* Slip: the entry with the same slot is passed over.
SlotBeforeOrAt ==
  before <= Len(start.targets)
    /\ start.targets[before].slot <= present[target].slot

SlotBefore ==
  before <= Len(start.targets)
    /\ start.targets[before].slot < present[target].slot

\* Slip: the position does not move.
CompareSkipStays ==
  /\ step = "compare" /\ target <= Len(present)
  /\ SlotBefore
  /\ UNCHANGED dispatchVars

CompareSkip ==
  /\ step = "compare" /\ target <= Len(present)
  /\ SlotBefore
  /\ before' = before + 1
  /\ UNCHANGED <<start, present, step, target, redirected, verdict, held,
                 seen>>

\* Slip: the values at two positions are compared, whatever their slots.
CompareTestValues ==
  /\ step = "compare" /\ target <= Len(present)
  /\ ~SlotBefore
  /\ redirected' = IF /\ before <= Len(start.targets)
                      /\ start.targets[before].value # present[target].value
                   THEN redirected \cup {present[target]} ELSE redirected
  /\ target' = target + 1
  /\ UNCHANGED <<start, present, step, before, verdict, held, seen>>

CompareTest ==
  /\ step = "compare" /\ target <= Len(present)
  /\ ~SlotBefore
  /\ redirected' = IF /\ before <= Len(start.targets)
                      /\ start.targets[before].slot = present[target].slot
                      /\ start.targets[before].value # present[target].value
                   THEN redirected \cup {present[target]} ELSE redirected
  /\ target' = target + 1
  /\ UNCHANGED <<start, present, step, before, verdict, held, seen>>

CompareEnds ==
  /\ step = "compare" /\ target > Len(present)
  /\ step' = "idle"
  /\ verdict' = IF redirected = {} THEN "Clean" ELSE "DispatchRedirected"
  /\ UNCHANGED <<start, present, target, before, redirected, held, seen>>

-----------------------------------------------------------------------------
DispatchScan == DispatchWithoutStart \/ DispatchReadsNothing \/ DispatchReads

DispatchCompare == CompareSkip \/ CompareTest \/ CompareEnds

DispatchNext ==
  CaptureTargets \/ CaptureNoTargets \/ DispatchScan \/ DispatchCompare

DispatchSpec == DispatchInit /\ [][DispatchNext]_dispatchVars

\* The thread that scans keeps running.
DispatchFairSpec == DispatchSpec /\ WF_dispatchVars(DispatchCompare)

-----------------------------------------------------------------------------
(* What the detector promises about the table itself.                      *)

\* The table held the slot of t with another value.
MovedSince(table, t) == \E q \in table : q.slot = t.slot /\ q.value # t.value

DispatchOutcomes == {"NotRun", "Clean", "Unsupported", "DetectorHealth",
             "DispatchRedirected"}

DispatchTypeOK ==
  /\ start \in [kind : {"Fact", "Unsupported", "Failed"},
                targets : Seq(Target), bound : BOOLEAN, truncated : BOOLEAN]
  /\ present \in Seq(Target)
  /\ step \in {"start", "idle", "compare"}
  /\ target \in 1 .. Len(present) + 1
  /\ before \in 1 .. Len(start.targets) + 1
  /\ redirected \subseteq Target
  /\ verdict \in DispatchOutcomes
  /\ held \subseteq Target
  /\ seen \subseteq Target

\* A clean scan compared every target of the image (dispatch.rs:62-84 of the
\* detector): no entry that the table held at start points elsewhere now.
UnmovedIsCertain ==
  verdict = "Clean" => \A t \in seen : ~MovedSince(held, t)

\* A finding counts exactly the entries that moved, by the reference rule of
\* the tests, never of a table that the loader still binds
\* (fact/dispatch.rs:117-122).
RedirectedIsExact ==
  verdict = "DispatchRedirected" =>
    /\ redirected = {t \in seen : MovedSince(held, t)}
    /\ redirected # {}
    /\ start.bound

\* Every comparison ends.
DispatchScanEnds == step = "compare" ~> step = "idle"

-----------------------------------------------------------------------------
(* The invariant of the loop.                                              *)

TargetElements(s) == {s[i] : i \in DOMAIN s}

\* The elements before position n.
TargetsUpto(s, n) == {s[i] : i \in 1 .. n - 1}

StartInv ==
  /\ SlotOrder(start.targets)
  /\ \A i, j \in DOMAIN start.targets :
       start.targets[i].slot = start.targets[j].slot
         => start.targets[i].value = start.targets[j].value
  /\ Comparable => held = TargetElements(start.targets)

DispatchCompareInv ==
  step = "compare" =>
    /\ Comparable
    /\ SlotOrder(present)
    /\ seen = TargetElements(present)
    /\ \A k \in 1 .. before - 1 :
         target <= Len(present)
           => start.targets[k].slot < present[target].slot
    /\ redirected = {t \in TargetsUpto(present, target) : MovedSince(held, t)}

\* The invariant that the proofs show: the loop has done exactly what it passed
\* (fact/dispatch.rs:124-142), and an outcome stands only between scans.
RedirectedInv ==
  /\ StartInv
  /\ DispatchCompareInv
  /\ step # "idle" => verdict = "NotRun"
=============================================================================

-------------------------- MODULE RuntimeBaseline --------------------------
(***************************************************************************)
(* The runtime baseline detector: start() captures the executable regions  *)
(* of the process (fidelity/src/builder.rs), and every later scan compares *)
(* a new list with that one (fidelity-detect/src/integrity/baseline.rs) in *)
(* two passes over both lists (fidelity-core/src/fact/baseline.rs).        *)
(*                                                                         *)
(* The loops run one test at a time. The vectors that they fill are sets   *)
(* here: the detector uses whether they are empty, and counts and sizes    *)
(* for its text. mapped and listed hold what the process really mapped,    *)
(* before the snapshot dropped anything; no step reads them.               *)
(***************************************************************************)
EXTENDS Naturals, Sequences, Functions

CONSTANTS
  Listings,      \* the lists of executable regions that a system may return
  MAX_REGIONS    \* how many of them a snapshot keeps

\* One executable region; end is the address after it.
Region == [start : Nat, end : Nat, writable : BOOLEAN]

\* A process has one protection per address.
ASSUME BaselineAssumption ==
  /\ MAX_REGIONS \in Nat
  /\ Listings \subseteq Seq(Region)
  /\ \A listing \in Listings : \A i, j \in DOMAIN listing :
       listing[i].start = listing[j].start
         => listing[i].writable = listing[j].writable

VARIABLES
  baseline,   \* what start() captured
  current,    \* the regions of the scan that runs
  pc,         \* "start", then "idle" or the loop of the scan that runs
  region,     \* the position in current
  known,      \* the position in the baseline
  added,      \* the regions that added_since() returns
  opened,     \* the regions that now_writable_since() returns
  outcome,    \* the outcome of the last scan
  mapped,     \* the regions of the process at start
  listed      \* the regions of the process at the last scan

vars == <<baseline, current, pc, region, known, added, opened, outcome,
          mapped, listed>>

-----------------------------------------------------------------------------
(* Snapshots.                                                              *)

Holds(r, address) == r.start <= address /\ address < r.end

\* The derived order of Region: start, then end, then protection.
Precedes(a, b) ==
  \/ a.start < b.start
  \/ a.start = b.start /\ a.end < b.end
  \/ a.start = b.start /\ a.end = b.end /\ ~a.writable /\ b.writable

AddressOrder(s) ==
  \A i, j \in DOMAIN s : i < j => ~Precedes(s[j], s[i])

Sorted(listing) ==
  LET places == 1 .. Len(listing)
  IN  {s \in {[i \in places |-> listing[p[i]]] :
                 p \in Bijection(places, places)} : AddressOrder(s)}

Snapshot(kind, regions, truncated) ==
  [kind |-> kind, regions |-> regions, truncated |-> truncated]

Kept(s, truncated) ==
  Snapshot("Fact",
           IF Len(s) > MAX_REGIONS THEN SubSeq(s, 1, MAX_REGIONS) ELSE s,
           truncated)

\* CodeRegions::new(): the first MAX_REGIONS regions in address order. The
\* order is total, so the set has one element.
CodeRegions(listing) ==
  {Kept(s, Len(s) > MAX_REGIONS) : s \in Sorted(listing)}

NoAnswer(kind) == Snapshot(kind, <<>>, FALSE)

-----------------------------------------------------------------------------
Init ==
  /\ baseline = NoAnswer("Unsupported")
  /\ current = <<>>
  /\ pc = "start"
  /\ region = 1
  /\ known = 1
  /\ added = {}
  /\ opened = {}
  /\ outcome = "NotRun"
  /\ mapped = {}
  /\ listed = {}

\* start() reads the regions once, and never again.
CaptureRegions ==
  /\ pc = "start"
  /\ \E listing \in Listings :
       /\ baseline' \in CodeRegions(listing)
       /\ mapped' = {listing[i] : i \in DOMAIN listing}
  /\ pc' = "idle"
  /\ UNCHANGED <<current, region, known, added, opened, outcome, listed>>

CaptureNothing ==
  /\ pc = "start"
  /\ \E kind \in {"Unsupported", "Failed"} : baseline' = NoAnswer(kind)
  /\ pc' = "idle"
  /\ UNCHANGED <<current, region, known, added, opened, outcome, mapped,
                 listed>>

\* A scan without a complete baseline reads nothing.
ScanWithoutBaseline ==
  /\ pc = "idle"
  /\ baseline.kind # "Fact" \/ baseline.truncated
  /\ outcome' = IF baseline.kind = "Failed" THEN "DetectorHealth"
                ELSE "Unsupported"
  /\ UNCHANGED <<baseline, current, pc, region, known, added, opened, mapped,
                 listed>>

\* The scan has no list to compare: a gap, or a health finding.
ScanReadsNothing ==
  /\ pc = "idle"
  /\ baseline.kind = "Fact" /\ ~baseline.truncated
  /\ outcome' \in {"Unsupported", "DetectorHealth"}
  /\ UNCHANGED <<baseline, current, pc, region, known, added, opened, mapped,
                 listed>>

\* Slip: a list that was cut is compared all the same.
ScanReadsAny ==
  /\ pc = "idle"
  /\ baseline.kind = "Fact" /\ ~baseline.truncated
  /\ \E listing \in Listings : \E now \in CodeRegions(listing) :
       /\ current' = now.regions
       /\ listed' = {listing[i] : i \in DOMAIN listing}
  /\ pc' = "added"
  /\ outcome' = "NotRun"
  /\ region' = 1 /\ known' = 1 /\ added' = {} /\ opened' = {}
  /\ UNCHANGED <<baseline, mapped>>

\* Slip: the loop goes on at the positions of the last scan.
ScanReadsKeeps ==
  /\ pc = "idle"
  /\ baseline.kind = "Fact" /\ ~baseline.truncated
  /\ \E listing \in Listings : \E now \in CodeRegions(listing) :
       /\ current' = now.regions
       /\ listed' = {listing[i] : i \in DOMAIN listing}
       /\ pc' = IF now.truncated THEN "idle" ELSE "added"
       /\ outcome' = IF now.truncated THEN "Unsupported" ELSE "NotRun"
  /\ added' = {} /\ opened' = {}
  /\ UNCHANGED <<baseline, mapped, region, known>>

\* The scan has a list: a gap when it was cut, otherwise the comparison.
ScanReads ==
  /\ pc = "idle"
  /\ baseline.kind = "Fact" /\ ~baseline.truncated
  /\ \E listing \in Listings : \E now \in CodeRegions(listing) :
       /\ current' = now.regions
       /\ listed' = {listing[i] : i \in DOMAIN listing}
       /\ pc' = IF now.truncated THEN "idle" ELSE "added"
       /\ outcome' = IF now.truncated THEN "Unsupported" ELSE "NotRun"
  /\ region' = 1 /\ known' = 1 /\ added' = {} /\ opened' = {}
  /\ UNCHANGED <<baseline, mapped>>

-----------------------------------------------------------------------------
(* added_since().                                                          *)

\* Slip: a region that ends at the address is kept.
EndsBeforeStrict ==
  known <= Len(baseline.regions)
    /\ baseline.regions[known].end < current[region].start

\* earlier.regions.get(known).is_some_and(...), for the current region.
EndsBefore ==
  known <= Len(baseline.regions)
    /\ baseline.regions[known].end <= current[region].start

\* Slip: the position does not move.
AddedSkipStays ==
  /\ pc = "added" /\ region <= Len(current)
  /\ EndsBefore
  /\ known' = known
  /\ UNCHANGED <<baseline, current, pc, region, added, opened, outcome,
                 mapped, listed>>

AddedSkip ==
  /\ pc = "added" /\ region <= Len(current)
  /\ EndsBefore
  /\ known' = known + 1
  /\ UNCHANGED <<baseline, current, pc, region, added, opened, outcome,
                 mapped, listed>>

AddedTest ==
  /\ pc = "added" /\ region <= Len(current)
  /\ ~EndsBefore
  /\ added' = IF /\ known <= Len(baseline.regions)
                 /\ Holds(baseline.regions[known], current[region].start)
              THEN added ELSE added \cup {current[region]}
  /\ region' = region + 1
  /\ UNCHANGED <<baseline, current, pc, known, opened, outcome, mapped,
                 listed>>

\* Slip: the second pass starts where the first one stopped.
AddedEndsKeeps ==
  /\ pc = "added" /\ region > Len(current)
  /\ pc' = IF added = {} THEN "opened" ELSE "idle"
  /\ outcome' = IF added = {} THEN outcome ELSE "CodeAddedAfterStart"
  /\ region' = 1 /\ known' = known
  /\ UNCHANGED <<baseline, current, added, opened, mapped, listed>>

\* A region that arrived is the finding, and the second pass does not run.
AddedEnds ==
  /\ pc = "added" /\ region > Len(current)
  /\ pc' = IF added = {} THEN "opened" ELSE "idle"
  /\ outcome' = IF added = {} THEN outcome ELSE "CodeAddedAfterStart"
  /\ region' = 1 /\ known' = 1
  /\ UNCHANGED <<baseline, current, added, opened, mapped, listed>>

-----------------------------------------------------------------------------
(* now_writable_since().                                                   *)

StartsBefore ==
  known <= Len(baseline.regions)
    /\ baseline.regions[known].start < current[region].start

\* filter(|region| region.writable)
OpenedPass ==
  /\ pc = "opened" /\ region <= Len(current)
  /\ ~current[region].writable
  /\ region' = region + 1
  /\ UNCHANGED <<baseline, current, pc, known, added, opened, outcome, mapped,
                 listed>>

OpenedSkip ==
  /\ pc = "opened" /\ region <= Len(current)
  /\ current[region].writable
  /\ StartsBefore
  /\ known' = known + 1
  /\ UNCHANGED <<baseline, current, pc, region, added, opened, outcome,
                 mapped, listed>>

OpenedTest ==
  /\ pc = "opened" /\ region <= Len(current)
  /\ current[region].writable
  /\ ~StartsBefore
  /\ opened' = IF /\ known <= Len(baseline.regions)
                  /\ baseline.regions[known].start = current[region].start
                  /\ ~baseline.regions[known].writable
               THEN opened \cup {current[region]} ELSE opened
  /\ region' = region + 1
  /\ UNCHANGED <<baseline, current, pc, known, added, outcome, mapped,
                 listed>>

OpenedEnds ==
  /\ pc = "opened" /\ region > Len(current)
  /\ pc' = "idle"
  /\ outcome' = IF opened = {} THEN "Clean" ELSE "CodeMadeWritable"
  /\ UNCHANGED <<baseline, current, region, known, added, opened, mapped,
                 listed>>

-----------------------------------------------------------------------------
Scan == ScanWithoutBaseline \/ ScanReadsNothing \/ ScanReads

Compare ==
  \/ AddedSkip \/ AddedTest \/ AddedEnds
  \/ OpenedPass \/ OpenedSkip \/ OpenedTest \/ OpenedEnds

Next == CaptureRegions \/ CaptureNothing \/ Scan \/ Compare

Spec == Init /\ [][Next]_vars

\* The thread that scans keeps running.
FairSpec == Spec /\ WF_vars(Compare)

-----------------------------------------------------------------------------
(* What the detector promises about the process itself.                    *)

\* No region of the process at start holds the first address of r.
NewTo(start, r) == \A q \in start : ~Holds(q, r.start)

\* The process had a region with the first address of r, not writable.
OpenedSince(start, r) ==
  r.writable /\ \E q \in start : q.start = r.start /\ ~q.writable

Outcomes == {"NotRun", "Clean", "Unsupported", "DetectorHealth",
             "CodeAddedAfterStart", "CodeMadeWritable"}

TypeOK ==
  /\ baseline \in [kind : {"Fact", "Unsupported", "Failed"},
                   regions : Seq(Region), truncated : BOOLEAN]
  /\ current \in Seq(Region)
  /\ pc \in {"start", "idle", "added", "opened"}
  /\ region \in 1 .. Len(current) + 1
  /\ known \in 1 .. Len(baseline.regions) + 1
  /\ added \subseteq Region
  /\ opened \subseteq Region
  /\ outcome \in Outcomes
  /\ mapped \subseteq Region
  /\ listed \subseteq Region

\* "Fidelity never converts a probe error into a clean result"
\* (integrity/baseline.rs:118): after a clean scan, no region of the process
\* arrived, and none with a kept first address turned writable, whatever a
\* snapshot dropped.
CleanIsCertain ==
  outcome = "Clean" =>
    \A r \in listed : ~NewTo(mapped, r) /\ ~OpenedSince(mapped, r)

\* No finding "that it cannot stand behind" (integrity/baseline.rs:66-68): the
\* regions that a finding counts are exactly the ones of the process that
\* arrived, or turned writable, by the reference rules of the tests
\* (fact/baseline.rs:195-222), and there is at least one.
FindingIsExact ==
  /\ outcome = "CodeAddedAfterStart"
       => added = {r \in listed : NewTo(mapped, r)} /\ added # {}
  /\ outcome = "CodeMadeWritable"
       => opened = {r \in listed : OpenedSince(mapped, r)} /\ opened # {}

\* Every comparison ends.
ScanEnds == pc \in {"added", "opened"} ~> pc = "idle"

\* "Code that the process mapped as read and execute, and that something has
\* made writable since" (fact/baseline.rs:147-148), when the writable region is
\* only a part of the region that the process mapped at start.
OpenedCodeReported ==
  outcome = "Clean" =>
    \A q \in mapped, r \in listed :
      q.start <= r.start /\ r.end <= q.end /\ ~q.writable => ~r.writable

-----------------------------------------------------------------------------
(* The invariant of the two loops.                                         *)

Elements(s) == {s[i] : i \in DOMAIN s}

\* The elements before position n.
Upto(s, n) == {s[i] : i \in 1 .. n - 1}

BaselineInv ==
  /\ AddressOrder(baseline.regions)
  /\ \A i, j \in DOMAIN baseline.regions :
       baseline.regions[i].start = baseline.regions[j].start
         => baseline.regions[i].writable = baseline.regions[j].writable
  /\ baseline.kind = "Fact" /\ ~baseline.truncated
       => mapped = Elements(baseline.regions)

CompareInv ==
  pc \in {"added", "opened"} =>
    /\ baseline.kind = "Fact" /\ ~baseline.truncated
    /\ AddressOrder(current)
    /\ listed = Elements(current)

\* Every baseline region before known ends before the first address that is
\* still to be tested.
AddedInv ==
  pc = "added" =>
    /\ \A k \in 1 .. known - 1 :
         region <= Len(current)
           => baseline.regions[k].end <= current[region].start
    /\ added = {r \in Upto(current, region) : NewTo(mapped, r)}
    /\ opened = {}

OpenedInv ==
  pc = "opened" =>
    /\ \A r \in listed : ~NewTo(mapped, r)
    /\ \A k \in 1 .. known - 1 :
         region <= Len(current)
           => baseline.regions[k].start < current[region].start
    /\ opened = {r \in Upto(current, region) : OpenedSince(mapped, r)}

\* The invariant that the proofs show: the loops have done exactly what they
\* passed (fact/baseline.rs:121-168), and an outcome stands only between scans.
LoopInv ==
  /\ BaselineInv
  /\ CompareInv
  /\ AddedInv
  /\ OpenedInv
  /\ pc # "idle" => outcome = "NotRun"
=============================================================================

--------------------------- MODULE SnapshotProofs ---------------------------
(***************************************************************************)
(* Proofs about the snapshots that two scans compare. The runtime baseline *)
(* detector is exact for every list of regions: a clean scan means that    *)
(* nothing arrived and nothing turned writable, and a finding counts       *)
(* exactly the regions that did. The dispatch detector is exact for every  *)
(* table: a clean scan means that no entry moved, and a finding counts     *)
(* exactly the entries that did. And the tables themselves are read right, *)
(* for every image.                                                        *)
(***************************************************************************)
EXTENDS RuntimeBaseline, DispatchTargets, ImportTables, SequenceFacts

-----------------------------------------------------------------------------
(* The code regions.                                                       *)

\* What CodeRegions::new returns (fact/baseline.rs:91-97): a typed list in
\* address order, of agreeing regions, with every region of the listing unless
\* it states that it was cut.
LEMMA CodeRegionsFact ==
  ASSUME NEW listing \in Listings, NEW now \in CodeRegions(listing)
  PROVE  /\ now \in [kind : {"Fact"}, regions : Seq(Region),
                     truncated : BOOLEAN]
         /\ AddressOrder(now.regions)
         /\ \A i, j \in DOMAIN now.regions :
              now.regions[i].start = now.regions[j].start
                => now.regions[i].writable = now.regions[j].writable
         /\ ~now.truncated => Elements(now.regions) = Elements(listing)
<1>1. listing \in Seq(Region)
  BY BaselineAssumption
<1> DEFINE n == Len(listing)
<1>2. n \in Nat /\ DOMAIN listing = 1 .. n
  BY <1>1
<1>3. PICK p \in Bijection(1 .. n, 1 .. n) :
        LET s == [i \in 1 .. n |-> listing[p[i]]]
        IN  AddressOrder(s) /\ now = Kept(s, Len(s) > MAX_REGIONS)
  BY DEF CodeRegions, Sorted
<1> DEFINE s == [i \in 1 .. n |-> listing[p[i]]]
<1>4. p \in [1 .. n -> 1 .. n] /\ \A w \in 1 .. n : \E v \in 1 .. n : p[v] = w
  BY <1>3 DEF Bijection, Injection, Surjection, IsInjective
<1>5. s \in Seq(Region) /\ Len(s) = n /\ DOMAIN s = 1 .. n
  <2>1. \A i \in 1 .. n : listing[p[i]] \in Region
    <3>1. \A w \in 1 .. n : listing[w] \in Region
      BY <1>1, <1>2
    <3>2. \A i \in 1 .. n : p[i] \in 1 .. n
      BY <1>4
    <3>3. QED
      BY <3>1, <3>2
  <2>2. s \in [1 .. n -> Region]
    BY <2>1
  <2>3. QED
    BY <1>2, <2>2
<1>6. Elements(s) = Elements(listing)
  BY <1>2, <1>4, <1>5 DEF Elements
<1>7. \A i, j \in 1 .. n : s[i].start = s[j].start
                             => s[i].writable = s[j].writable
  <2>1. \A i, j \in 1 .. n : listing[i].start = listing[j].start
                              => listing[i].writable = listing[j].writable
    BY <1>2, BaselineAssumption
  <2>2. \A i \in 1 .. n : p[i] \in 1 .. n /\ s[i] = listing[p[i]]
    BY <1>4
  <2>3. QED
    BY <2>1, <2>2
<1>8. AddressOrder(s)
  BY <1>3
<1> DEFINE kept == IF n > MAX_REGIONS THEN SubSeq(s, 1, MAX_REGIONS) ELSE s
<1>9. /\ kept \in Seq(Region) /\ DOMAIN kept \subseteq 1 .. n
      /\ \A i \in DOMAIN kept : kept[i] = s[i]
  BY <1>2, <1>5, BaselineAssumption
<1>10. now = [kind |-> "Fact", regions |-> kept,
              truncated |-> n > MAX_REGIONS]
  BY <1>3, <1>5 DEF Kept, Snapshot
<1>11. AddressOrder(kept)
  BY <1>5, <1>8, <1>9 DEF AddressOrder
<1>12. n > MAX_REGIONS \/ kept = s
  OBVIOUS
<1> HIDE DEF kept, s, n
<1>13. /\ now \in [kind : {"Fact"}, regions : Seq(Region), truncated : BOOLEAN]
       /\ now.regions = kept /\ now.truncated = (n > MAX_REGIONS)
  BY <1>9, <1>10
<1>14. \A i, j \in DOMAIN kept : kept[i].start = kept[j].start
                                   => kept[i].writable = kept[j].writable
  BY <1>7, <1>9
<1>15. QED
  BY <1>6, <1>11, <1>12, <1>13, <1>14

-----------------------------------------------------------------------------
\* The first scan starts both lists at their first entry.
RegionAtStart == pc = "start" => known = 1

\* Every step keeps the types, and no position leaves its list
\* (fact/baseline.rs:121-168).
LEMMA RegionTypeStep ==
  ASSUME TypeOK, RegionAtStart, [Next]_vars
  PROVE  TypeOK' /\ RegionAtStart'
<1> USE DEF RegionAtStart
<1>1. CASE CaptureRegions
  <2>1. PICK listing \in Listings :
          /\ baseline' \in CodeRegions(listing)
          /\ mapped' = {listing[i] : i \in DOMAIN listing}
    BY <1>1 DEF CaptureRegions
  <2>2. baseline' \in [kind : {"Fact"}, regions : Seq(Region),
                       truncated : BOOLEAN]
    BY <2>1, CodeRegionsFact
  <2>3. mapped' \subseteq Region
    BY <2>1, BaselineAssumption
  <2>4. known' = 1 /\ known' \in 1 .. Len(baseline'.regions) + 1
    BY <1>1, <2>2 DEF CaptureRegions, TypeOK
  <2>5. QED
    BY <1>1, <2>2, <2>3, <2>4 DEF CaptureRegions, TypeOK
<1>2. CASE CaptureNothing
  BY <1>2 DEF CaptureNothing, NoAnswer, Snapshot, TypeOK
<1>3. CASE ScanWithoutBaseline \/ ScanReadsNothing
  BY <1>3 DEF ScanWithoutBaseline, ScanReadsNothing, TypeOK, Outcomes
<1>4. CASE ScanReads
  <2>0. PICK listing \in Listings : \E now \in CodeRegions(listing) :
          /\ current' = now.regions
          /\ listed' = {listing[i] : i \in DOMAIN listing}
          /\ pc' = IF now.truncated THEN "idle" ELSE "added"
          /\ outcome' = IF now.truncated THEN "Unsupported" ELSE "NotRun"
    BY <1>4 DEF ScanReads
  <2>1. PICK now \in CodeRegions(listing) :
          /\ current' = now.regions
          /\ listed' = {listing[i] : i \in DOMAIN listing}
          /\ pc' = IF now.truncated THEN "idle" ELSE "added"
          /\ outcome' = IF now.truncated THEN "Unsupported" ELSE "NotRun"
    BY <2>0
  <2>2. current' \in Seq(Region)
    BY <2>1, CodeRegionsFact
  <2>3. listed' \subseteq Region
    BY <2>1, BaselineAssumption
  <2>4. QED
    BY <1>4, <2>1, <2>2, <2>3 DEF ScanReads, TypeOK, Outcomes
<1>5. CASE AddedSkip \/ AddedTest \/ AddedEnds
  BY <1>5 DEF AddedSkip, AddedTest, AddedEnds, EndsBefore, TypeOK, Outcomes
<1>6. CASE OpenedPass \/ OpenedSkip \/ OpenedTest \/ OpenedEnds
  BY <1>6 DEF OpenedPass, OpenedSkip, OpenedTest, OpenedEnds, StartsBefore,
              TypeOK, Outcomes
<1>7. CASE UNCHANGED vars
  BY <1>7 DEF vars, TypeOK
<1>8. QED
  BY <1>1, <1>2, <1>3, <1>4, <1>5, <1>6, <1>7 DEF Next, Scan, Compare

\* The variables of a scan keep their types, and no position leaves its list
\* (fact/baseline.rs:121-168).
THEOREM RegionTypeCorrect == Spec => []TypeOK
<1>1. Init => TypeOK /\ RegionAtStart
  BY DEF Init, TypeOK, RegionAtStart, NoAnswer, Snapshot, Outcomes
<1>2. TypeOK /\ RegionAtStart /\ [Next]_vars => (TypeOK /\ RegionAtStart)'
  BY RegionTypeStep
<1>3. QED
  BY <1>1, <1>2, PTL DEF Spec

-----------------------------------------------------------------------------
\* Address order puts the first addresses in order (fact/baseline.rs:92).
LEMMA StartsOrdered ==
  ASSUME NEW s \in Seq(Region), AddressOrder(s),
         NEW i \in DOMAIN s, NEW j \in DOMAIN s, i <= j
  PROVE  s[i].start <= s[j].start
<1>1. s[i] \in Region /\ s[j] \in Region /\ i \in Nat /\ j \in Nat
  OBVIOUS
<1>2. s[i].start \in Nat /\ s[j].start \in Nat
  BY <1>1 DEF Region
<1>3. CASE i = j
  BY <1>2, <1>3
<1>4. CASE i < j
  <2>1. ~Precedes(s[j], s[i])
    BY <1>4 DEF AddressOrder
  <2>2. QED
    BY <1>2, <2>1 DEF Precedes
<1>5. QED
  BY <1>1, <1>3, <1>4

\* One test of the first pass decides the rule (fact/baseline.rs:125-137): the
\* baseline region at known is the only one that can hold the address.
LEMMA AddedDecides ==
  ASSUME TypeOK, LoopInv, pc = "added", region <= Len(current), ~EndsBefore
  PROVE  NewTo(mapped, current[region])
           <=> ~(/\ known <= Len(baseline.regions)
                 /\ Holds(baseline.regions[known], current[region].start))
<1> DEFINE earlier == baseline.regions
           address == current[region].start
<1>1. /\ earlier \in Seq(Region) /\ current[region] \in Region
      /\ known \in 1 .. Len(earlier) + 1
      /\ mapped = {earlier[i] : i \in 1 .. Len(earlier)}
      /\ AddressOrder(earlier)
      /\ \A k \in 1 .. known - 1 : earlier[k].end <= address
      /\ known <= Len(earlier) => ~(earlier[known].end <= address)
  BY DEF TypeOK, LoopInv, BaselineInv, CompareInv, AddedInv, Elements,
         EndsBefore
<1> HIDE DEF earlier
<1>2. address \in Nat /\ \A i \in 1 .. Len(earlier) :
                             earlier[i].start \in Nat /\ earlier[i].end \in Nat
  <2>1. \A i \in 1 .. Len(earlier) : earlier[i] \in Region
    BY <1>1
  <2>2. QED
    BY <1>1, <2>1 DEF Region
<1>3. NewTo(mapped, current[region])
        <=> \A i \in 1 .. Len(earlier) : ~Holds(earlier[i], address)
  BY <1>1 DEF NewTo
<1> HIDE DEF address
<1>4. CASE known > Len(earlier)
  <2>1. \A i \in 1 .. Len(earlier) : i \in 1 .. known - 1
    BY <1>1, <1>4
  <2>2. \A i \in 1 .. Len(earlier) : ~Holds(earlier[i], address)
    BY <1>1, <1>2, <2>1 DEF Holds
  <2>3. QED
    BY <1>1, <1>4, <1>3, <2>2 DEF earlier, address
<1>5. CASE known <= Len(earlier)
  <2>1. known \in 1 .. Len(earlier) /\ Len(earlier) \in Nat
    BY <1>1, <1>5
  <2>2. \A i \in known .. Len(earlier) :
          earlier[known].start <= earlier[i].start
    BY <1>1, <2>1, StartsOrdered
  <2>3. ASSUME NEW i \in 1 .. Len(earlier), Holds(earlier[i], address)
        PROVE  Holds(earlier[known], address)
    <3>1. ~(i \in 1 .. known - 1)
      BY <1>1, <1>2, <2>3 DEF Holds
    <3>2. earlier[known].start <= earlier[i].start
      BY <2>1, <2>2, <3>1
    <3>3. earlier[known].start <= address /\ address < earlier[known].end
      BY <1>1, <1>2, <2>1, <2>3, <3>2 DEF Holds
    <3>4. QED
      BY <3>3 DEF Holds
  <2>4. QED
    BY <1>5, <1>3, <2>1, <2>3 DEF earlier, address
<1>6. QED
  BY <1>1, <1>4, <1>5

\* One test of the second pass decides the rule (fact/baseline.rs:154-164).
LEMMA OpenedDecides ==
  ASSUME TypeOK, LoopInv, pc = "opened", region <= Len(current),
         current[region].writable, ~StartsBefore
  PROVE  OpenedSince(mapped, current[region])
           <=> /\ known <= Len(baseline.regions)
               /\ baseline.regions[known].start = current[region].start
               /\ ~baseline.regions[known].writable
<1> DEFINE earlier == baseline.regions
           address == current[region].start
<1>1. /\ earlier \in Seq(Region) /\ current[region] \in Region
      /\ known \in 1 .. Len(earlier) + 1
      /\ mapped = {earlier[i] : i \in 1 .. Len(earlier)}
      /\ AddressOrder(earlier)
      /\ \A i, j \in 1 .. Len(earlier) : earlier[i].start = earlier[j].start
           => earlier[i].writable = earlier[j].writable
      /\ \A k \in 1 .. known - 1 : earlier[k].start < address
      /\ known <= Len(earlier) => ~(earlier[known].start < address)
  BY DEF TypeOK, LoopInv, BaselineInv, CompareInv, OpenedInv, Elements,
         StartsBefore
<1> HIDE DEF earlier
<1>2. address \in Nat /\ \A i \in 1 .. Len(earlier) : earlier[i].start \in Nat
  <2>1. \A i \in 1 .. Len(earlier) : earlier[i] \in Region
    BY <1>1
  <2>2. QED
    BY <1>1, <2>1 DEF Region
<1>3. OpenedSince(mapped, current[region])
        <=> \E i \in 1 .. Len(earlier) :
              earlier[i].start = address /\ ~earlier[i].writable
  BY <1>1 DEF OpenedSince
<1> HIDE DEF address
<1>4. ASSUME NEW i \in 1 .. Len(earlier),
             earlier[i].start = address, ~earlier[i].writable
      PROVE  /\ known <= Len(earlier)
             /\ earlier[known].start = address
             /\ ~earlier[known].writable
  <2>1. ~(i \in 1 .. known - 1)
    BY <1>1, <1>2, <1>4
  <2>2. known \in 1 .. Len(earlier) /\ known <= i
    BY <1>1, <2>1
  <2>3. earlier[known].start <= earlier[i].start
    BY <1>1, <2>2, StartsOrdered
  <2>4. earlier[known].start = address
    BY <1>1, <1>2, <1>4, <2>2, <2>3
  <2>5. QED
    BY <1>1, <1>4, <2>2, <2>4
<1>5. QED
  BY <1>1, <1>3, <1>4 DEF earlier, address

-----------------------------------------------------------------------------
RegionIndInv == LoopInv /\ CleanIsCertain /\ FindingIsExact

\* A capture starts no comparison, and keeps what it read in address order
\* (builder.rs:268-275).
LEMMA RegionCaptureKeeps ==
  ASSUME TypeOK, RegionIndInv, CaptureRegions \/ CaptureNothing
  PROVE  RegionIndInv'
<1>1. /\ pc' = "idle" /\ outcome' = "NotRun"
  BY DEF CaptureRegions, CaptureNothing, RegionIndInv, LoopInv
<1>2. BaselineInv'
  <2>1. CASE CaptureNothing
    BY <2>1 DEF CaptureNothing, NoAnswer, Snapshot, BaselineInv, AddressOrder
  <2>2. CASE CaptureRegions
    <3>1. PICK listing \in Listings :
            baseline' \in CodeRegions(listing) /\ mapped' = Elements(listing)
      BY <2>2 DEF CaptureRegions, Elements
    <3>2. QED
      BY <3>1, CodeRegionsFact DEF BaselineInv
  <2>3. QED
    BY <2>1, <2>2
<1>3. QED
  BY <1>1, <1>2 DEF RegionIndInv, LoopInv, CompareInv, AddedInv, OpenedInv,
                    CleanIsCertain, FindingIsExact

\* A scan compares two complete lists or reports neither Clean nor code
\* (integrity/baseline.rs:50-80).
LEMMA RegionScanKeeps ==
  ASSUME TypeOK, RegionIndInv, Scan
  PROVE  RegionIndInv'
<1>1. CASE ScanWithoutBaseline \/ ScanReadsNothing
  BY <1>1 DEF ScanWithoutBaseline, ScanReadsNothing, RegionIndInv, LoopInv,
              BaselineInv, CompareInv, AddedInv, OpenedInv, CleanIsCertain,
              FindingIsExact
<1>2. CASE ScanReads
  <2>1. PICK listing \in Listings : \E now \in CodeRegions(listing) :
          /\ current' = now.regions
          /\ listed' = Elements(listing)
          /\ pc' = IF now.truncated THEN "idle" ELSE "added"
          /\ outcome' = IF now.truncated THEN "Unsupported" ELSE "NotRun"
    BY <1>2 DEF ScanReads, Elements
  <2>2. PICK now \in CodeRegions(listing) :
          /\ current' = now.regions
          /\ listed' = Elements(listing)
          /\ pc' = IF now.truncated THEN "idle" ELSE "added"
          /\ outcome' = IF now.truncated THEN "Unsupported" ELSE "NotRun"
    BY <2>1
  <2>3. AddressOrder(current') /\ (pc' = "added" => listed' = Elements(current'))
    BY <2>2, CodeRegionsFact
  <2>4. BaselineInv'
    BY <1>2 DEF ScanReads, RegionIndInv, LoopInv, BaselineInv
  <2>5. CompareInv'
    BY <1>2, <2>2, <2>3 DEF ScanReads, CompareInv
  <2>6. AddedInv' /\ OpenedInv'
    BY <1>2, <2>2 DEF ScanReads, AddedInv, OpenedInv, Upto
  <2>7. QED
    BY <2>2, <2>4, <2>5, <2>6 DEF RegionIndInv, LoopInv, CleanIsCertain,
                                  FindingIsExact
<1>3. QED
  BY <1>1, <1>2 DEF Scan

\* Stepping past a position adds its region to the ones passed
\* (fact/baseline.rs:124, 153).
LEMMA UptoNext ==
  ASSUME NEW s \in Seq(Region), NEW n \in 1 .. Len(s)
  PROVE  /\ Upto(s, n + 1) = Upto(s, n) \cup {s[n]}
         /\ Upto(s, Len(s) + 1) = Elements(s)
<1>1. 1 .. (n + 1) - 1 = (1 .. n - 1) \cup {n}
  OBVIOUS
<1>2. Upto(s, n + 1) = Upto(s, n) \cup {s[n]}
  BY <1>1 DEF Upto
<1>3. 1 .. (Len(s) + 1) - 1 = DOMAIN s
  OBVIOUS
<1>4. QED
  BY <1>2, <1>3 DEF Upto, Elements

\* The first pass keeps its invariant, and ends with the regions that arrived
\* (fact/baseline.rs:121-141).
LEMMA AddedKeeps ==
  ASSUME TypeOK, RegionIndInv, AddedSkip \/ AddedTest \/ AddedEnds
  PROVE  RegionIndInv'
<1>1. /\ UNCHANGED <<baseline, current, mapped, listed, opened>>
      /\ pc = "added" /\ opened = {} /\ outcome = "NotRun"
      /\ listed = Elements(current) /\ AddressOrder(current)
      /\ added = {r \in Upto(current, region) : NewTo(mapped, r)}
      /\ current \in Seq(Region)
  BY DEF AddedSkip, AddedTest, AddedEnds, RegionIndInv, LoopInv, AddedInv,
         CompareInv, TypeOK
<1>2. BaselineInv'
  BY <1>1 DEF RegionIndInv, LoopInv, BaselineInv
<1>3. CompareInv'
  BY <1>1 DEF RegionIndInv, LoopInv, CompareInv
<1>4. CASE AddedSkip
  <2>1. AddedInv'
    <3>1. \A k \in 1 .. known' - 1 :
            baseline.regions[k].end <= current[region].start
      BY <1>4 DEF AddedSkip, EndsBefore, TypeOK, RegionIndInv, LoopInv, AddedInv
    <3>2. QED
      BY <1>1, <1>4, <3>1 DEF AddedSkip, AddedInv, NewTo, Upto
  <2>2. QED
    BY <1>1, <1>2, <1>3, <1>4, <2>1 DEF AddedSkip, RegionIndInv, LoopInv,
         OpenedInv, CleanIsCertain, FindingIsExact
<1>5. CASE AddedTest
  <2>1. region \in 1 .. Len(current)
    BY <1>5 DEF AddedTest, TypeOK
  <2>2. added' = {r \in Upto(current, region + 1) : NewTo(mapped, r)}
    <3>1. Upto(current, region + 1)
            = Upto(current, region) \cup {current[region]}
      BY <1>1, <2>1, UptoNext
    <3>2. added' = IF NewTo(mapped, current[region])
                   THEN added \cup {current[region]} ELSE added
      BY <1>5, AddedDecides DEF AddedTest, RegionIndInv
    <3>3. QED
      BY <1>1, <3>1, <3>2
  <2>3. ASSUME NEW k \in 1 .. known - 1, region + 1 <= Len(current)
        PROVE  baseline.regions[k].end <= current[region + 1].start
    <3>1. baseline.regions[k].end <= current[region].start
      BY <1>1, <2>1 DEF RegionIndInv, LoopInv, AddedInv
    <3>2. current[region].start <= current[region + 1].start
      BY <1>1, <2>1, <2>3, StartsOrdered
    <3>3. k \in 1 .. Len(baseline.regions)
      BY <1>1 DEF TypeOK
    <3>4. baseline.regions[k] \in Region /\ current[region] \in Region
            /\ current[region + 1] \in Region
      BY <1>1, <2>1, <2>3, <3>3 DEF TypeOK
    <3>5. QED
      BY <3>1, <3>2, <3>4 DEF Region
  <2>4. AddedInv'
    BY <1>1, <1>5, <2>2, <2>3 DEF AddedTest, AddedInv, NewTo, Upto
  <2>5. QED
    BY <1>1, <1>2, <1>3, <1>5, <2>4 DEF AddedTest, RegionIndInv, LoopInv,
         OpenedInv, CleanIsCertain, FindingIsExact
<1>6. CASE AddedEnds
  <2>1. added = {r \in listed : NewTo(mapped, r)}
    <3>1. region = Len(current) + 1
      BY <1>6 DEF AddedEnds, TypeOK
    <3>2. Upto(current, Len(current) + 1) = Elements(current)
      BY <1>1 DEF Upto, Elements
    <3>3. QED
      BY <1>1, <3>1, <3>2
  <2>2. AddedInv'
    BY <1>6 DEF AddedEnds, AddedInv
  <2>3. OpenedInv'
    BY <1>1, <1>6, <2>1 DEF AddedEnds, OpenedInv, Upto, NewTo
  <2>4. CleanIsCertain' /\ FindingIsExact' /\ (pc' # "idle" => outcome' = "NotRun")
    BY <1>1, <1>6, <2>1 DEF AddedEnds, CleanIsCertain, FindingIsExact, NewTo
  <2>5. QED
    BY <1>2, <1>3, <2>2, <2>3, <2>4 DEF RegionIndInv, LoopInv
<1>7. QED
  BY <1>4, <1>5, <1>6

\* The second pass keeps its invariant, and ends with the regions that turned
\* writable (fact/baseline.rs:150-168).
LEMMA OpenedKeeps ==
  ASSUME TypeOK, RegionIndInv, OpenedPass \/ OpenedSkip \/ OpenedTest \/ OpenedEnds
  PROVE  RegionIndInv'
<1>1. /\ UNCHANGED <<baseline, current, mapped, listed, added>>
      /\ pc = "opened" /\ outcome = "NotRun"
      /\ \A r \in listed : ~NewTo(mapped, r)
      /\ listed = Elements(current) /\ AddressOrder(current)
      /\ opened = {r \in Upto(current, region) : OpenedSince(mapped, r)}
      /\ current \in Seq(Region)
  BY DEF OpenedPass, OpenedSkip, OpenedTest, OpenedEnds, RegionIndInv, LoopInv,
         OpenedInv, CompareInv, TypeOK
<1>2. BaselineInv'
  BY <1>1 DEF RegionIndInv, LoopInv, BaselineInv
<1>3. CompareInv'
  BY <1>1 DEF OpenedPass, OpenedSkip, OpenedTest, OpenedEnds, RegionIndInv, LoopInv,
              CompareInv
<1>4. AddedInv'
  BY <1>1 DEF OpenedPass, OpenedSkip, OpenedTest, OpenedEnds, AddedInv
<1>5. CASE OpenedSkip
  <2>1. \A k \in 1 .. known' - 1 :
          baseline.regions[k].start < current[region].start
    BY <1>5 DEF OpenedSkip, StartsBefore, TypeOK, RegionIndInv, LoopInv, OpenedInv
  <2>2. OpenedInv'
    BY <1>1, <1>5, <2>1 DEF OpenedSkip, OpenedInv, NewTo, OpenedSince, Upto
  <2>3. QED
    BY <1>1, <1>2, <1>3, <1>4, <1>5, <2>2
    DEF OpenedSkip, RegionIndInv, LoopInv, CleanIsCertain, FindingIsExact
<1>6. CASE OpenedPass \/ OpenedTest
  <2>1. /\ region \in 1 .. Len(current)
        /\ region' = region + 1 /\ UNCHANGED <<known, pc, outcome>>
    BY <1>6 DEF OpenedPass, OpenedTest, TypeOK
  <2>2. opened' = {r \in Upto(current, region + 1) : OpenedSince(mapped, r)}
    <3>1. Upto(current, region + 1)
            = Upto(current, region) \cup {current[region]}
      BY <1>1, <2>1, UptoNext
    <3>2. opened' = IF OpenedSince(mapped, current[region])
                    THEN opened \cup {current[region]} ELSE opened
      <4>1. CASE OpenedPass
        BY <4>1 DEF OpenedPass, OpenedSince
      <4>2. CASE OpenedTest
        BY <4>2, OpenedDecides DEF OpenedTest, RegionIndInv
      <4>3. QED
        BY <1>6, <4>1, <4>2
    <3>3. QED
      BY <1>1, <3>1, <3>2
  <2>3. ASSUME NEW k \in 1 .. known - 1, region + 1 <= Len(current)
        PROVE  baseline.regions[k].start < current[region + 1].start
    <3>1. baseline.regions[k].start < current[region].start
      BY <1>1, <2>1 DEF RegionIndInv, LoopInv, OpenedInv
    <3>2. current[region].start <= current[region + 1].start
      BY <1>1, <2>1, <2>3, StartsOrdered
    <3>3. k \in 1 .. Len(baseline.regions)
      BY <1>1 DEF TypeOK
    <3>4. baseline.regions[k] \in Region /\ current[region] \in Region
            /\ current[region + 1] \in Region
      BY <1>1, <2>1, <2>3, <3>3 DEF TypeOK
    <3>5. QED
      BY <3>1, <3>2, <3>4 DEF Region
  <2>4. OpenedInv'
    BY <1>1, <2>1, <2>2, <2>3 DEF OpenedInv, NewTo, OpenedSince, Upto
  <2>5. QED
    BY <1>1, <1>2, <1>3, <1>4, <2>1, <2>4
    DEF RegionIndInv, LoopInv, CleanIsCertain, FindingIsExact
<1>7. CASE OpenedEnds
  <2>1. opened = {r \in listed : OpenedSince(mapped, r)}
    <3>1. region = Len(current) + 1
      BY <1>7 DEF OpenedEnds, TypeOK
    <3>2. Upto(current, Len(current) + 1) = Elements(current)
      BY <1>1 DEF Upto, Elements
    <3>3. QED
      BY <1>1, <3>1, <3>2
  <2>2. pc' = "idle" /\ UNCHANGED opened
          /\ outcome' = IF opened = {} THEN "Clean" ELSE "CodeMadeWritable"
    BY <1>7 DEF OpenedEnds
  <2>3. CleanIsCertain' /\ FindingIsExact'
    BY <1>1, <2>1, <2>2
    DEF CleanIsCertain, FindingIsExact, NewTo, OpenedSince
  <2>4. QED
    BY <1>2, <1>3, <1>4, <2>2, <2>3 DEF RegionIndInv, LoopInv, OpenedInv
<1>8. QED
  BY <1>5, <1>6, <1>7

-----------------------------------------------------------------------------
\* The two passes of a scan (fact/baseline.rs:121-168) have done exactly what
\* the reference rules say of the regions they passed.
THEOREM LoopsExact == Spec => [](LoopInv /\ CleanIsCertain /\ FindingIsExact)
<1>1. Init => RegionIndInv
  BY DEF Init, RegionIndInv, LoopInv, BaselineInv, CompareInv, AddedInv, OpenedInv,
         CleanIsCertain, FindingIsExact, NoAnswer, Snapshot, AddressOrder
<1>2. TypeOK /\ RegionIndInv /\ [Next]_vars => RegionIndInv'
  <2>1. CASE UNCHANGED vars
    BY <2>1 DEF vars, RegionIndInv, LoopInv, BaselineInv, CompareInv, AddedInv,
         OpenedInv, CleanIsCertain, FindingIsExact, NewTo, OpenedSince
  <2>2. QED
    BY <2>1, RegionCaptureKeeps, RegionScanKeeps, AddedKeeps, OpenedKeeps
    DEF Next, Compare
<1>3. QED
  BY <1>1, <1>2, RegionTypeCorrect, PTL DEF Spec, RegionIndInv

\* "Fidelity never converts a probe error into a clean result", and a clean
\* scan has compared every region (integrity/baseline.rs:118, 61-68).
THEOREM RegionCleanCertain == Spec => []CleanIsCertain
BY LoopsExact, PTL

\* A finding counts exactly the regions that arrived or turned writable
\* (integrity/baseline.rs:76-112).
THEOREM RegionFindingExact == Spec => []FindingIsExact
BY LoopsExact, PTL

-----------------------------------------------------------------------------
(* The call targets.                                                       *)

\* What DispatchTargets::new returns (fact/dispatch.rs:82-92): a typed table in
\* slot order, with every entry unless it states that it was cut.
LEMMA TargetsFact ==
  ASSUME NEW table \in Tables, NEW bound \in BOOLEAN,
         NEW now \in Targets(table, bound)
  PROVE  /\ now \in [kind : {"Fact"}, targets : Seq(Target),
                     bound : BOOLEAN, truncated : BOOLEAN]
         /\ SlotOrder(now.targets)
         /\ \A i, j \in DOMAIN now.targets :
              now.targets[i].slot = now.targets[j].slot
                => now.targets[i].value = now.targets[j].value
         /\ ~now.truncated
              => TargetElements(now.targets) = TargetElements(table)
<1>1. table \in Seq(Target)
  BY DispatchAssumption
<1> DEFINE n == Len(table)
<1>2. n \in Nat /\ DOMAIN table = 1 .. n
  BY <1>1
<1>3. PICK p \in Bijection(1 .. n, 1 .. n) :
        LET s == [i \in 1 .. n |-> table[p[i]]]
        IN  SlotOrder(s) /\ now = TargetSnapshot("Fact",
                    IF Len(s) > MAX_TARGETS THEN SubSeq(s, 1, MAX_TARGETS)
                    ELSE s, bound, Len(s) > MAX_TARGETS)
  BY DEF Targets, SortedTargets
<1> DEFINE s == [i \in 1 .. n |-> table[p[i]]]
<1>4. p \in [1 .. n -> 1 .. n] /\ \A w \in 1 .. n : \E v \in 1 .. n : p[v] = w
  BY <1>3 DEF Bijection, Injection, Surjection, IsInjective
<1>5. s \in Seq(Target) /\ Len(s) = n /\ DOMAIN s = 1 .. n
  <2>1. \A i \in 1 .. n : table[p[i]] \in Target
    <3>1. \A w \in 1 .. n : table[w] \in Target
      BY <1>1, <1>2
    <3>2. \A i \in 1 .. n : p[i] \in 1 .. n
      BY <1>4
    <3>3. QED
      BY <3>1, <3>2
  <2>2. s \in [1 .. n -> Target]
    BY <2>1
  <2>3. QED
    BY <1>2, <2>2
<1>6. TargetElements(s) = TargetElements(table)
  BY <1>2, <1>4, <1>5 DEF TargetElements
<1>7. \A i, j \in 1 .. n : s[i].slot = s[j].slot
                             => s[i].value = s[j].value
  <2>1. \A i, j \in 1 .. n : table[i].slot = table[j].slot
                              => table[i].value = table[j].value
    BY <1>2, DispatchAssumption
  <2>2. \A i \in 1 .. n : p[i] \in 1 .. n /\ s[i] = table[p[i]]
    BY <1>4
  <2>3. QED
    BY <2>1, <2>2
<1>8. SlotOrder(s)
  BY <1>3
<1> DEFINE kept == IF n > MAX_TARGETS THEN SubSeq(s, 1, MAX_TARGETS) ELSE s
<1>9. /\ kept \in Seq(Target) /\ DOMAIN kept \subseteq 1 .. n
      /\ \A i \in DOMAIN kept : kept[i] = s[i]
  BY <1>2, <1>5, DispatchAssumption
<1>10. now = [kind |-> "Fact", targets |-> kept, bound |-> bound,
              truncated |-> n > MAX_TARGETS]
  BY <1>3, <1>5 DEF TargetSnapshot
<1>11. SlotOrder(kept)
  BY <1>5, <1>8, <1>9 DEF SlotOrder
<1>12. n > MAX_TARGETS \/ kept = s
  OBVIOUS
<1> HIDE DEF kept, s, n
<1>13. /\ now \in [kind : {"Fact"}, targets : Seq(Target),
                  bound : BOOLEAN, truncated : BOOLEAN]
       /\ now.targets = kept /\ now.truncated = (n > MAX_TARGETS)
  BY <1>9, <1>10
<1>14. \A i, j \in DOMAIN kept : kept[i].slot = kept[j].slot
                                   => kept[i].value = kept[j].value
  BY <1>7, <1>9
<1>15. QED
  BY <1>6, <1>11, <1>12, <1>13, <1>14

-----------------------------------------------------------------------------
\* The first scan starts both tables at their first entry.
TargetAtStart == step = "start" => before = 1

\* Every step keeps the types, and no position leaves its table
\* (fact/dispatch.rs:124-142).
LEMMA TargetTypeStep ==
  ASSUME DispatchTypeOK, TargetAtStart, [DispatchNext]_dispatchVars
  PROVE  DispatchTypeOK' /\ TargetAtStart'
<1> USE DEF TargetAtStart
<1>1. CASE CaptureTargets
  <2>1. PICK table \in Tables, bound \in BOOLEAN :
          /\ start' \in Targets(table, bound)
          /\ held' = {table[i] : i \in DOMAIN table}
    BY <1>1 DEF CaptureTargets
  <2>2. start' \in [kind : {"Fact"}, targets : Seq(Target), bound : BOOLEAN,
                    truncated : BOOLEAN]
    BY <2>1, TargetsFact
  <2>3. held' \subseteq Target
    BY <2>1, DispatchAssumption
  <2>4. before' = 1 /\ before' \in 1 .. Len(start'.targets) + 1
    BY <1>1, <2>2 DEF CaptureTargets, DispatchTypeOK
  <2>5. QED
    BY <1>1, <2>2, <2>3, <2>4 DEF CaptureTargets, DispatchTypeOK
<1>2. CASE CaptureNoTargets
  BY <1>2 DEF CaptureNoTargets, NoTargets, TargetSnapshot, DispatchTypeOK
<1>3. CASE DispatchWithoutStart \/ DispatchReadsNothing
  BY <1>3 DEF DispatchWithoutStart, DispatchReadsNothing, DispatchTypeOK,
              DispatchOutcomes
<1>4. CASE DispatchReads
  <2>1. PICK table \in Tables, bound \in BOOLEAN :
          \E now \in Targets(table, bound) :
            /\ present' = now.targets
            /\ seen' = {table[i] : i \in DOMAIN table}
            /\ step' = IF now.truncated THEN "idle" ELSE "compare"
            /\ verdict' = IF now.truncated THEN "Unsupported" ELSE "NotRun"
    BY <1>4 DEF DispatchReads
  <2>2. present' \in Seq(Target)
    BY <2>1, TargetsFact
  <2>3. seen' \subseteq Target
    BY <2>1, DispatchAssumption
  <2>4. step' \in {"idle", "compare"} /\ verdict' \in DispatchOutcomes
    BY <2>1 DEF DispatchOutcomes
  <2>5. QED
    BY <1>4, <2>2, <2>3, <2>4 DEF DispatchReads, DispatchTypeOK
<1>5. CASE DispatchCompare
  BY <1>5 DEF DispatchCompare, CompareSkip, CompareTest, CompareEnds,
              SlotBefore,
              DispatchTypeOK, DispatchOutcomes
<1>6. CASE UNCHANGED dispatchVars
  BY <1>6 DEF dispatchVars, DispatchTypeOK
<1>7. QED
  BY <1>1, <1>2, <1>3, <1>4, <1>5, <1>6 DEF DispatchNext, DispatchScan

\* The variables of a scan keep their types, and no position leaves its table
\* (fact/dispatch.rs:124-142).
THEOREM TargetTypeCorrect == DispatchSpec => []DispatchTypeOK
<1>1. DispatchInit => DispatchTypeOK /\ TargetAtStart
  BY DEF DispatchInit, DispatchTypeOK, TargetAtStart, NoTargets, TargetSnapshot,
         DispatchOutcomes
<1>2. DispatchTypeOK /\ TargetAtStart /\ [DispatchNext]_dispatchVars
        => (DispatchTypeOK /\ TargetAtStart)'
  BY TargetTypeStep
<1>3. QED
  BY <1>1, <1>2, PTL DEF DispatchSpec

-----------------------------------------------------------------------------
\* Slot order puts the slots in order (fact/dispatch.rs:83).
LEMMA SlotsOrdered ==
  ASSUME NEW s \in Seq(Target), SlotOrder(s),
         NEW i \in DOMAIN s, NEW j \in DOMAIN s, i <= j
  PROVE  s[i].slot <= s[j].slot
<1>1. s[i] \in Target /\ s[j] \in Target /\ i \in Nat /\ j \in Nat
  OBVIOUS
<1>2. s[i].slot \in Nat /\ s[j].slot \in Nat
  BY <1>1 DEF Target
<1>3. CASE i = j
  BY <1>2, <1>3
<1>4. CASE i < j
  <2>1. ~TargetPrecedes(s[j], s[i])
    BY <1>4 DEF SlotOrder
  <2>2. QED
    BY <1>2, <2>1 DEF TargetPrecedes
<1>5. QED
  BY <1>1, <1>3, <1>4

\* One test decides the rule (fact/dispatch.rs:128-139): the captured entry at
\* before is the only one that can have the slot.
LEMMA TestDecides ==
  ASSUME DispatchTypeOK, RedirectedInv,
         step = "compare", target <= Len(present), ~SlotBefore
  PROVE  MovedSince(held, present[target])
           <=> /\ before <= Len(start.targets)
               /\ start.targets[before].slot = present[target].slot
               /\ start.targets[before].value # present[target].value
<1> DEFINE earlier == start.targets
           slot == present[target].slot
           value == present[target].value
<1>1. /\ earlier \in Seq(Target) /\ present[target] \in Target
      /\ before \in 1 .. Len(earlier) + 1
      /\ held = {earlier[i] : i \in 1 .. Len(earlier)}
      /\ SlotOrder(earlier)
      /\ \A i, j \in 1 .. Len(earlier) : earlier[i].slot = earlier[j].slot
           => earlier[i].value = earlier[j].value
      /\ \A k \in 1 .. before - 1 : earlier[k].slot < slot
      /\ before <= Len(earlier) => ~(earlier[before].slot < slot)
  BY DEF DispatchTypeOK, RedirectedInv, StartInv, DispatchCompareInv,
         TargetElements, SlotBefore
<1> HIDE DEF earlier
<1>2. slot \in Nat /\ \A i \in 1 .. Len(earlier) : earlier[i].slot \in Nat
  <2>1. \A i \in 1 .. Len(earlier) : earlier[i] \in Target
    BY <1>1
  <2>2. QED
    BY <1>1, <2>1 DEF Target
<1>3. MovedSince(held, present[target])
        <=> \E i \in 1 .. Len(earlier) :
              earlier[i].slot = slot /\ earlier[i].value # value
  BY <1>1 DEF MovedSince
<1> HIDE DEF slot, value
<1>4. ASSUME NEW i \in 1 .. Len(earlier),
             earlier[i].slot = slot, earlier[i].value # value
      PROVE  /\ before <= Len(earlier)
             /\ earlier[before].slot = slot
             /\ earlier[before].value # value
  <2>1. ~(i \in 1 .. before - 1)
    BY <1>1, <1>2, <1>4
  <2>2. before \in 1 .. Len(earlier) /\ before <= i
    BY <1>1, <2>1
  <2>3. earlier[before].slot <= earlier[i].slot
    BY <1>1, <2>2, SlotsOrdered
  <2>4. earlier[before].slot = slot
    BY <1>1, <1>2, <1>4, <2>2, <2>3
  <2>5. QED
    BY <1>1, <1>4, <2>2, <2>4
<1>5. MovedSince(held, present[target])
        <=> /\ before <= Len(earlier)
            /\ earlier[before].slot = slot
            /\ earlier[before].value # value
  <2>1. before <= Len(earlier) => before \in 1 .. Len(earlier)
    BY <1>1
  <2>2. QED
    BY <1>3, <1>4, <2>1
<1>6. QED
  BY <1>5 DEF earlier, slot, value

-----------------------------------------------------------------------------
TargetIndInv == RedirectedInv /\ UnmovedIsCertain /\ RedirectedIsExact

\* A capture starts no comparison, and keeps what it read in slot order
\* (builder.rs:280-284).
LEMMA TargetCaptureKeeps ==
  ASSUME DispatchTypeOK, TargetIndInv, CaptureTargets \/ CaptureNoTargets
  PROVE  TargetIndInv'
<1>1. /\ step' = "idle" /\ verdict' = "NotRun"
  BY DEF CaptureTargets, CaptureNoTargets, TargetIndInv, RedirectedInv
<1>2. StartInv'
  <2>1. CASE CaptureNoTargets
    BY <2>1 DEF CaptureNoTargets, NoTargets, TargetSnapshot, StartInv,
                SlotOrder,
                Comparable
  <2>2. CASE CaptureTargets
    <3>1. PICK table \in Tables, bound \in BOOLEAN :
            start' \in Targets(table, bound) /\ held' = TargetElements(table)
      BY <2>2 DEF CaptureTargets, TargetElements
    <3>2. QED
      BY <3>1, TargetsFact DEF StartInv, Comparable
  <2>3. QED
    BY <2>1, <2>2
<1>3. QED
  BY <1>1, <1>2 DEF TargetIndInv, RedirectedInv, DispatchCompareInv,
                    UnmovedIsCertain,
                    RedirectedIsExact

\* A scan compares two complete tables or reports neither Clean nor a moved
\* entry (detector dispatch.rs:52-81).
LEMMA TargetScanKeeps ==
  ASSUME DispatchTypeOK, TargetIndInv, DispatchScan
  PROVE  TargetIndInv'
<1>1. CASE DispatchWithoutStart \/ DispatchReadsNothing
  BY <1>1 DEF DispatchWithoutStart, DispatchReadsNothing, TargetIndInv,
              RedirectedInv, StartInv,
              DispatchCompareInv, Comparable, UnmovedIsCertain,
              RedirectedIsExact
<1>2. CASE DispatchReads
  <2>1. PICK table \in Tables, bound \in BOOLEAN :
          \E now \in Targets(table, bound) :
            /\ present' = now.targets
            /\ seen' = TargetElements(table)
            /\ step' = IF now.truncated THEN "idle" ELSE "compare"
            /\ verdict' = IF now.truncated THEN "Unsupported" ELSE "NotRun"
    BY <1>2 DEF DispatchReads, TargetElements
  <2>2. /\ SlotOrder(present')
        /\ step' = "compare" => seen' = TargetElements(present')
        /\ verdict' \in {"Unsupported", "NotRun"}
        /\ step' # "idle" => verdict' = "NotRun"
    BY <2>1, TargetsFact
  <2>3. StartInv'
    BY <1>2 DEF DispatchReads, TargetIndInv, RedirectedInv, StartInv, Comparable
  <2>4. DispatchCompareInv'
    BY <1>2, <2>2 DEF DispatchReads, DispatchCompareInv, Comparable,
                      TargetsUpto
  <2>5. QED
    BY <2>2, <2>3, <2>4 DEF TargetIndInv, RedirectedInv, UnmovedIsCertain,
                            RedirectedIsExact
<1>3. QED
  BY <1>1, <1>2 DEF DispatchScan

\* The pass keeps its invariant, and ends with the entries that moved
\* (fact/dispatch.rs:124-142).
LEMMA CompareKeeps ==
  ASSUME DispatchTypeOK, TargetIndInv, DispatchCompare
  PROVE  TargetIndInv'
<1>1. /\ UNCHANGED <<start, present, held, seen>>
      /\ step = "compare" /\ verdict = "NotRun" /\ start.bound
      /\ seen = TargetElements(present) /\ SlotOrder(present)
      /\ redirected = {t \in TargetsUpto(present, target) : MovedSince(held, t)}
      /\ present \in Seq(Target)
  BY DEF DispatchCompare, CompareSkip, CompareTest, CompareEnds, TargetIndInv,
         RedirectedInv,
         DispatchCompareInv, Comparable, DispatchTypeOK
<1>2. StartInv'
  BY <1>1 DEF TargetIndInv, RedirectedInv, StartInv, Comparable
<1>3. CASE CompareSkip
  <2>1. \A k \in 1 .. before' - 1 :
          start.targets[k].slot < present[target].slot
    BY <1>3 DEF CompareSkip, SlotBefore, DispatchTypeOK, TargetIndInv,
                RedirectedInv, DispatchCompareInv
  <2>2. DispatchCompareInv'
    BY <1>1, <1>3, <2>1 DEF CompareSkip, DispatchCompareInv, Comparable,
                            TargetIndInv,
         RedirectedInv, MovedSince, TargetsUpto
  <2>3. QED
    BY <1>1, <1>2, <1>3, <2>2
    DEF CompareSkip, TargetIndInv, RedirectedInv, UnmovedIsCertain, RedirectedIsExact
<1>4. CASE CompareTest
  <2>1. /\ target \in 1 .. Len(present)
        /\ target' = target + 1 /\ UNCHANGED <<before, step, verdict>>
    BY <1>4 DEF CompareTest, DispatchTypeOK
  <2>2. redirected' = {t \in TargetsUpto(present, target + 1) : MovedSince(held, t)}
    <3>1. 1 .. (target + 1) - 1 = (1 .. target - 1) \cup {target}
      BY <2>1
    <3>2. TargetsUpto(present, target + 1)
            = TargetsUpto(present, target) \cup {present[target]}
      BY <3>1 DEF TargetsUpto
    <3>3. redirected' = IF MovedSince(held, present[target])
                        THEN redirected \cup {present[target]}
                        ELSE redirected
      BY <1>4, TestDecides DEF CompareTest, TargetIndInv
    <3>4. QED
      BY <1>1, <3>2, <3>3
  <2>3. ASSUME NEW k \in 1 .. before - 1, target + 1 <= Len(present)
        PROVE  start.targets[k].slot < present[target + 1].slot
    <3>1. start.targets[k].slot < present[target].slot
      BY <1>1, <2>1 DEF TargetIndInv, RedirectedInv, DispatchCompareInv
    <3>2. present[target].slot <= present[target + 1].slot
      BY <1>1, <2>1, <2>3, SlotsOrdered
    <3>3. k \in 1 .. Len(start.targets)
      BY DEF DispatchTypeOK
    <3>4. start.targets[k] \in Target /\ present[target] \in Target
            /\ present[target + 1] \in Target
      BY <1>1, <2>1, <2>3, <3>3 DEF DispatchTypeOK
    <3>5. QED
      BY <3>1, <3>2, <3>4 DEF Target
  <2>4. DispatchCompareInv'
    BY <1>1, <2>1, <2>2, <2>3 DEF DispatchCompareInv, Comparable, TargetIndInv,
                                  RedirectedInv,
         MovedSince, TargetsUpto
  <2>5. QED
    BY <1>1, <1>2, <2>1, <2>4
    DEF TargetIndInv, RedirectedInv, UnmovedIsCertain, RedirectedIsExact
<1>5. CASE CompareEnds
  <2>1. redirected = {t \in seen : MovedSince(held, t)}
    <3>1. target = Len(present) + 1
      BY <1>5 DEF CompareEnds, DispatchTypeOK
    <3>2. TargetsUpto(present, Len(present) + 1) = TargetElements(present)
      BY <1>1 DEF TargetsUpto, TargetElements
    <3>3. QED
      BY <1>1, <3>1, <3>2
  <2>2. step' = "idle" /\ UNCHANGED redirected
          /\ verdict' = IF redirected = {} THEN "Clean"
                        ELSE "DispatchRedirected"
    BY <1>5 DEF CompareEnds
  <2>3. UnmovedIsCertain' /\ RedirectedIsExact'
    BY <1>1, <2>1, <2>2 DEF UnmovedIsCertain, RedirectedIsExact, MovedSince
  <2>4. QED
    BY <1>2, <2>2, <2>3 DEF TargetIndInv, RedirectedInv, DispatchCompareInv
<1>6. QED
  BY <1>3, <1>4, <1>5 DEF DispatchCompare

-----------------------------------------------------------------------------
\* The pass of a scan (fact/dispatch.rs:124-142) has done exactly what the
\* reference rule says of the entries it passed.
THEOREM LoopExact ==
  DispatchSpec => [](RedirectedInv /\ UnmovedIsCertain /\ RedirectedIsExact)
<1>1. DispatchInit => TargetIndInv
  BY DEF DispatchInit, TargetIndInv, RedirectedInv, StartInv, DispatchCompareInv,
         Comparable,
         UnmovedIsCertain, RedirectedIsExact, NoTargets, TargetSnapshot,
         SlotOrder
<1>2. DispatchTypeOK /\ TargetIndInv /\ [DispatchNext]_dispatchVars => TargetIndInv'
  <2>1. CASE UNCHANGED dispatchVars
    BY <2>1 DEF dispatchVars, TargetIndInv, RedirectedInv, StartInv,
                DispatchCompareInv, Comparable,
         UnmovedIsCertain, RedirectedIsExact, MovedSince
  <2>2. QED
    BY <2>1, TargetCaptureKeeps, TargetScanKeeps, CompareKeeps DEF DispatchNext
<1>3. QED
  BY <1>1, <1>2, TargetTypeCorrect, PTL DEF DispatchSpec, TargetIndInv

\* After a clean scan no entry that start() captured points elsewhere
\* (detector dispatch.rs:62-84).
THEOREM TargetCleanCertain == DispatchSpec => []UnmovedIsCertain
BY LoopExact, PTL

\* A finding counts exactly the entries that moved (detector dispatch.rs:82-97).
THEOREM TargetFindingExact == DispatchSpec => []RedirectedIsExact
BY LoopExact, PTL

-----------------------------------------------------------------------------
(***************************************************************************)
(* The import tables.                                                      *)
(***************************************************************************)

\* What is kept of a list: its elements in T.
Sifted(kept, list, T) ==
  \A x : (\E p \in 1 .. Len(kept) : kept[p] = x)
           <=> x \in T /\ \E i \in 1 .. Len(list) : list[i] = x

LEMMA KeptElements ==
  ASSUME NEW S, NEW list \in Seq(S), NEW T
  PROVE  LET kept == FlattenSeq([i \in DOMAIN list |->
                                   IF list[i] \in T THEN <<list[i]>> ELSE <<>>])
         IN  kept \in Seq(S) /\ Sifted(kept, list, T)
<1> DEFINE parts == [i \in DOMAIN list |-> IF list[i] \in T THEN <<list[i]>> ELSE <<>>]
           kept == FlattenSeq(parts)
<1>1. Len(list) \in Nat /\ DOMAIN list = 1 .. Len(list)
      /\ \A i \in 1 .. Len(list) : list[i] \in S
  OBVIOUS
<1>2. ASSUME NEW i \in 1 .. Len(list)
      PROVE  /\ parts[i] \in Seq(S)
             /\ \A x : (\E j \in 1 .. Len(parts[i]) : parts[i][j] = x) <=> x \in T /\ list[i] = x
  <2>1. CASE list[i] \in T
    <3>1. parts[i] = <<list[i]>> /\ list[i] \in S
      BY <1>1, <2>1
    <3> HIDE DEF parts
    <3>2. parts[i] \in Seq(S) /\ Len(parts[i]) = 1 /\ parts[i][1] = list[i]
      BY <3>1
    <3> QED BY <3>2, <2>1
  <2>2. CASE list[i] \notin T
    <3>1. parts[i] = <<>>
      BY <1>1, <2>2
    <3>2. parts[i] \in Seq(S) /\ Len(parts[i]) = 0
      BY <3>1
    <3> HIDE DEF parts
    <3> QED BY <3>2, <2>2
  <2> QED BY <2>1, <2>2
<1>3. parts \in Seq(Seq(S)) /\ Len(parts) = Len(list)
  <2>1. parts = [i \in 1 .. Len(list) |-> parts[i]]
    BY <1>1
  <2> HIDE DEF parts
  <2> QED BY <1>1, <1>2, <2>1
<1> HIDE DEF parts
<1>4. kept \in Seq(S)
  BY <1>3, FlattenPositions
<1>5. Gathers(kept, parts)
  BY <1>3, FlattenElements
<1> DEFINE N == Len(list)
<1> HIDE DEF kept, N
<1>6. ASSUME NEW x
      PROVE  (\E p \in 1 .. Len(kept) : kept[p] = x)
               <=> x \in T /\ \E i \in 1 .. N : list[i] = x
  <2>1. (\E p \in 1 .. Len(kept) : kept[p] = x)
          <=> (\E i \in 1 .. N : \E j \in 1 .. Len(parts[i]) : parts[i][j] = x)
    BY <1>3, <1>5 DEF Gathers, N
  <2>2. \A i \in 1 .. N :
          (\E j \in 1 .. Len(parts[i]) : parts[i][j] = x) <=> x \in T /\ list[i] = x
    BY <1>2 DEF N
  <2> QED BY <2>1, <2>2
<1> QED BY <1>4, <1>6 DEF Sifted, kept, parts, N

\* A range inside a mapped one reads only mapped units.
Mapped(ranges) == UNION {Units(r.low, r.high - r.low) : r \in ranges}

LEMMA WithinUnits ==
  ASSUME NEW address \in Int, NEW units \in Int, NEW ranges,
         \A r \in ranges : r.low \in Int /\ r.high \in Int,
         Within(address, units, ranges)
  PROVE  Units(address, units) \subseteq Mapped(ranges)
<1>1. PICK r \in ranges : address >= r.low /\ address + units <= r.high
  BY DEF Within
<1>2. Units(address, units) \subseteq Units(r.low, r.high - r.low)
  BY <1>1 DEF Units
<1> QED BY <1>2 DEF Mapped

\* The table that a dynamic array states is one, with sizes (elf/mod.rs:81-118).
LEMMA DynamicTableType ==
  ASSUME NEW array \in Seq([tag : STRING, value : Nat])
  PROVE  /\ \A a \in dynamic_table(array) :
              a.jump_relocations \in Nat /\ a.jump_relocation_bytes \in Nat
         /\ \A a, b \in dynamic_table(array) : a = b
<1> DEFINE ends == {i \in DOMAIN array : array[i].tag = "NULL"}
           entries == SubSeq(array, 1, Min(ends) - 1)
           E == [tag : STRING, value : Nat]
<1>1. CASE ends = {}
  BY <1>1 DEF dynamic_table
<1>2. CASE ends # {}
  <2>1. ends \in SUBSET Nat
    OBVIOUS
  <2>2. Min(ends) \in ends
    <3> HIDE DEF ends
    <3> QED BY <1>2, <2>1, MinOfSet
  <2>3. Min(ends) \in 1 .. Len(array)
    BY <2>2
  <2>4. entries \in Seq(E)
    <3> HIDE DEF ends, E
    <3>1. array \in Seq(E)
      BY DEF E
    <3> QED BY <2>3, <3>1
  <2> HIDE DEF entries
  <2>5. ASSUME NEW tag PROVE Entry(entries, tag) \in Nat
    <3> DEFINE places == {i \in DOMAIN entries : entries[i].tag = tag}
    <3>1. CASE places = {}
      BY <3>1 DEF Entry
    <3>2. CASE places # {}
      <4>1. Len(entries) \in Nat /\ places \in SUBSET (0 .. Len(entries)) /\ DOMAIN entries = 1 .. Len(entries)
        BY <2>4
      <4>2. Max(places) \in places
        <5> HIDE DEF places
        <5> QED BY <3>2, <4>1, MaxOfSet
      <4>3. Max(places) \in 1 .. Len(entries)
        BY <4>1, <4>2
      <4>4. entries[Max(places)] \in E
        <5> HIDE DEF places, E
        <5> QED BY <2>4, <4>3
      <4> QED BY <3>2, <4>4 DEF Entry
    <3> QED BY <3>1, <3>2
  <2> DEFINE one == [jump_relocations |-> Entry(entries, "JMPREL"),
                     jump_relocation_bytes |-> Entry(entries, "PLTRELSZ"),
                     bound |-> \E i \in DOMAIN entries : Binds(entries[i])]
  <2>6. dynamic_table(array) \subseteq {one}
    BY DEF dynamic_table, entries
  <2>7. one.jump_relocations \in Nat /\ one.jump_relocation_bytes \in Nat
    BY <2>5
  <2> HIDE DEF one
  <2> QED BY <2>6, <2>7
<1> QED BY <1>1, <1>2

\* So is the one of an image.
LEMMA DynamicArrayType ==
  ASSUME NEW im \in ElfImages
  PROVE  /\ \A a \in DynamicArray(im) :
              a.jump_relocations \in Nat /\ a.jump_relocation_bytes \in Nat
         /\ \A a, b \in DynamicArray(im) : a = b
<1>1. ASSUME NEW a \in DynamicArray(im)
      PROVE  \E d \in im.dynamic : a \in dynamic_table(d.entries)
  BY DEF DynamicArray
<1>2. \A d \in im.dynamic : /\ d.entries \in Seq([tag : STRING, value : Nat])
                            /\ \A e \in im.dynamic : d = e
  BY ElfAssumption
<1>3. ASSUME NEW a \in DynamicArray(im)
      PROVE  a.jump_relocations \in Nat /\ a.jump_relocation_bytes \in Nat
  BY <1>1, <1>2, DynamicTableType
<1>4. ASSUME NEW a \in DynamicArray(im), NEW b \in DynamicArray(im) PROVE a = b
  <2>1. PICK d \in im.dynamic : a \in dynamic_table(d.entries)
    BY <1>1
  <2>2. b \in dynamic_table(d.entries)
    BY <1>1, <1>2
  <2> QED BY <1>2, <2>1, <2>2, DynamicTableType
<1> QED BY <1>3, <1>4

\* The least of two numbers.
LEMMA MinOfTwo ==
  ASSUME NEW a \in Nat, NEW b \in Nat
  PROVE  /\ Min({a, b}) \in Nat /\ Min({a, b}) <= a /\ Min({a, b}) <= b
         /\ Min({a, b}) = a \/ Min({a, b}) = b
<1> DEFINE two == {a, b}
<1>1. two \in SUBSET Nat /\ two # {} /\ a \in two /\ b \in two
  OBVIOUS
<1> HIDE DEF two
<1>2. Min(two) \in two /\ \A y \in two : Min(two) <= y
  BY <1>1, MinOfSet
<1>3. Min(two) <= a /\ Min(two) <= b
  BY <1>1, <1>2
<1> QED BY <1>2, <1>3 DEF two

\* The slots of a list of targets.
SlotsOf(list) == {list[i].slot : i \in DOMAIN list}

\* A snapshot keeps the first targets of a list: all of them, unless it says that
\* it was cut (fact/dispatch.rs:77-92).
LEMMA TakenWhole ==
  ASSUME NEW S, NEW list \in Seq(S), NEW bound
  PROVE  LET taken == TakeTargets(list, bound)
         IN  /\ taken.kind = "Fact"
             /\ taken.truncated <=> Len(list) > LIMIT
             /\ Len(list) > LIMIT => Len(taken.targets) = LIMIT
             /\ Len(list) <= LIMIT => taken.targets = list
<1> DEFINE least == Min({Len(list), LIMIT})
<1>1. LIMIT \in Nat /\ Len(list) \in Nat
  BY ImportAssumption
<1>2. least \in {Len(list), LIMIT} /\ least <= Len(list) /\ least <= LIMIT
  BY <1>1, MinOfTwo
<1> HIDE DEF least
<1>3. least \in Nat /\ least <= Len(list)
  BY <1>1, <1>2
<1>4. Len(SubSeq(list, 1, least)) = least
  BY <1>3
<1>5. Len(list) <= LIMIT => SubSeq(list, 1, least) = list
  <2>1. SUFFICES ASSUME Len(list) <= LIMIT PROVE SubSeq(list, 1, least) = list
    OBVIOUS
  <2>2. least = Len(list)
    BY <1>1, <1>2, <2>1
  <2> QED BY <2>2
<1>6. Len(list) > LIMIT => least = LIMIT
  BY <1>1, <1>2
<1> QED BY <1>1, <1>4, <1>5, <1>6 DEF TakeTargets, least

\* The load segments of an image are ranges of addresses.
LEMMA LoadRangesTyped ==
  ASSUME NEW im \in ElfImages
  PROVE  \A r \in LoadRanges(im) : r.low \in Int /\ r.high \in Int
BY ElfAssumption DEF LoadRanges

\* A relocation in a load segment states an offset.
LEMMA OffsetsTyped ==
  ASSUME NEW im \in ElfImages, NEW table \in Nat, NEW units \in Nat,
         mapped_bytes(im, table, units), NEW a \in Units(table, units)
  PROVE  im.relocations[a].offset \in Nat
<1>1. PICK r \in LoadRanges(im) : table >= r.low /\ table + units <= r.high
  BY DEF mapped_bytes, Within
<1>2. PICK load \in im.loads :
        r = [low |-> im.base + load.vaddr, high |-> im.base + load.vaddr + load.memsz]
  BY DEF LoadRanges
<1>3. /\ im.base \in Nat /\ load.vaddr \in Nat /\ load.memsz \in Nat
      /\ \A b \in 0 .. load.memsz - 1 :
           im.relocations[im.base + load.vaddr + b].offset \in Nat
  BY ElfAssumption
<1> DEFINE low == im.base + load.vaddr
           b == a - low
<1>4. low \in Nat /\ table >= low /\ table + units <= low + load.memsz
  BY <1>1, <1>2, <1>3
<1> HIDE DEF low
<1>5. a \in Int /\ table <= a /\ a < table + units
  BY DEF Units
<1>6. b \in 0 .. load.memsz - 1 /\ low + b = a
  BY <1>3, <1>4, <1>5
<1> HIDE DEF b
<1>7. im.relocations[low + b].offset \in Nat
  BY <1>3, <1>6 DEF low
<1> QED BY <1>6, <1>7

\* What read() of Linux and Android answers: a list that is not cut has every
\* slot of the table, and all that was read is mapped
\* (sys/dispatch.rs of Linux:61-111, Android:98-205).
ReadRight(answer, slots, ranges) ==
  /\ answer.snapshot.kind = "Fact" /\ ~answer.snapshot.truncated
       => SlotsOf(answer.snapshot.targets) = slots
  /\ answer.touched \subseteq Mapped(ranges)

LEMMA NothingRight ==
  ASSUME NEW slots, NEW ranges PROVE ReadRight(Nothing, slots, ranges)
BY DEF ReadRight, Nothing, NoTable

LEMMA ElfRead ==
  ASSUME NEW im \in ElfImages, NEW table \in Nat, NEW array,
         array.jump_relocation_bytes \in Nat
  PROVE  ReadRight(ReadElf(im, table, array), ElfSlots(im, table, array), LoadRanges(im))
<1> DEFINE units == array.jump_relocation_bytes
           relocations == [i \in 1 .. units |-> im.relocations[table + i - 1]]
           S == {im.relocations[a] : a \in Units(table, units)}
           T == {r \in S : r.jump}
           jumps == FlattenSeq([i \in DOMAIN relocations |->
                                  IF relocations[i].jump THEN <<relocations[i]>> ELSE <<>>])
           offsets == jump_slots(relocations, Room)
           slots == [i \in DOMAIN offsets |-> im.base + offsets[i]]
           found == [i \in DOMAIN slots |->
                       [slot |-> slots[i], value |-> im.memory[slots[i]]]]
<1>1. CASE ~mapped_bytes(im, table, units)
  BY <1>1, NothingRight DEF ReadElf
<1>2. CASE mapped_bytes(im, table, units)
  <2>1. Units(table, units) \subseteq Mapped(LoadRanges(im))
    BY <1>2, LoadRangesTyped, WithinUnits DEF mapped_bytes
  <2>2. relocations \in Seq(S) /\ Len(relocations) = units
    <3>1. ASSUME NEW i \in 1 .. units PROVE im.relocations[table + i - 1] \in S
      <4>1. table + i - 1 \in Units(table, units)
        BY DEF Units
      <4> QED BY <4>1
    <3> HIDE DEF S
    <3> QED BY <3>1
  <2>3. S = {relocations[i] : i \in 1 .. units}
    <3>1. ASSUME NEW a \in Units(table, units)
          PROVE  \E i \in 1 .. units : im.relocations[a] = relocations[i]
      <4>1. a - table + 1 \in 1 .. units /\ table + (a - table + 1) - 1 = a
        BY DEF Units
      <4> QED BY <4>1
    <3>2. \A i \in 1 .. units : relocations[i] \in S
      <4> HIDE DEF relocations, S
      <4> QED BY <2>2
    <3>3. ASSUME NEW x \in S PROVE \E i \in 1 .. units : x = relocations[i]
      <4> HIDE DEF relocations
      <4> QED BY <3>1
    <3> HIDE DEF relocations, S
    <3> QED BY <3>2, <3>3
  <2>4. \A x \in S : x.offset \in Nat
    BY <1>2, OffsetsTyped
  <2> HIDE DEF S
  <2>5. jumps \in Seq(S) /\ Sifted(jumps, relocations, T)
    <3>1. [i \in DOMAIN relocations |->
             IF relocations[i].jump THEN <<relocations[i]>> ELSE <<>>]
            = [i \in DOMAIN relocations |->
                 IF relocations[i] \in T THEN <<relocations[i]>> ELSE <<>>]
      <4>1. \A i \in DOMAIN relocations : relocations[i] \in S
        <5> HIDE DEF relocations
        <5> QED BY <2>2
      <4> HIDE DEF relocations
      <4> QED BY <4>1
    <3> HIDE DEF relocations, T
    <3> QED BY <2>2, <3>1, KeptElements
  <2>6. {jumps[i] : i \in 1 .. Len(jumps)} = T
    <3> HIDE DEF jumps, relocations
    <3>1. ASSUME NEW i \in 1 .. Len(jumps) PROVE jumps[i] \in T
      BY <2>5 DEF Sifted
    <3>2. ASSUME NEW x \in T PROVE \E i \in 1 .. Len(jumps) : jumps[i] = x
      <4>1. \E i \in 1 .. Len(relocations) : relocations[i] = x
        BY <2>2, <2>3
      <4> QED BY <4>1, <2>5 DEF Sifted
    <3> QED BY <3>1, <3>2
  <2> DEFINE m == Min({Len(jumps), Room})
  <2>7. /\ m \in Nat /\ m <= Len(jumps) /\ Len(jumps) \in Nat
        /\ m = Len(jumps) \/ m = LIMIT + 1
    <3> HIDE DEF jumps
    <3>1. Len(jumps) \in Nat /\ Room \in Nat /\ Room = LIMIT + 1
      BY <2>5, ImportAssumption DEF Room
    <3> QED BY <3>1, MinOfTwo
  <2>8. offsets = [i \in 1 .. m |-> jumps[i].offset]
    BY DEF jump_slots, Passing
  <2> HIDE DEF jumps, m, relocations, offsets
  <2>9. /\ slots = [i \in 1 .. m |-> im.base + jumps[i].offset]
        /\ \A i \in 1 .. m : slots[i] \in Nat /\ slots[i] = im.base + jumps[i].offset
    <3>1. slots = [i \in 1 .. m |-> im.base + jumps[i].offset]
      BY <2>8
    <3>2. ASSUME NEW i \in 1 .. m PROVE im.base + jumps[i].offset \in Nat
      <4>1. jumps[i] \in S
        BY <2>5, <2>7
      <4> QED BY <2>4, <4>1, ElfAssumption
    <3> QED BY <3>1, <3>2
  <2> HIDE DEF slots
  <2>10. /\ found \in Seq({found[i] : i \in 1 .. m}) /\ Len(found) = m
         /\ DOMAIN found = 1 .. m
         /\ \A i \in 1 .. m : found[i].slot = im.base + jumps[i].offset
    <3>1. DOMAIN slots = 1 .. m
      BY <2>9
    <3>2. /\ found = [i \in 1 .. m |-> found[i]]
          /\ \A i \in 1 .. m : found[i].slot = im.base + jumps[i].offset
      BY <2>9, <3>1
    <3> DEFINE F == {found[i] : i \in 1 .. m}
    <3>3. \A i \in 1 .. m : found[i] \in F
      OBVIOUS
    <3> HIDE DEF found, F
    <3>4. found \in Seq(F) /\ Len(found) = m /\ DOMAIN found = 1 .. m
      BY <2>7, <3>2, <3>3
    <3> QED BY <3>2, <3>4 DEF F
  <2> HIDE DEF found
  <2>11. CASE \A i \in DOMAIN slots : mapped_bytes(im, slots[i], 1)
    <3> DEFINE taken == TakeTargets(found, array.bound)
    <3>1. ReadElf(im, table, array)
            = [snapshot |-> taken, touched |-> Units(table, units) \cup ToSet(slots)]
      BY <1>2, <2>11 DEF ReadElf, found, slots, offsets, relocations
    <3>2. ASSUME ~taken.truncated
          PROVE  SlotsOf(taken.targets) = ElfSlots(im, table, array)
      <4>1. m <= LIMIT /\ taken.targets = found
        <5>1. Len(found) <= LIMIT
          BY <2>7, <2>10, <3>2, TakenWhole, ImportAssumption
        <5> QED BY <2>10, <5>1, TakenWhole
      <4>2. m = Len(jumps)
        BY <2>7, <4>1, ImportAssumption
      <4>3. SlotsOf(taken.targets) = {im.base + jumps[i].offset : i \in 1 .. Len(jumps)}
        <5> HIDE DEF taken
        <5> QED BY <2>10, <4>1, <4>2 DEF SlotsOf
      <4>4. {im.base + jumps[i].offset : i \in 1 .. Len(jumps)} = {im.base + r.offset : r \in T}
        BY <2>6
      <4>5. ElfSlots(im, table, array) = {im.base + r.offset : r \in T}
        BY DEF ElfSlots, S
      <4> QED BY <4>3, <4>4, <4>5
    <3>3. ToSet(slots) \subseteq Mapped(LoadRanges(im))
      <4>1. ASSUME NEW i \in 1 .. m PROVE slots[i] \in Mapped(LoadRanges(im))
        <5>1. Within(slots[i], 1, LoadRanges(im)) /\ slots[i] \in Int
          BY <2>9, <2>11 DEF mapped_bytes
        <5>2. Units(slots[i], 1) \subseteq Mapped(LoadRanges(im))
          BY <5>1, LoadRangesTyped, WithinUnits
        <5>3. slots[i] \in Units(slots[i], 1)
          BY <5>1 DEF Units
        <5> QED BY <5>2, <5>3
      <4>2. DOMAIN slots = 1 .. m
        BY <2>9
      <4> QED BY <4>1, <4>2 DEF ToSet
    <3> HIDE DEF taken
    <3> QED BY <2>1, <3>1, <3>2, <3>3 DEF ReadRight
  <2>12. CASE ~\A i \in DOMAIN slots : mapped_bytes(im, slots[i], 1)
    <3>1. ReadElf(im, table, array) = [Nothing EXCEPT !.touched = Units(table, units)]
      BY <1>2, <2>12 DEF ReadElf, slots, offsets, relocations
    <3> QED BY <2>1, <3>1 DEF ReadRight, Nothing, NoTable
  <2> QED BY <2>11, <2>12
<1> QED BY <1>1, <1>2

-----------------------------------------------------------------------------
(* Mach-O. Points are what the list may hold, and the loop is between two  *)
(* sections in a state of SectionStates.                                   *)

Points(im) == {[slot |-> a, value |-> im.memory[a]] : a \in Int}

SectionStates(im) ==
  {s \in [list : Seq(Points(im)), state : {"open", "full", "none"}, touched : SUBSET Int] :
     Len(s.list) <= LIMIT + 1}

SectionsStart == [list |-> <<>>, state |-> "open", touched |-> {}]

\* The sections of symbol pointers are sections (macho/dispatch.rs:69-125).
LEMMA SectionsTyped ==
  ASSUME NEW im \in MachImages
  PROVE  PointerSections(im) \in Seq(Sections)
<1> DEFINE parts == [i \in DOMAIN im.commands |->
                       IF im.commands[i].kind = "SEGMENT"
                       THEN im.commands[i].sections ELSE <<>>]
           flat == FlattenSeq(parts)
           T == {s \in Sections : s.pointers}
<1>1. im.commands \in Seq([kind : STRING, sound : BOOLEAN, sections : Seq(Sections)])
  BY MachAssumption
<1>2. parts \in Seq(Seq(Sections))
  <2> DEFINE N == Len(im.commands)
  <2>1. N \in Nat /\ DOMAIN im.commands = 1 .. N
        /\ \A i \in 1 .. N : im.commands[i].sections \in Seq(Sections)
    <3> DEFINE all == Seq(Sections)
               C == [kind : STRING, sound : BOOLEAN, sections : all]
               commands == im.commands
    <3> HIDE DEF all
    <3>1. \A c \in C : c.sections \in all
      OBVIOUS
    <3>2. commands \in Seq(C)
      BY <1>1 DEF all
    <3> HIDE DEF C, commands
    <3>3. Len(commands) \in Nat /\ DOMAIN commands = 1 .. Len(commands)
          /\ \A i \in 1 .. Len(commands) : commands[i].sections \in all
      BY <3>1, <3>2
    <3> QED BY <3>3 DEF all, commands
  <2> HIDE DEF N
  <2>2. parts = [i \in 1 .. N |-> parts[i]] /\ \A i \in 1 .. N : parts[i] \in Seq(Sections)
    BY <2>1
  <2> HIDE DEF parts
  <2> QED BY <2>1, <2>2
<1> HIDE DEF parts
<1>3. flat \in Seq(Sections)
  BY <1>2, FlattenPositions
<1> HIDE DEF flat
<1>4. [i \in DOMAIN flat |-> IF flat[i].pointers THEN <<flat[i]>> ELSE <<>>]
        = [i \in DOMAIN flat |-> IF flat[i] \in T THEN <<flat[i]>> ELSE <<>>]
  <2>1. \A i \in DOMAIN flat : flat[i] \in Sections
    BY <1>3
  <2> QED BY <2>1
<1>5. FlattenSeq([i \in DOMAIN flat |-> IF flat[i] \in T THEN <<flat[i]>> ELSE <<>>])
        \in Seq(Sections)
  <2> HIDE DEF T
  <2> QED BY <1>3, KeptElements
<1> QED BY <1>4, <1>5 DEF PointerSections, Passing, flat, parts

\* The slots of two lists, one behind the other.
LEMMA SlotsJoined ==
  ASSUME NEW S, NEW a \in Seq(S), NEW b \in Seq(S)
  PROVE  SlotsOf(a \o b) = SlotsOf(a) \cup SlotsOf(b)
<1> DEFINE both == a \o b
<1>1. /\ Len(a) \in Nat /\ Len(b) \in Nat /\ Joins(both, a, b)
      /\ DOMAIN a = 1 .. Len(a) /\ DOMAIN b = 1 .. Len(b)
      /\ DOMAIN both = 1 .. Len(both)
  <2>1. both \in Seq(S) /\ Joins(both, a, b)
    BY Joined
  <2> HIDE DEF both
  <2> QED BY <2>1
<1> HIDE DEF both
<1>2. /\ Len(both) = Len(a) + Len(b)
      /\ \A i \in 1 .. Len(a) : both[i] = a[i]
      /\ \A i \in 1 .. Len(b) : both[Len(a) + i] = b[i]
  BY <1>1 DEF Joins
<1>3. ASSUME NEW i \in 1 .. Len(both) PROVE both[i].slot \in SlotsOf(a) \cup SlotsOf(b)
  <2>1. CASE i <= Len(a)
    <3>1. i \in 1 .. Len(a)
      BY <1>1, <1>2, <2>1
    <3> QED BY <1>1, <1>2, <3>1 DEF SlotsOf
  <2>2. CASE i > Len(a)
    <3>1. i - Len(a) \in 1 .. Len(b) /\ Len(a) + (i - Len(a)) = i
      BY <1>1, <1>2, <2>2
    <3>2. both[i] = b[i - Len(a)]
      BY <1>2, <3>1
    <3> QED BY <1>1, <3>1, <3>2 DEF SlotsOf
  <2> QED BY <1>1, <1>2, <2>1, <2>2
<1>4. ASSUME NEW i \in 1 .. Len(a) PROVE a[i].slot \in SlotsOf(both)
  <2>1. i \in 1 .. Len(both) /\ both[i] = a[i]
    BY <1>1, <1>2
  <2> QED BY <1>1, <2>1 DEF SlotsOf
<1>5. ASSUME NEW i \in 1 .. Len(b) PROVE b[i].slot \in SlotsOf(both)
  <2>1. Len(a) + i \in 1 .. Len(both) /\ both[Len(a) + i] = b[i]
    BY <1>1, <1>2
  <2> QED BY <1>1, <2>1 DEF SlotsOf
<1>6. SlotsOf(both) \subseteq SlotsOf(a) \cup SlotsOf(b)
  BY <1>1, <1>3 DEF SlotsOf
<1>7. SlotsOf(a) \subseteq SlotsOf(both)
  BY <1>1, <1>4 DEF SlotsOf
<1>8. SlotsOf(b) \subseteq SlotsOf(both)
  BY <1>1, <1>5 DEF SlotsOf
<1> QED BY <1>6, <1>7, <1>8 DEF both

\* The pointers of a section are its units.
LEMMA PointersListed ==
  ASSUME NEW im, NEW address \in Int, NEW count \in Nat
  PROVE  LET list == Pointers(im, address, count)
         IN  /\ list \in Seq(Points(im)) /\ Len(list) = count
             /\ SlotsOf(list) = Units(address, count)
<1> DEFINE list == Pointers(im, address, count)
<1>1. ASSUME NEW i \in 1 .. count
      PROVE  list[i] \in Points(im) /\ list[i].slot = address + i - 1
  <2>1. address + i - 1 \in Int
    OBVIOUS
  <2>2. list[i] = [slot |-> address + i - 1, value |-> im.memory[address + i - 1]]
    BY DEF Pointers
  <2> QED BY <2>1, <2>2 DEF Points
<1>2. list = [i \in 1 .. count |-> list[i]]
  BY DEF Pointers
<1> HIDE DEF list
<1>3. list \in Seq(Points(im)) /\ Len(list) = count /\ DOMAIN list = 1 .. count
  BY <1>1, <1>2
<1>4. SlotsOf(list) \subseteq Units(address, count)
  BY <1>1, <1>3 DEF SlotsOf, Units
<1>5. ASSUME NEW a \in Units(address, count) PROVE a \in SlotsOf(list)
  <2>1. a - address + 1 \in 1 .. count /\ address + (a - address + 1) - 1 = a
    BY DEF Units
  <2>2. list[a - address + 1].slot = a
    BY <1>1, <2>1
  <2> QED BY <1>3, <2>1, <2>2 DEF SlotsOf
<1> QED BY <1>3, <1>4, <1>5 DEF list

\* What one section does to the list, the state and what was read: a loop that
\* goes on took all of it, one that is full took more than a snapshot keeps.
SectionTaken(im, prior, section, after) ==
  /\ prior.touched \subseteq Mapped(im.regions) => after.touched \subseteq Mapped(im.regions)
  /\ after.state = "full" => prior.state = "full" \/ Len(after.list) > LIMIT
  /\ after.state = "full" /\ prior.state = "full" => after = prior
  /\ after.state = "open" =>
       /\ prior.state = "open"
       /\ Len(prior.list) <= LIMIT =>
            /\ Len(after.list) <= LIMIT
            /\ SlotsOf(after.list) = SlotsOf(prior.list)
                 \cup Units(section.address + im.slide, section.count)

LEMMA SectionStep ==
  ASSUME NEW im \in MachImages, NEW s \in SectionStates(im), NEW section \in Sections
  PROVE  /\ TakeSection(im, s, section) \in SectionStates(im)
         /\ SectionTaken(im, s, section, TakeSection(im, s, section))
<1> DEFINE address == section.address + im.slide
           take == Min({section.count, Room - Len(s.list)})
           more == Pointers(im, address, take)
           after == TakeSection(im, s, section)
<1>0. LIMIT \in Nat /\ Room = LIMIT + 1
  BY ImportAssumption DEF Room
<1>1. /\ s.list \in Seq(Points(im)) /\ Len(s.list) \in Nat /\ Len(s.list) <= LIMIT + 1
      /\ s.state \in {"open", "full", "none"} /\ s.touched \in SUBSET Int
      /\ s = [list |-> s.list, state |-> s.state, touched |-> s.touched]
  BY DEF SectionStates
<1>2. section.count \in Nat /\ address \in Int
  BY MachAssumption DEF Sections
<1>3. /\ take \in Nat /\ take <= section.count /\ take <= Room - Len(s.list)
      /\ take = section.count \/ take = Room - Len(s.list)
  <2> DEFINE room == Room - Len(s.list)
  <2>1. room \in Nat
    BY <1>0, <1>1
  <2> HIDE DEF room
  <2>2. LET t == Min({section.count, room})
        IN  t \in Nat /\ t <= section.count /\ t <= room /\ (t = section.count \/ t = room)
    BY <1>2, <2>1, MinOfTwo
  <2> QED BY <2>2 DEF room
<1> HIDE DEF take, address
<1>4. CASE s.state # "open" \/ (take = 0 /\ section.whole)
  <2>1. after = s
    BY <1>4 DEF TakeSection, take, address
  <2>2. s.state = "open" => section.count = 0 \/ Len(s.list) = LIMIT + 1
    BY <1>0, <1>1, <1>3, <1>4
  <2>3. section.count = 0 => Units(address, section.count) = {}
    BY <1>2 DEF Units
  <2> HIDE DEF after
  <2>4. SectionTaken(im, s, section, s)
    BY <1>0, <1>1, <2>2, <2>3 DEF SectionTaken, address
  <2> QED BY <2>1, <2>4 DEF after
<1>5. CASE /\ s.state = "open" /\ ~(take = 0 /\ section.whole)
           /\ ~section.whole \/ ~region_mapped(im, address, take)
  <2>1. after = [s EXCEPT !.state = "none"]
    BY <1>5 DEF TakeSection, take, address
  <2>2. after = [list |-> s.list, state |-> "none", touched |-> s.touched]
    BY <1>1, <2>1
  <2> HIDE DEF after
  <2>3. after \in SectionStates(im)
    BY <1>1, <2>2 DEF SectionStates
  <2>4. SectionTaken(im, s, section, after)
    BY <2>2 DEF SectionTaken
  <2> QED BY <2>3, <2>4 DEF after
<1>6. CASE /\ s.state = "open" /\ ~(take = 0 /\ section.whole)
           /\ section.whole /\ region_mapped(im, address, take)
  <2>1. /\ more \in Seq(Points(im)) /\ Len(more) = take
        /\ SlotsOf(more) = Units(address, take)
    BY <1>2, <1>3, PointersListed
  <2> DEFINE list == s.list \o more
             state == IF take < section.count \/ Len(s.list) + take > LIMIT
                      THEN "full" ELSE "open"
             read == s.touched \cup Units(address, take)
  <2>2. after = [list |-> list, state |-> state, touched |-> read]
    BY <1>6 DEF TakeSection, take, address
  <2> HIDE DEF more, after
  <2>3. list \in Seq(Points(im)) /\ Len(list) = Len(s.list) + take
    BY <1>1, <2>1
  <2>4. SlotsOf(list) = SlotsOf(s.list) \cup Units(address, take)
    BY <1>1, <2>1, SlotsJoined
  <2>5. Units(address, take) \subseteq Int
    BY <1>2, <1>3 DEF Units
  <2>6. Units(address, take) \subseteq Mapped(im.regions)
    <3>1. Within(address, take, im.regions)
      BY <1>6 DEF region_mapped
    <3>2. \A r \in im.regions : r.low \in Int /\ r.high \in Int
      BY MachAssumption
    <3> QED BY <1>2, <1>3, <3>1, <3>2, WithinUnits
  <2>7. Len(list) <= LIMIT + 1
    BY <1>0, <1>1, <1>3, <2>3
  <2>8. state = "full" => Len(list) > LIMIT
    <3>1. take < section.count => take = Room - Len(s.list)
      BY <1>2, <1>3
    <3> QED BY <1>0, <1>1, <1>3, <2>3, <3>1
  <2>9. state = "open" => take = section.count /\ Len(list) <= LIMIT
    <3>1. ASSUME state = "open"
          PROVE  ~(take < section.count) /\ ~(Len(s.list) + take > LIMIT)
      BY <3>1
    <3> HIDE DEF list, state
    <3> QED BY <1>0, <1>1, <1>2, <1>3, <2>3, <3>1
  <2>10. state \in {"open", "full"} /\ read \subseteq Int
    BY <1>1, <2>5
  <2> HIDE DEF list, state
  <2>11. after \in SectionStates(im)
    <3> HIDE DEF read
    <3> QED BY <2>2, <2>3, <2>7, <2>10 DEF SectionStates
  <2>12. SectionTaken(im, s, section, after)
    BY <1>6, <2>2, <2>4, <2>6, <2>8, <2>9 DEF SectionTaken, address
  <2> QED BY <2>11, <2>12 DEF after
<1> QED BY <1>4, <1>5, <1>6

\* The loop runs: it starts with nothing and takes one section after another.
SectionLoop(im, sections, read) ==
  /\ read[0] = SectionsStart
  /\ \A i \in 1 .. Len(sections) : read[i] = TakeSection(im, read[i - 1], sections[i])

LEMMA SectionsRead ==
  ASSUME NEW im \in MachImages, NEW sections \in Seq(Sections)
  PROVE  \E read \in [0 .. Len(sections) -> SectionStates(im)] :
           SectionLoop(im, sections, read) /\ ReadSections(im, sections) = read[Len(sections)]
<1> DEFINE N == Len(sections)
           S == SectionStates(im)
           move == [x \in Nat \X S |->
                      IF x[1] \in 1 .. N THEN TakeSection(im, x[2], sections[x[1]]) ELSE x[2]]
           Def(f) == [i \in 0 .. N |-> IF i = 0 THEN SectionsStart
                                       ELSE TakeSection(im, f[i - 1], sections[i])]
           F == CHOOSE f : f = Def(f)
<1>0. N \in Nat /\ \A i \in 1 .. N : sections[i] \in Sections
  OBVIOUS
<1>1. ReadSections(im, sections) = F[N]
  BY DEF ReadSections, SectionsStart
<1> HIDE DEF N, S
<1>2. SectionsStart \in S
  BY ImportAssumption DEF S, SectionStates, SectionsStart
<1>3. ASSUME NEW i \in 1 .. N, NEW s \in S PROVE TakeSection(im, s, sections[i]) \in S
  BY <1>0, SectionStep DEF S
<1>4. move \in [Nat \X S -> S]
  <2>1. ASSUME NEW x \in Nat \X S PROVE move[x] \in S
    <3>1. x[2] \in S
      OBVIOUS
    <3> QED BY <1>3, <3>1
  <2> QED BY <2>1
<1>5. PICK Q \in [0 .. N -> S] : Recurs(Q, SectionsStart, move, N)
  <2> HIDE DEF move
  <2> QED BY <1>0, <1>2, <1>4, BoundedRecursion
<1>6. ASSUME NEW i \in 1 .. N
      PROVE  i - 1 \in 0 .. N /\ Q[i - 1] \in S /\ Q[i] = TakeSection(im, Q[i - 1], sections[i])
  <2>1. i - 1 \in 0 .. N /\ i \in Nat
    BY <1>0
  <2>2. Q[i - 1] \in S
    BY <2>1
  <2>3. Q[i] = move[<<i, Q[i - 1]>>]
    BY <1>5 DEF Recurs
  <2>4. <<i, Q[i - 1]>> \in Nat \X S
    BY <2>1, <2>2
  <2> QED BY <2>1, <2>2, <2>3, <2>4
<1>7. Q[0] = SectionsStart
  BY <1>5 DEF Recurs
<1>8. Q = Def(Q)
  <2>1. ASSUME NEW i \in 0 .. N
        PROVE  Q[i] = IF i = 0 THEN SectionsStart ELSE TakeSection(im, Q[i - 1], sections[i])
    <3>1. CASE i = 0
      BY <1>7, <3>1
    <3>2. CASE i # 0
      <4>1. i \in 1 .. N
        BY <1>0, <3>2
      <4> QED BY <1>6, <3>2, <4>1
    <3> QED BY <3>1, <3>2
  <2> QED BY <2>1
<1>9. F = Def(F)
  <2> HIDE DEF Def
  <2> QED BY <1>8
<1> HIDE DEF F
<1>10. /\ F = [i \in 0 .. N |-> F[i]] /\ F[0] = SectionsStart
       /\ \A i \in 1 .. N : F[i] = TakeSection(im, F[i - 1], sections[i])
  <2>1. F[0] = SectionsStart
    BY <1>0, <1>9
  <2>2. ASSUME NEW i \in 1 .. N PROVE F[i] = TakeSection(im, F[i - 1], sections[i])
    <3>1. i \in 0 .. N /\ i # 0
      BY <1>0
    <3> QED BY <1>9, <3>1
  <2>3. F = [i \in 0 .. N |-> F[i]]
    BY <1>9
  <2> QED BY <2>1, <2>2, <2>3
<1> DEFINE T == {i \in 0 .. N : F[i] \in S}
<1>11. 0 \in T
  BY <1>0, <1>2, <1>10
<1>12. ASSUME NEW i \in 0 .. N - 1, i \in T PROVE i + 1 \in T
  <2>1. i + 1 \in 1 .. N /\ (i + 1) - 1 = i /\ F[i] \in S
    BY <1>0, <1>12
  <2>2. F[i + 1] = TakeSection(im, F[i], sections[i + 1])
    BY <1>10, <2>1
  <2> QED BY <1>3, <2>1, <2>2
<1> HIDE DEF T
<1>13. \A i \in 0 .. N : i \in T
  BY <1>0, <1>11, <1>12, BoundedInduction
<1>14. F \in [0 .. N -> S]
  BY <1>10, <1>13 DEF T
<1> QED BY <1>1, <1>10, <1>14 DEF SectionLoop, N, S

\* The units that the first sections name.
UnitsUpto(im, sections, i) ==
  UNION {Units(sections[j].address + im.slide, sections[j].count) : j \in 1 .. i}

\* A loop that is open has listed exactly the sections that it passed, and one
\* that is full more than a snapshot keeps (sys/dispatch.rs of Apple:92-122).
SectionsInv(im, sections, i, s) ==
  /\ s.touched \subseteq Mapped(im.regions)
  /\ s.state = "open" => Len(s.list) <= LIMIT /\ SlotsOf(s.list) = UnitsUpto(im, sections, i)
  /\ s.state = "full" => Len(s.list) > LIMIT

LEMMA SectionsKept ==
  ASSUME NEW im \in MachImages, NEW sections \in Seq(Sections),
         NEW read \in [0 .. Len(sections) -> SectionStates(im)],
         SectionLoop(im, sections, read)
  PROVE  SectionsInv(im, sections, Len(sections), read[Len(sections)])
<1> DEFINE N == Len(sections)
           T == {i \in 0 .. N : SectionsInv(im, sections, i, read[i])}
<1>0. N \in Nat /\ \A i \in 1 .. N : sections[i] \in Sections
  OBVIOUS
<1>1. /\ read[0] = SectionsStart
      /\ \A i \in 1 .. N : read[i] = TakeSection(im, read[i - 1], sections[i])
  BY DEF SectionLoop
<1>2. \A i \in 0 .. N : read[i] \in SectionStates(im)
  OBVIOUS
<1> HIDE DEF N
<1>3. 0 \in T
  <2>1. SlotsOf(<<>>) = {} /\ Len(<<>>) = 0
    BY DEF SlotsOf
  <2>2. UnitsUpto(im, sections, 0) = {}
    BY DEF UnitsUpto
  <2>3. SectionsInv(im, sections, 0, SectionsStart)
    BY <2>1, <2>2, ImportAssumption DEF SectionsInv, SectionsStart
  <2> QED BY <1>0, <1>1, <2>3
<1>4. ASSUME NEW i \in 0 .. N - 1, i \in T PROVE i + 1 \in T
  <2>1. i + 1 \in 1 .. N /\ (i + 1) - 1 = i /\ i \in 0 .. N
    BY <1>0
  <2> DEFINE s == read[i]
             n == read[i + 1]
             section == sections[i + 1]
  <2>2. /\ s \in SectionStates(im) /\ section \in Sections
        /\ n = TakeSection(im, s, section) /\ SectionsInv(im, sections, i, s)
    BY <1>0, <1>1, <1>2, <1>4, <2>1
  <2>3. SectionTaken(im, s, section, n)
    BY <2>2, SectionStep
  <2>4. UnitsUpto(im, sections, i + 1)
          = UnitsUpto(im, sections, i) \cup Units(section.address + im.slide, section.count)
    <3>1. 1 .. i + 1 = (1 .. i) \cup {i + 1}
      BY <2>1
    <3> QED BY <3>1 DEF UnitsUpto
  <2> HIDE DEF s, n, section
  <2>5. SectionsInv(im, sections, i + 1, n)
    BY <2>2, <2>3, <2>4 DEF SectionTaken, SectionsInv
  <2> QED BY <2>1, <2>5 DEF n
<1> HIDE DEF T
<1>5. \A i \in 0 .. N : i \in T
  BY <1>0, <1>3, <1>4, BoundedInduction
<1>6. N \in T
  BY <1>0, <1>5
<1> QED BY <1>6 DEF T, N

\* What AppleTargets() answers.
LEMMA AppleRead ==
  ASSUME NEW im \in MachImages
  PROVE  ReadRight(AppleTargets(im), TrueSlots("apple", im), im.regions)
<1> DEFINE sections == PointerSections(im)
           s == ReadSections(im, sections)
           answer == AppleTargets(im)
<1>1. CASE dispatch_layout(im) = {}
  BY <1>1, NothingRight DEF AppleTargets
<1>2. CASE dispatch_layout(im) # {}
  <2> DEFINE bound == \E l \in dispatch_layout(im) : l.bound
  <2>1. sections \in Seq(Sections)
    BY SectionsTyped
  <2>2. TrueSlots("apple", im) = UnitsUpto(im, sections, Len(sections))
    <3>1. DOMAIN sections = 1 .. Len(sections)
      BY <2>1
    <3> HIDE DEF sections
    <3>2. UNION {Units(q.address + im.slide, q.count) : q \in ToSet(sections)}
            = UnitsUpto(im, sections, Len(sections))
      BY <3>1 DEF ToSet, UnitsUpto
    <3> QED BY <3>2 DEF TrueSlots, sections
  <2>3. /\ answer.snapshot = IF s.state = "none" \/ s.list = <<>> THEN NoTable
                             ELSE TakeTargets(s.list, bound)
        /\ answer.touched = s.touched
    BY <1>2 DEF AppleTargets
  <2> HIDE DEF sections
  <2>4. PICK read \in [0 .. Len(sections) -> SectionStates(im)] :
          SectionLoop(im, sections, read) /\ s = read[Len(sections)]
    BY <2>1, SectionsRead
  <2>5. s \in SectionStates(im) /\ SectionsInv(im, sections, Len(sections), s)
    <3>1. Len(sections) \in 0 .. Len(sections)
      BY <2>1
    <3> QED BY <2>1, <2>4, <3>1, SectionsKept
  <2> HIDE DEF s, bound, answer
  <2>6. /\ s.list \in Seq(Points(im)) /\ s.state \in {"open", "full", "none"}
        /\ Len(s.list) \in Nat
    BY <2>5 DEF SectionStates
  <2>7. ASSUME answer.snapshot.kind = "Fact", ~answer.snapshot.truncated
        PROVE  SlotsOf(answer.snapshot.targets) = TrueSlots("apple", im)
    <3>1. s.state # "none" /\ answer.snapshot = TakeTargets(s.list, bound)
      BY <2>3, <2>7 DEF NoTable
    <3>2. Len(s.list) <= LIMIT
      BY <2>6, <2>7, <3>1, TakenWhole, ImportAssumption
    <3>3. answer.snapshot.targets = s.list
      BY <2>6, <3>1, <3>2, TakenWhole
    <3>4. s.state = "open"
      BY <2>5, <2>6, <3>1, <3>2, ImportAssumption DEF SectionsInv
    <3> QED BY <2>2, <2>5, <3>3, <3>4 DEF SectionsInv
  <2> QED BY <2>3, <2>5, <2>7 DEF ReadRight, SectionsInv, answer
<1> QED BY <1>1, <1>2

-----------------------------------------------------------------------------
(* PE. Entries are what the list may hold, and the loop is between two     *)
(* descriptors in a state of ImportStates.                                 *)

Cells(image, base) == {[slot |-> base + a, value |-> image[a]] : a \in Int}

ImportStates(image, base) ==
  {s \in [list : Seq(Cells(image, base)), state : {"open", "end", "full", "none"}] :
     Len(s.list) <= LIMIT}

ImportsStart == [list |-> <<>>, state |-> "open"]

\* The first entries of a table, their slots, and the slots of a descriptor.
EntryList(image, base, table, count) ==
  [i \in 1 .. count |-> [slot |-> base + (table + i - 1), value |-> image[table + i - 1]]]

EntrySlots(base, table, count) == {base + table + i - 1 : i \in 1 .. count}

EntriesOf(image, base, d) == EntrySlots(base, d.table, RunLength(image, CountTable(d)))

\* What one descriptor does to the list and the state: a loop that goes on took
\* all of it, one that ends met the end mark, and one that is full has as many as
\* a snapshot keeps.
DescriptorTaken(image, base, prior, d, after) ==
  /\ after.state = "full" => Len(after.list) = LIMIT \/ after = prior
  /\ after.state = "end" => \/ after = prior
                            \/ /\ prior.state = "open" /\ EndMark(d)
                               /\ after.list = prior.list
  /\ after.state = "open" =>
       /\ prior.state = "open" /\ ~EndMark(d)
       /\ SlotsOf(after.list) = SlotsOf(prior.list) \cup EntriesOf(image, base, d)

LEMMA RunTyped ==
  ASSUME NEW image, Len(image) \in Nat, NEW at \in Nat
  PROVE  RunLength(image, at) \in Nat
<1> DEFINE runs == {n \in 0 .. Len(image) : \A i \in 0 .. n - 1 :
                      at + i \in DOMAIN image /\ image[at + i] # 0}
<1>1. runs \in SUBSET (0 .. Len(image)) /\ 0 \in runs
  OBVIOUS
<1> HIDE DEF runs
<1>2. Max(runs) \in 0 .. Len(image)
  BY <1>1, MaxOfSet
<1> QED BY <1>2 DEF RunLength, runs

\* Some entries of a table, one cell after another.
LEMMA EntriesListed ==
  ASSUME NEW image, NEW base \in Nat, NEW table \in Nat, NEW count \in Nat
  PROVE  LET more == EntryList(image, base, table, count)
         IN  /\ more \in Seq(Cells(image, base)) /\ Len(more) = count
             /\ SlotsOf(more) = EntrySlots(base, table, count)
<1> DEFINE more == EntryList(image, base, table, count)
<1>1. ASSUME NEW i \in 1 .. count
      PROVE  more[i] \in Cells(image, base) /\ more[i].slot = base + table + i - 1
  <2> DEFINE a == table + i - 1
  <2>1. a \in Int /\ base + a = base + table + i - 1
    OBVIOUS
  <2>2. more[i] = [slot |-> base + a, value |-> image[a]]
    BY DEF EntryList
  <2> HIDE DEF more, a
  <2> QED BY <2>1, <2>2 DEF Cells
<1>2. more = [i \in 1 .. count |-> more[i]]
  BY DEF EntryList
<1> HIDE DEF more
<1>3. more \in Seq(Cells(image, base)) /\ Len(more) = count /\ DOMAIN more = 1 .. count
  BY <1>1, <1>2
<1>4. SlotsOf(more) = EntrySlots(base, table, count)
  BY <1>1, <1>3 DEF SlotsOf, EntrySlots
<1> QED BY <1>3, <1>4 DEF more

LEMMA DescriptorStep ==
  ASSUME NEW image, Len(image) \in Nat, NEW base \in Nat,
         NEW s \in ImportStates(image, base), NEW d \in Descriptors
  PROVE  /\ TakeDescriptor(image, base, s, d) \in ImportStates(image, base)
         /\ DescriptorTaken(image, base, s, d, TakeDescriptor(image, base, s, d))
<1> DEFINE count == RunLength(image, CountTable(d))
           room == LIMIT - Len(s.list)
           take == Min({count, room})
           slots == [i \in 1 .. take |-> d.table + i - 1]
           more == EntryList(image, base, d.table, take)
           after == TakeDescriptor(image, base, s, d)
           broken == \/ d.table = 0
                     \/ \E i \in DOMAIN slots : slots[i] \notin DOMAIN image
                     \/ count < room /\ CountTable(d) + count \notin DOMAIN image
<1>0. LIMIT \in Nat
  BY ImportAssumption
<1>1. /\ s.list \in Seq(Cells(image, base)) /\ Len(s.list) \in Nat /\ Len(s.list) <= LIMIT
      /\ s.state \in {"open", "end", "full", "none"}
      /\ s = [list |-> s.list, state |-> s.state]
  BY DEF ImportStates
<1>2. d.table \in Nat /\ count \in Nat
  <2>1. d.table \in Nat /\ CountTable(d) \in Nat
    BY DEF Descriptors, CountTable
  <2> QED BY <2>1, RunTyped
<1>3. room \in Nat
  BY <1>0, <1>1
<1> HIDE DEF count
<1>4. take \in Nat /\ take <= count /\ take <= room /\ (take = count \/ take = room)
  <2> HIDE DEF room
  <2> QED BY <1>2, <1>3, MinOfTwo
<1> HIDE DEF take
<1>5. CASE s.state # "open"
  <2>1. after = s
    BY <1>5 DEF TakeDescriptor
  <2> QED BY <1>5, <2>1 DEF DescriptorTaken
<1>6. CASE s.state = "open" /\ EndMark(d)
  <2>1. after = [s EXCEPT !.state = "end"]
    BY <1>6 DEF TakeDescriptor, EndMark
  <2>2. after = [list |-> s.list, state |-> "end"]
    BY <1>1, <2>1
  <2> HIDE DEF after
  <2>3. after \in ImportStates(image, base)
    BY <1>1, <2>2 DEF ImportStates
  <2> QED BY <1>6, <2>2, <2>3 DEF DescriptorTaken, after
<1>7. CASE s.state = "open" /\ ~EndMark(d) /\ broken
  <2>1. after = [s EXCEPT !.state = "none"]
    BY <1>7 DEF TakeDescriptor, EndMark, take, count
  <2>2. after = [list |-> s.list, state |-> "none"]
    BY <1>1, <2>1
  <2> HIDE DEF after
  <2>3. after \in ImportStates(image, base)
    BY <1>1, <2>2 DEF ImportStates
  <2> QED BY <2>2, <2>3 DEF DescriptorTaken, after
<1>8. CASE s.state = "open" /\ ~EndMark(d) /\ ~broken
  <2> DEFINE list == s.list \o more
             state == IF count >= room THEN "full" ELSE "open"
  <2>0. more = [i \in DOMAIN slots |->
                  [slot |-> base + slots[i], value |-> image[slots[i]]]]
    BY DEF EntryList
  <2>1. after = [list |-> list, state |-> state]
    BY <1>8, <2>0 DEF TakeDescriptor, EndMark, take, count
  <2>2. /\ more \in Seq(Cells(image, base)) /\ Len(more) = take
        /\ SlotsOf(more) = EntrySlots(base, d.table, take)
    <3> DEFINE table == d.table
    <3>1. table \in Nat /\ take \in Nat
      BY <1>2, <1>4
    <3> HIDE DEF table
    <3> HIDE DEF take
    <3>2. LET m == EntryList(image, base, table, take)
          IN  /\ m \in Seq(Cells(image, base)) /\ Len(m) = take
              /\ SlotsOf(m) = EntrySlots(base, table, take)
      BY <3>1, EntriesListed, ZenonT(60)
    <3> QED BY <3>2 DEF table, take
  <2> HIDE DEF more, after
  <2>3. list \in Seq(Cells(image, base)) /\ Len(list) = Len(s.list) + take
    BY <1>1, <2>2
  <2>4. SlotsOf(list) = SlotsOf(s.list) \cup SlotsOf(more)
    BY <1>1, <2>2, SlotsJoined
  <2>5. Len(list) <= LIMIT
    BY <1>0, <1>1, <1>4, <2>3
  <2>6. state = "full" => Len(list) = LIMIT
    <3>1. count >= room => take = room
      BY <1>2, <1>3, <1>4
    <3> QED BY <1>0, <1>1, <1>4, <2>3, <3>1
  <2>7. state = "open" => take = count
    <3>1. count < room => take = count
      BY <1>2, <1>3, <1>4
    <3> QED BY <1>2, <1>3, <3>1
  <2>8. state \in {"open", "full"}
    OBVIOUS
  <2>9. state = "open" => SlotsOf(list) = SlotsOf(s.list) \cup EntriesOf(image, base, d)
    BY <2>2, <2>4, <2>7 DEF EntriesOf, count
  <2> HIDE DEF list, state
  <2>10. after \in ImportStates(image, base)
    BY <2>1, <2>3, <2>5, <2>8 DEF ImportStates
  <2>11. DescriptorTaken(image, base, s, d, after)
    BY <1>8, <2>1, <2>6, <2>8, <2>9 DEF DescriptorTaken
  <2> QED BY <2>10, <2>11 DEF after
<1> QED BY <1>5, <1>6, <1>7, <1>8

\* The loop runs: it starts with nothing and takes one descriptor after another.
DescriptorLoop(image, base, directory, read) ==
  /\ read[0] = ImportsStart
  /\ \A i \in 1 .. Len(directory) :
       read[i] = TakeDescriptor(image, base, read[i - 1], directory[i])

LEMMA DescriptorsRead ==
  ASSUME NEW image, Len(image) \in Nat, NEW base \in Nat, NEW directory \in Seq(Descriptors)
  PROVE  \E read \in [0 .. Len(directory) -> ImportStates(image, base)] :
           /\ DescriptorLoop(image, base, directory, read)
           /\ mapped_import_slots(image, base, directory) = read[Len(directory)]
<1> DEFINE N == Len(directory)
           S == ImportStates(image, base)
           Take(s, i) == TakeDescriptor(image, base, s, directory[i])
           move == [x \in Nat \X S |-> IF x[1] \in 1 .. N THEN Take(x[2], x[1]) ELSE x[2]]
           Def(f) == [i \in 0 .. N |-> IF i = 0 THEN ImportsStart ELSE Take(f[i - 1], i)]
           F == CHOOSE f : f = Def(f)
<1>0. N \in Nat /\ \A i \in 1 .. N : directory[i] \in Descriptors
  OBVIOUS
<1>1. mapped_import_slots(image, base, directory) = F[N]
  BY DEF mapped_import_slots, ImportsStart
<1> HIDE DEF N, S
<1>2. ImportsStart \in S
  BY ImportAssumption DEF S, ImportStates, ImportsStart
<1>3. ASSUME NEW i \in 1 .. N, NEW s \in S PROVE Take(s, i) \in S
  BY <1>0, DescriptorStep DEF S
<1> HIDE DEF Take
<1>4. move \in [Nat \X S -> S]
  <2>1. ASSUME NEW x \in Nat \X S PROVE move[x] \in S
    <3>1. x[2] \in S
      OBVIOUS
    <3> QED BY <1>3, <3>1
  <2> QED BY <2>1
<1>5. PICK Q \in [0 .. N -> S] : Recurs(Q, ImportsStart, move, N)
  <2> HIDE DEF move
  <2> QED BY <1>0, <1>2, <1>4, BoundedRecursion
<1>6. ASSUME NEW i \in 1 .. N PROVE Q[i] = Take(Q[i - 1], i)
  <2>1. i - 1 \in 0 .. N /\ i \in Nat
    BY <1>0
  <2>2. Q[i - 1] \in S
    BY <2>1
  <2>3. Q[i] = move[<<i, Q[i - 1]>>]
    BY <1>5 DEF Recurs
  <2>4. <<i, Q[i - 1]>> \in Nat \X S
    BY <2>1, <2>2
  <2> QED BY <2>1, <2>2, <2>3, <2>4
<1>7. Q[0] = ImportsStart
  BY <1>5 DEF Recurs
<1>8. Q = Def(Q)
  <2>1. ASSUME NEW i \in 0 .. N
        PROVE  Q[i] = IF i = 0 THEN ImportsStart ELSE Take(Q[i - 1], i)
    <3>1. CASE i = 0
      BY <1>7, <3>1
    <3>2. CASE i # 0
      <4>1. i \in 1 .. N
        BY <1>0, <3>2
      <4> QED BY <1>6, <3>2, <4>1
    <3> QED BY <3>1, <3>2
  <2> QED BY <2>1
<1>9. F = Def(F)
  <2> HIDE DEF Def
  <2> QED BY <1>8
<1> HIDE DEF F
<1>10. /\ F = [i \in 0 .. N |-> F[i]] /\ F[0] = ImportsStart
       /\ \A i \in 1 .. N : F[i] = Take(F[i - 1], i)
  <2>1. F[0] = ImportsStart
    BY <1>0, <1>9
  <2>2. ASSUME NEW i \in 1 .. N PROVE F[i] = Take(F[i - 1], i)
    <3>1. i \in 0 .. N /\ i # 0
      BY <1>0
    <3> QED BY <1>9, <3>1
  <2>3. F = [i \in 0 .. N |-> F[i]]
    BY <1>9
  <2> QED BY <2>1, <2>2, <2>3
<1> DEFINE T == {i \in 0 .. N : F[i] \in S}
<1>11. 0 \in T
  BY <1>0, <1>2, <1>10
<1>12. ASSUME NEW i \in 0 .. N - 1, i \in T PROVE i + 1 \in T
  <2>1. i + 1 \in 1 .. N /\ (i + 1) - 1 = i /\ F[i] \in S
    BY <1>0, <1>12
  <2>2. F[i + 1] = Take(F[i], i + 1)
    BY <1>10, <2>1
  <2> QED BY <1>3, <2>1, <2>2
<1> HIDE DEF T
<1>13. \A i \in 0 .. N : i \in T
  BY <1>0, <1>11, <1>12, BoundedInduction
<1>14. F \in [0 .. N -> S]
  BY <1>10, <1>13 DEF T
<1> QED BY <1>1, <1>10, <1>14 DEF DescriptorLoop, N, S, Take

\* The slots of the first descriptors.
SlotsUpto(image, base, directory, i) ==
  UNION {EntriesOf(image, base, directory[j]) : j \in 1 .. i}

Unended(directory, i) == \A j \in 1 .. i : ~EndMark(directory[j])

\* A loop that is open has listed exactly the descriptors that it passed, one that
\* ended those in front of the first end mark, and one that is full as many
\* targets as a snapshot keeps (pe/mod.rs:66-104).
ImportsInv(image, base, directory, i, s) ==
  /\ s.state = "full" => Len(s.list) = LIMIT
  /\ s.state = "open" => /\ Unended(directory, i)
                         /\ SlotsOf(s.list) = SlotsUpto(image, base, directory, i)
  /\ s.state = "end" =>
       \E k \in 1 .. i : /\ EndMark(directory[k]) /\ Unended(directory, k - 1)
                         /\ SlotsOf(s.list) = SlotsUpto(image, base, directory, k - 1)

LEMMA DescriptorsKept ==
  ASSUME NEW image, Len(image) \in Nat, NEW base \in Nat, NEW directory \in Seq(Descriptors),
         NEW read \in [0 .. Len(directory) -> ImportStates(image, base)],
         DescriptorLoop(image, base, directory, read)
  PROVE  ImportsInv(image, base, directory, Len(directory), read[Len(directory)])
<1> DEFINE N == Len(directory)
           T == {i \in 0 .. N : ImportsInv(image, base, directory, i, read[i])}
<1>0. N \in Nat /\ \A i \in 1 .. N : directory[i] \in Descriptors
  OBVIOUS
<1>1. /\ read[0] = ImportsStart
      /\ \A i \in 1 .. N : read[i] = TakeDescriptor(image, base, read[i - 1], directory[i])
  BY DEF DescriptorLoop
<1>2. \A i \in 0 .. N : read[i] \in ImportStates(image, base)
  OBVIOUS
<1> HIDE DEF N
<1>3. 0 \in T
  <2>1. SlotsOf(<<>>) = {} /\ Len(<<>>) = 0
    BY DEF SlotsOf
  <2>2. SlotsUpto(image, base, directory, 0) = {} /\ Unended(directory, 0)
    BY DEF SlotsUpto, Unended
  <2>3. ImportsInv(image, base, directory, 0, ImportsStart)
    BY <2>1, <2>2 DEF ImportsInv, ImportsStart
  <2> QED BY <1>0, <1>1, <2>3
<1>4. ASSUME NEW i \in 0 .. N - 1, i \in T PROVE i + 1 \in T
  <2>1. i + 1 \in 1 .. N /\ (i + 1) - 1 = i /\ i \in 0 .. N
    BY <1>0
  <2> DEFINE s == read[i]
             n == read[i + 1]
             d == directory[i + 1]
  <2>2. /\ s \in ImportStates(image, base) /\ d \in Descriptors
        /\ n = TakeDescriptor(image, base, s, d) /\ ImportsInv(image, base, directory, i, s)
    BY <1>0, <1>1, <1>2, <1>4, <2>1
  <2>3. DescriptorTaken(image, base, s, d, n)
    BY <2>2, DescriptorStep
  <2>4. 1 .. i + 1 = (1 .. i) \cup {i + 1}
    BY <2>1
  <2>5. SlotsUpto(image, base, directory, i + 1)
          = SlotsUpto(image, base, directory, i) \cup EntriesOf(image, base, d)
    BY <2>4 DEF SlotsUpto
  <2>6. Unended(directory, i) /\ ~EndMark(d) => Unended(directory, i + 1)
    BY <2>4 DEF Unended
  <2> HIDE DEF s, n
  <2>7. n.state = "full" => Len(n.list) = LIMIT
    BY <2>2, <2>3 DEF DescriptorTaken, ImportsInv
  <2>8. n.state = "open" =>
          Unended(directory, i + 1) /\ SlotsOf(n.list) = SlotsUpto(image, base, directory, i + 1)
    BY <2>2, <2>3, <2>5, <2>6 DEF DescriptorTaken, ImportsInv
  <2>9. ASSUME n.state = "end"
        PROVE  \E k \in 1 .. i + 1 :
                 /\ EndMark(directory[k]) /\ Unended(directory, k - 1)
                 /\ SlotsOf(n.list) = SlotsUpto(image, base, directory, k - 1)
    <3>1. CASE n = s
      BY <2>2, <2>4, <2>9, <3>1 DEF ImportsInv
    <3>2. CASE s.state = "open" /\ EndMark(d) /\ n.list = s.list
      <4>1. Unended(directory, i) /\ SlotsOf(n.list) = SlotsUpto(image, base, directory, i)
        BY <2>2, <3>2 DEF ImportsInv
      <4>2. i + 1 \in 1 .. i + 1
        BY <2>1
      <4> QED BY <2>1, <3>2, <4>1, <4>2
    <3> QED BY <2>3, <2>9, <3>1, <3>2 DEF DescriptorTaken
  <2>10. ImportsInv(image, base, directory, i + 1, n)
    BY <2>7, <2>8, <2>9 DEF ImportsInv
  <2> QED BY <2>1, <2>10 DEF n
<1> HIDE DEF T
<1>5. \A i \in 0 .. N : i \in T
  BY <1>0, <1>3, <1>4, BoundedInduction
<1>6. N \in T
  BY <1>0, <1>5
<1> QED BY <1>6 DEF T, N

\* What WindowsTargets() answers, when it has fewer than a snapshot keeps.
LEMMA WindowsRead ==
  ASSUME NEW im \in PeImages, Sound(im),
         WindowsTargets(im).snapshot.kind = "Fact",
         Len(WindowsTargets(im).snapshot.targets) < LIMIT
  PROVE  SlotsOf(WindowsTargets(im).snapshot.targets) = TrueSlots("windows", im)
<1> DEFINE image == Copied(im)
           base == im.base
           directory == im.directory
           s == mapped_import_slots(image, base, directory)
           answer == WindowsTargets(im).snapshot
<1>1. base \in Nat /\ im.cells \in Seq(Nat) /\ directory \in Seq(Descriptors)
  BY PeAssumption
<1>2. image = im.cells
  BY <1>1 DEF Copied, Sound
<1>3. Len(image) \in Nat
  BY <1>1, <1>2
<1>4. /\ answer = TakeTargets(s.list, TRUE)
      /\ s.state = "full" \/ s.state = "end"
  BY DEF WindowsTargets, NoTable
<1>5. answer.kind = "Fact" /\ Len(answer.targets) < LIMIT
  OBVIOUS
<1>6. TrueSlots("windows", im)
        = UNION {PeEntries(im, directory[i]) : i \in InFront(directory)}
  BY DEF TrueSlots
<1>7. \A d : PeEntries(im, d) = EntriesOf(im.cells, base, d)
  BY DEF PeEntries, EntriesOf, EntrySlots, CountTable
<1> HIDE DEF image, base, directory, s, answer
<1>8. PICK read \in [0 .. Len(directory) -> ImportStates(image, base)] :
        /\ DescriptorLoop(image, base, directory, read)
        /\ s = read[Len(directory)]
  BY <1>1, <1>3, DescriptorsRead DEF s
<1>9. s \in ImportStates(image, base) /\ ImportsInv(image, base, directory, Len(directory), s)
  <2>1. Len(directory) \in 0 .. Len(directory)
    BY <1>1
  <2> QED BY <1>1, <1>3, <1>8, <2>1, DescriptorsKept
<1>10. s.list \in Seq(Cells(image, base)) /\ Len(s.list) \in Nat /\ Len(s.list) <= LIMIT
  BY <1>9 DEF ImportStates
<1>11. answer.targets = s.list
  BY <1>4, <1>10, TakenWhole
<1>12. s.state = "end"
  <2>1. Len(s.list) < LIMIT
    BY <1>5, <1>11
  <2>2. s.state = "full" => Len(s.list) = LIMIT
    BY <1>9 DEF ImportsInv
  <2>3. LIMIT \in Nat
    BY ImportAssumption
  <2> QED BY <1>4, <1>10, <2>1, <2>2, <2>3
<1>13. PICK k \in 1 .. Len(directory) :
         /\ EndMark(directory[k]) /\ Unended(directory, k - 1)
         /\ SlotsOf(s.list) = SlotsUpto(image, base, directory, k - 1)
  BY <1>9, <1>12 DEF ImportsInv
<1>14. InFront(directory) = 1 .. k - 1
  <2>1. DOMAIN directory = 1 .. Len(directory) /\ Len(directory) \in Nat
    BY <1>1
  <2>2. ASSUME NEW i \in InFront(directory) PROVE i \in 1 .. k - 1
    <3>1. i \in 1 .. Len(directory) /\ ~(k \in 1 .. i)
      BY <1>13, <2>1 DEF InFront
    <3> QED BY <2>1, <3>1
  <2>3. ASSUME NEW i \in 1 .. k - 1 PROVE i \in InFront(directory)
    <3>1. i \in 1 .. Len(directory) /\ \A j \in 1 .. i : j \in 1 .. k - 1
      BY <2>1
    <3> QED BY <1>13, <2>1, <3>1 DEF InFront, Unended
  <2> QED BY <2>2, <2>3
<1>15. SlotsUpto(image, base, directory, k - 1)
         = UNION {PeEntries(im, directory[i]) : i \in 1 .. k - 1}
  BY <1>2, <1>7 DEF SlotsUpto
<1>16. SlotsOf(answer.targets) = TrueSlots("windows", im)
  BY <1>6, <1>11, <1>13, <1>14, <1>15
<1> QED BY <1>16 DEF answer

-----------------------------------------------------------------------------
\* What the readers of ELF and Mach-O answer.
LEMMA ElfAnswers ==
  ASSUME NEW im \in ElfImages
  PROVE  /\ ReadRight(LinuxTargets(im), TrueSlots("linux", im), LoadRanges(im))
         /\ ReadRight(AndroidTargets(im), TrueSlots("android", im), LoadRanges(im))
<1> DEFINE arrays == DynamicArray(im)
           a == CHOOSE a \in arrays : TRUE
<1>1. CASE arrays = {}
  BY <1>1, NothingRight DEF LinuxTargets, AndroidTargets
<1>2. CASE arrays # {}
  <2>1. /\ a \in arrays /\ arrays = {a}
        /\ a.jump_relocations \in Nat /\ a.jump_relocation_bytes \in Nat
    <3> HIDE DEF arrays
    <3>1. a \in arrays
      BY <1>2
    <3> QED BY <3>1, DynamicArrayType DEF arrays
  <2>2. /\ LinuxTargets(im) = ReadElf(im, a.jump_relocations, a)
        /\ AndroidTargets(im) = ReadElf(im, im.base + a.jump_relocations, a)
    BY <1>2 DEF LinuxTargets, AndroidTargets
  <2> HIDE DEF a
  <2>3. /\ TrueSlots("linux", im) = ElfSlots(im, a.jump_relocations, a)
        /\ TrueSlots("android", im) = ElfSlots(im, im.base + a.jump_relocations, a)
    BY <2>1 DEF TrueSlots
  <2>4. im.base + a.jump_relocations \in Nat
    BY <2>1, ElfAssumption
  <2> QED BY <2>1, <2>2, <2>3, <2>4, ElfRead
<1> QED BY <1>1, <1>2

\* A read starts with nothing.
LEMMA ImportsAtStart ==
  ASSUME reader.image = {}, snapshot = NoTable
  PROVE  ImportsReadRight
BY DEF ImportsReadRight, WholeMeansWhole, ImportsWithinLimit, ReadsStayMapped, Whole, NoTable

\* One read of ELF or Mach-O answers right.
LEMMA ReaderKeeps ==
  ASSUME NEW probe \in {"linux", "android", "apple"}, NEW im, NEW result,
         ReadRight(result, TrueSlots(probe, im),
                   IF probe = "apple" THEN im.regions ELSE LoadRanges(im)),
         Reads(probe, im, result)
  PROVE  ImportsReadRight'
<1>1. /\ reader' = [probe |-> probe, image |-> {im}]
      /\ snapshot' = result.snapshot /\ touched' = result.touched
  BY DEF Reads
<1>2. WholeMeansWhole'
  BY <1>1 DEF WholeMeansWhole, Whole, Listed, ReadRight, SlotsOf
<1>3. ImportsWithinLimit'
  BY <1>1 DEF ImportsWithinLimit
<1>4. ReadsStayMapped'
  BY <1>1 DEF ReadsStayMapped, ReadRight, Mapped
<1> QED BY <1>2, <1>3, <1>4 DEF ImportsReadRight

\* So does one of PE.
LEMMA WindowsKeeps ==
  ASSUME WindowsDispatch
  PROVE  ImportsReadRight'
<1>1. PICK im \in PeImages :
        /\ reader' = [probe |-> "windows", image |-> {im}]
        /\ snapshot' = WindowsTargets(im).snapshot
  BY DEF WindowsDispatch, Reads
<1>2. WholeMeansWhole' /\ ReadsStayMapped'
  BY <1>1 DEF WholeMeansWhole, ReadsStayMapped
<1>3. ImportsWithinLimit'
  BY <1>1, WindowsRead DEF ImportsWithinLimit, Listed, SlotsOf
<1> QED BY <1>2, <1>3 DEF ImportsReadRight

\* ImportsReadRight holds for any images and any limit: what a reader lists
\* without a mark of a cut is all that the image holds, and it touches nothing
\* that is not mapped (sys/dispatch.rs of the four probes, elf/mod.rs:120-142,
\* pe/mod.rs:43-104).
THEOREM ImportsRight == ImportSpec => []ImportsReadRight
<1>1. ImportInit => ImportsReadRight
  BY ImportsAtStart DEF ImportInit
<1>2. ASSUME ImportsReadRight, [ImportNext]_importVars PROVE ImportsReadRight'
  <2>1. CASE LinuxDispatch
    <3>1. PICK im \in ElfImages : Reads("linux", im, LinuxTargets(im))
      BY <2>1 DEF LinuxDispatch, LinuxImages
    <3> QED BY <3>1, ElfAnswers, ReaderKeeps
  <2>2. CASE AndroidDispatch
    <3>1. PICK im \in ElfImages : Reads("android", im, AndroidTargets(im))
      BY <2>2 DEF AndroidDispatch, AndroidImages
    <3> QED BY <3>1, ElfAnswers, ReaderKeeps
  <2>3. CASE AppleDispatch
    <3>1. PICK im \in MachImages : Reads("apple", im, AppleTargets(im))
      BY <2>3 DEF AppleDispatch
    <3> QED BY <3>1, AppleRead, ReaderKeeps
  <2>4. CASE WindowsDispatch
    BY <2>4, WindowsKeeps
  <2>5. CASE NextRead
    <3>1. reader'.image = {} /\ snapshot' = NoTable
      BY <2>5 DEF NextRead
    <3> QED BY <3>1 DEF ImportsReadRight, WholeMeansWhole, ImportsWithinLimit,
                        ReadsStayMapped, Whole, NoTable
  <2>6. CASE UNCHANGED importVars
    BY <1>2, <2>6 DEF importVars, ImportsReadRight, WholeMeansWhole, ImportsWithinLimit,
                      ReadsStayMapped, Whole, Listed
  <2> QED BY <1>2, <2>1, <2>2, <2>3, <2>4, <2>5, <2>6 DEF ImportNext
<1> QED BY <1>1, <1>2, PTL DEF ImportSpec
=============================================================================

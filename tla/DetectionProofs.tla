--------------------------- MODULE DetectionProofs ---------------------------
(***************************************************************************)
(* Proofs about what a scan reads: the loopback probe, the detector set,   *)
(* the procfs probes and the region walks. Each component has an inductive *)
(* invariant in its own module; the theorems hold for every stream of the  *)
(* peer, every answer of the platform, every image, every address space    *)
(* and every bound. The last one puts them together with the snapshots of  *)
(* SnapshotProofs.                                                         *)
(***************************************************************************)
EXTENDS MCDetection, SnapshotProofs

-----------------------------------------------------------------------------
(* The loopback probe.                                                     *)

\* What a read appends: the pieces that are next, behind the ones that are there
\* (local_agent.rs:85-107).
LEMMA ChunkAppended ==
  ASSUME NEW s \in Seq(Pieces), NEW r \in Seq(Pieces),
         NEW size \in Nat \ {0}, Len(r) + size <= Len(s),
         \A i \in 1 .. Len(r) : r[i] = s[i]
  PROVE  LET t == r \o SubSeq(s, Len(r) + 1, Len(r) + size)
         IN  /\ t \in Seq(Pieces)
             /\ Len(t) = Len(r) + size
             /\ \A i \in 1 .. Len(r) + size : t[i] = s[i]
<1> DEFINE n == Len(r)
           u == SubSeq(s, n + 1, n + size)
           t == r \o u
<1>1. n \in Nat /\ u \in Seq(Pieces) /\ Len(u) = size
  OBVIOUS
<1>2. ASSUME NEW k \in 1 .. size PROVE u[k] = s[n + k]
  OBVIOUS
<1>3. t \in Seq(Pieces) /\ Len(t) = n + size
  BY <1>1
<1>4. ASSUME NEW i \in 1 .. n + size PROVE t[i] = s[i]
  <2>1. CASE i <= n
    <3>1. t[i] = r[i] /\ i \in 1 .. n
      BY <2>1, <1>1
    <3> QED BY <3>1
  <2>2. CASE i > n
    <3>1. i - n \in 1 .. size /\ n + (i - n) = i
      BY <2>2, <1>1
    <3>2. t[i] = u[i - n]
      BY <2>2, <1>1
    <3> HIDE DEF u, n, t
    <3>3. u[i - n] = s[n + (i - n)]
      BY <3>1, <1>2
    <3> QED BY <3>1, <3>2, <3>3
  <2> QED BY <2>1, <2>2, <1>1
<1> QED BY <1>3, <1>4

\* One new exchange, an answer, and every read keep the inductive invariant.
LEMMA AgentInitHolds == AgentInit => AgentInv
BY AgentAssumption
   DEF AgentInit, AgentInv, AgentTypeOK, BufferIsPrefix, VerdictIsOfBuffer

\* A read appends at most the room that the buffer has left.
LEMMA AgentChunkKeeps == AgentInv /\ ReadChunk => AgentInv'
<1> SUFFICES ASSUME AgentInv, ReadChunk PROVE AgentInv'
  OBVIOUS
<1> USE AgentAssumption
<1>1. PICK size \in 1 .. MAX_RESPONSE_BYTES - Len(response) :
        /\ arrived + size <= Len(stream)
        /\ response' = response \o SubSeq(stream, arrived + 1, arrived + size)
        /\ arrived' = arrived + size
  BY DEF ReadChunk
<1>2. /\ agentPc = "read" /\ agentPc' = AfterRead(response')
      /\ stream' = stream /\ answer' = answer
  BY DEF ReadChunk
<1>3. /\ stream \in Seq(Pieces) /\ response \in Seq(Pieces)
      /\ arrived \in Nat /\ Len(response) = arrived /\ size \in Nat \ {0}
      /\ arrived + size <= MAX_RESPONSE_BYTES
      /\ \A i \in 1 .. arrived : response[i] = stream[i]
      /\ answer = "none"
  BY <1>1, <1>2 DEF AgentInv, AgentTypeOK, BufferIsPrefix, VerdictIsOfBuffer
<1>4. /\ response' \in Seq(Pieces)
      /\ Len(response') = arrived'
      /\ \A i \in 1 .. arrived' : response'[i] = stream[i]
  <2>1. /\ Len(response) + size <= Len(stream)
        /\ \A i \in 1 .. Len(response) : response[i] = stream[i]
        /\ response' = response \o SubSeq(stream, Len(response) + 1, Len(response) + size)
    BY <1>1, <1>3
  <2>2. /\ response' \in Seq(Pieces)
        /\ Len(response') = Len(response) + size
        /\ \A i \in 1 .. Len(response) + size : response'[i] = stream[i]
    <3> HIDE AgentAssumption
    <3> QED BY <1>3, <2>1, ChunkAppended
  <2> QED BY <1>1, <1>3, <2>2
<1>5. /\ agentPc' \in {"read", "match"}
      /\ agentPc' = "read" => "end" \notin Letters(response') /\ Len(response') < MAX_RESPONSE_BYTES
      /\ agentPc' = "match" => "end" \in Letters(response') \/ Len(response') >= MAX_RESPONSE_BYTES
  BY <1>2, <1>4 DEF AfterRead
<1>6. AgentTypeOK'
  BY <1>1, <1>2, <1>3, <1>4, <1>5 DEF AgentTypeOK
<1>7. BufferIsPrefix'
  BY <1>2, <1>4, <1>5 DEF BufferIsPrefix
<1>8. VerdictIsOfBuffer'
  BY <1>2, <1>3, <1>4, <1>5 DEF VerdictIsOfBuffer, ReadIsOver
<1> QED BY <1>6, <1>7, <1>8 DEF AgentInv

\* Every other step of an exchange leaves the buffer and its verdict in step.
LEMMA AgentStepKeeps == AgentInv /\ [AgentNext]_agentVars => AgentInv'
<1> SUFFICES ASSUME AgentInv, [AgentNext]_agentVars PROVE AgentInv'
  OBVIOUS
<1> USE AgentAssumption
<1>1. CASE Connect
  BY <1>1 DEF AgentInv, AgentTypeOK, BufferIsPrefix, VerdictIsOfBuffer, ReadIsOver,
              Connect
<1>2. CASE ConnectRefused
  BY <1>2 DEF AgentInv, AgentTypeOK, BufferIsPrefix, VerdictIsOfBuffer, ReadIsOver,
              ConnectRefused, PeerAnswer
<1>3. CASE ConnectFails
  BY <1>3 DEF AgentInv, AgentTypeOK, BufferIsPrefix, VerdictIsOfBuffer, ReadIsOver,
              ConnectFails, PeerAnswer
<1>4. CASE WriteRequest
  BY <1>4 DEF AgentInv, AgentTypeOK, BufferIsPrefix, VerdictIsOfBuffer, ReadIsOver,
              WriteRequest, Letters
<1>5. CASE WriteFails
  BY <1>5 DEF AgentInv, AgentTypeOK, BufferIsPrefix, VerdictIsOfBuffer, ReadIsOver,
              WriteFails, PeerAnswer
<1>6. CASE ReadChunk
  BY <1>6, AgentChunkKeeps
<1>7. CASE ReadClosed
  BY <1>7 DEF AgentInv, AgentTypeOK, BufferIsPrefix, VerdictIsOfBuffer, ReadIsOver,
              ReadClosed
<1>8. CASE ReadFails
  BY <1>8 DEF AgentInv, AgentTypeOK, BufferIsPrefix, VerdictIsOfBuffer, ReadIsOver,
              ReadFails, PeerAnswer
<1>9. CASE Match
  BY <1>9 DEF AgentInv, AgentTypeOK, BufferIsPrefix, VerdictIsOfBuffer, ReadIsOver,
              Match, PeerAnswer
<1>10. CASE Again
  BY <1>10 DEF AgentInv, AgentTypeOK, BufferIsPrefix, VerdictIsOfBuffer, ReadIsOver,
               Again
<1>11. CASE UNCHANGED agentVars
  BY <1>11 DEF AgentInv, AgentTypeOK, BufferIsPrefix, VerdictIsOfBuffer, ReadIsOver,
               agentVars
<1> QED
  BY <1>1, <1>2, <1>3, <1>4, <1>5, <1>6, <1>7, <1>8, <1>9, <1>10, <1>11 DEF AgentNext

\* A head that lies in the part that was read is a head of the stream, and the
\* other way round.
LEMMA HeadInPrefix ==
  ASSUME NEW s \in Seq(Pieces), NEW r \in Seq(Pieces), Len(r) <= Len(s),
         \A i \in 1 .. Len(r) : r[i] = s[i],
         NEW e \in 1 .. Len(r)
  PROVE  MatchingHead(r, e) <=> MatchingHead(s, e)
<1>1. e \in Nat /\ 1 <= e /\ e <= Len(r) /\ Len(r) \in Nat
  OBVIOUS
<1>2. r[e] = s[e] /\ r[1] = s[1] /\ \A i \in 1 .. e - 1 : r[i] = s[i]
  BY <1>1
<1>3. {r[i] : i \in 2 .. e - 1} = {s[i] : i \in 2 .. e - 1}
  BY <1>1, <1>2
<1>4. EndsHead(r, e) <=> EndsHead(s, e)
  BY <1>2 DEF EndsHead
<1> QED BY <1>2, <1>3, <1>4 DEF MatchingHead

\* A part of a text is a text, unless it ends between the halves of a character.
LEMMA CutIsInCharacter ==
  ASSUME NEW s \in Seq(Pieces), NEW r \in Seq(Pieces), Len(r) <= Len(s),
         \A i \in 1 .. Len(r) : r[i] = s[i],
         IsText(s), ~IsText(r)
  PROVE  Len(r) \in 1 .. Len(s) - 1 /\ s[Len(r)] = "lead"
<1> DEFINE n == Len(r)
<1>1. n \in Nat /\ Len(s) \in Nat /\ DOMAIN r = 1 .. n /\ DOMAIN s = 1 .. Len(s)
  OBVIOUS
<1>2. "binary" \notin Letters(r)
  BY <1>1 DEF IsText, Letters
<1>3. PICK i \in 1 .. n :
        ~(/\ r[i] = "lead" => i + 1 \in DOMAIN r /\ r[i + 1] = "trail"
          /\ r[i] = "trail" => i - 1 \in DOMAIN r /\ r[i - 1] = "lead")
  BY <1>1, <1>2 DEF IsText
<1>4. /\ i \in Nat /\ 1 <= i /\ i <= n /\ i \in 1 .. Len(s) /\ r[i] = s[i]
      /\ s[i] = "lead" => i + 1 \in 1 .. Len(s) /\ s[i + 1] = "trail"
      /\ s[i] = "trail" => i - 1 \in 1 .. Len(s) /\ s[i - 1] = "lead"
  <2>1. i \in Nat /\ 1 <= i /\ i <= n /\ i \in 1 .. Len(s) /\ r[i] = s[i]
    BY <1>1
  <2> QED BY <1>1, <2>1 DEF IsText
<1>5. ~(r[i] = "trail")
  <2> SUFFICES ASSUME r[i] = "trail" PROVE FALSE
    OBVIOUS
  <2>1. i - 1 \in 1 .. n /\ s[i - 1] = "lead"
    BY <1>1, <1>3, <1>4
  <2>2. r[i - 1] = "lead"
    BY <2>1
  <2> QED BY <1>1, <1>3, <2>1, <2>2
<1>6. r[i] = "lead" /\ ~(i + 1 \in 1 .. n /\ r[i + 1] = "trail")
  BY <1>1, <1>3, <1>5
<1>7. i = n
  <2> SUFFICES ASSUME i # n PROVE FALSE
    OBVIOUS
  <2>1. i + 1 \in 1 .. n
    <3> HIDE DEF n
    <3> QED BY <1>1, <1>4
  <2>2. r[i + 1] = s[i + 1]
    BY <2>1
  <2> QED BY <1>4, <1>6, <2>1, <2>2
<1> QED BY <1>1, <1>4, <1>6, <1>7

\* From the buffer back to the peer: a verdict on the part that was read is a
\* verdict on what was sent, unless the head did not fit, was no text, or was read
\* together with half a character.
LEMMA AgentInvExplains == AgentInv => VerdictIsExplained
<1> SUFFICES ASSUME AgentInv PROVE VerdictIsExplained
  OBVIOUS
<1> USE AgentAssumption
<1>1. /\ stream \in Seq(Pieces) /\ response \in Seq(Pieces) /\ arrived \in Nat
      /\ arrived <= Len(stream) /\ Len(response) = arrived
      /\ \A i \in 1 .. arrived : response[i] = stream[i]
      /\ Len(stream) \in Nat
  BY DEF AgentInv, AgentTypeOK, BufferIsPrefix
<1>2. \A e \in 1 .. arrived : MatchingHead(response, e) <=> MatchingHead(stream, e)
  BY <1>1, HeadInPrefix
<1>3. PresentIsReal
  <2> SUFFICES ASSUME answer = "Present" PROVE PeerMatches
    BY DEF PresentIsReal
  <2>1. PICK e \in DOMAIN response : MatchingHead(response, e)
    BY DEF AgentInv, VerdictIsOfBuffer, Matches
  <2>2. e \in 1 .. arrived /\ e \in DOMAIN stream
    BY <1>1
  <2> QED BY <1>2, <2>1, <2>2 DEF PeerMatches
<1>4. AbsentIsExplained
  <2> SUFFICES ASSUME answer = "Absent", PeerMatches, IsText(stream),
                      NEW f \in DOMAIN stream, EndsHead(stream, f),
                      f <= MAX_RESPONSE_BYTES
               PROVE  CutsCharacter /\ \E e \in 1 .. arrived : EndsHead(stream, e)
    BY <1>1 DEF AbsentIsExplained
  <2>1. PICK e \in DOMAIN stream : MatchingHead(stream, e)
    BY DEF PeerMatches
  <2>2. e = f /\ e \in Nat /\ e >= 1
    BY <1>1, <2>1 DEF MatchingHead, EndsHead
  <2>3. ReadIsOver /\ ~Matches(response)
    BY <2>1, <1>1 DEF AgentInv, VerdictIsOfBuffer
  <2>4. e <= arrived
    <3> SUFFICES ASSUME ~(e <= arrived) PROVE FALSE
      OBVIOUS
    <3>1. "end" \notin Letters(response)
      BY <1>1, <2>1, <2>2 DEF Letters, MatchingHead, EndsHead
    <3>2. arrived # Len(stream)
      BY <1>1, <2>2
    <3> QED BY <2>2, <2>3, <3>1, <3>2, <1>1 DEF ReadIsOver
  <2>5. e \in 1 .. arrived /\ e \in DOMAIN response
    BY <1>1, <2>2, <2>4
  <2>6. ~IsText(response)
    <3>1. MatchingHead(response, e)
      BY <2>5, <2>1, <1>2
    <3> QED BY <3>1, <2>5, <2>3 DEF Matches
  <2>7. CutsCharacter
    BY <1>1, <2>6, CutIsInCharacter DEF CutsCharacter
  <2> QED BY <2>1, <2>5, <2>7 DEF MatchingHead
<1> QED BY <1>3, <1>4 DEF VerdictIsExplained

\* The verdict of the loopback probe, for every stream and every way TCP cuts it:
\* Present was sent, and a matching peer reads as absent only for bytes that are no
\* text, for a head that the buffer has no room for, or for a read that ends inside
\* a character behind the head (local_agent.rs:69-155).
THEOREM AgentVerdict == AgentSpec => []VerdictIsExplained
<1>1. AgentSpec => []AgentInv
  BY AgentInitHolds, AgentStepKeeps, PTL DEF AgentSpec
<1> QED BY <1>1, AgentInvExplains, PTL

-----------------------------------------------------------------------------
(* The detector set.                                                       *)

\* The detectors by name, and the scans that run them (detect/src/lib.rs:137-192).
LEMMA InventoryNames ==
  /\ INVENTORY = {"PLATFORM_TRUST", "EXPECTED_IDENTITY", "RUNTIME_BASELINE",
                  "TRACER_PRESENT", "UNACCOUNTED_CODE", "DISPATCH_TARGETS",
                  "IMAGE_CATALOG", "LOCAL_AGENT", "SYSTEM_BUILD",
                  "VERIFIED_BOOT", "MACHINE_HOST", "HOST_REPORT"}
  /\ FullScan = INVENTORY \ {"HOST_REPORT"}
  /\ CheapScan \subseteq FullScan
  /\ Comparing \subseteq CheapScan /\ "EXPECTED_IDENTITY" \in CheapScan
BY DEF INVENTORY, CategoryOf, FullScan, CheapScan, Comparing

\* What a rule says is clean, found and a gap are three different things, and none
\* of them is a failure or a panic.
SoundRule(rule) ==
  /\ rule.clean \notin rule.found \cup rule.gap
  /\ rule.found \cap rule.gap = {}
  /\ {"Unsupported", "Failed", "Panics"} \cap
       ({rule.clean} \cup rule.found \cup rule.gap) = {}

\* No detector takes one answer for two things.
LEMMA RulesDisjoint == \A d \in FullScan : SoundRule(RuleOf[d])
<1>1. /\ SoundRule(platform_trust) /\ SoundRule(expected_identity)
      /\ SoundRule(runtime_baseline) /\ SoundRule(tracer_present)
      /\ SoundRule(unaccounted_code) /\ SoundRule(dispatch_targets)
  BY DEF SoundRule, Rule, platform_trust, expected_identity, runtime_baseline,
         tracer_present, unaccounted_code, dispatch_targets
<1>2. /\ SoundRule(image_catalog) /\ SoundRule(local_agent)
      /\ SoundRule(system_build) /\ SoundRule(verified_boot)
      /\ SoundRule(machine_host)
  BY DEF SoundRule, Rule, image_catalog, local_agent, system_build, verified_boot,
         machine_host
<1>3. /\ RuleOf["PLATFORM_TRUST"] = platform_trust
      /\ RuleOf["EXPECTED_IDENTITY"] = expected_identity
      /\ RuleOf["RUNTIME_BASELINE"] = runtime_baseline
      /\ RuleOf["TRACER_PRESENT"] = tracer_present
      /\ RuleOf["UNACCOUNTED_CODE"] = unaccounted_code
      /\ RuleOf["DISPATCH_TARGETS"] = dispatch_targets
      /\ RuleOf["IMAGE_CATALOG"] = image_catalog
      /\ RuleOf["LOCAL_AGENT"] = local_agent
      /\ RuleOf["SYSTEM_BUILD"] = system_build
      /\ RuleOf["VERIFIED_BOOT"] = verified_boot
      /\ RuleOf["MACHINE_HOST"] = machine_host
  BY DEF RuleOf
<1> QED BY <1>1, <1>2, <1>3, InventoryNames

\* The kinds of outcome without a finding.
LEMMA OutcomesDiffer ==
  /\ F!Clean.kind = "Clean" /\ F!Unsupported.kind = "Unsupported"
  /\ F!NotRun.kind = "NotRun"
BY DEF F!Clean, F!Unsupported, F!NotRun

\* What a detector makes of each answer of the platform (detect/src/lib.rs:194-230).
LEMMA InterpretCases ==
  ASSUME NEW d \in FullScan, NEW a \in Answers(d), a # "Panics"
  PROVE  \/ a = RuleOf[d].clean /\ Interpret(d, a) = F!Clean
         \/ a \in RuleOf[d].found
              /\ Interpret(d, a) = Sight(d, RuleOf[d].strength, FALSE)
         \/ a \in RuleOf[d].gap \cup {"Unsupported"}
              /\ Interpret(d, a) = F!Unsupported
         \/ a = "Failed" /\ Interpret(d, a) = Health(d)
<1>1. SoundRule(RuleOf[d])
  BY RulesDisjoint
<1>2. CASE a = RuleOf[d].clean
  BY <1>1, <1>2 DEF Interpret, SoundRule
<1>3. CASE a \in RuleOf[d].found
  BY <1>1, <1>3 DEF Interpret, SoundRule
<1>4. CASE a \in RuleOf[d].gap \cup {"Unsupported"}
  BY <1>1, <1>4 DEF Interpret, SoundRule
<1>5. CASE a = "Failed"
  BY <1>1, <1>5 DEF Interpret, SoundRule
<1> QED BY <1>2, <1>3, <1>4, <1>5 DEF Answers

\* The outcome of one detector, through its capture, its answer and a panic.
LEMMA GuardedCases ==
  ASSUME NEW d \in FullScan, NEW a \in Answers(d)
  PROVE  \/ ~Asks(d) /\ d \in Comparing /\ captured[d] = "Failed"
              /\ Guarded(d, a) = Health(d)
         \/ ~Asks(d) /\ ~(d \in Comparing /\ captured[d] = "Failed")
              /\ Guarded(d, a) = F!Unsupported
         \/ Asks(d) /\ a = RuleOf[d].clean /\ Guarded(d, a) = F!Clean
         \/ Asks(d) /\ a \in RuleOf[d].found
              /\ Guarded(d, a) = Sight(d, RuleOf[d].strength, FALSE)
         \/ Asks(d) /\ a \in RuleOf[d].gap \cup {"Unsupported"}
              /\ Guarded(d, a) = F!Unsupported
         \/ Asks(d) /\ a \in {"Failed", "Panics"} /\ Guarded(d, a) = Health(d)
<1>1. CASE ~Asks(d)
  BY <1>1 DEF Guarded, WithoutAsking
<1>2. CASE Asks(d) /\ a = "Panics"
  BY <1>2 DEF Guarded
<1>3. CASE Asks(d) /\ a # "Panics"
  <2>1. Guarded(d, a) = Interpret(d, a)
    BY <1>3 DEF Guarded
  <2> QED BY <1>3, <2>1, InterpretCases
<1> QED BY <1>1, <1>2, <1>3

\* What one scan leaves in the slots: a clean outcome for a good answer, a gap for
\* a stated one, and what was there for a detector that did not run
\* (detect/src/lib.rs:137-230).
LEMMA ScanIsReal ==
  ASSUME NEW world \in Worlds, NEW scan \in {CheapScan, FullScan}, SetInv,
         \A d \in INVENTORY \ scan : slots[d].kind \in {"NotRun", "Finding"},
         NEW s, s = Recorded(SetOutcomes(scan, world))
  PROVE  /\ DOMAIN s = INVENTORY
         /\ s["HOST_REPORT"] = slots["HOST_REPORT"]
         /\ \A d \in INVENTORY :
              /\ s[d].kind \in {"NotRun", "Clean", "Unsupported", "Finding"}
              /\ F!IsFinding(s[d]) => s[d].finding.detector = d
              /\ s[d] = F!Clean =>
                   d \in FullScan /\ Equipped(d) /\ world[d] = RuleOf[d].clean
              /\ s[d] = F!Unsupported =>
                   \/ d = "EXPECTED_IDENTITY" /\ ~expected
                   \/ d \in Comparing /\ probed[d] \in {"Unsupported", "Partial"}
                   \/ Equipped(d) /\ world[d] \in RuleOf[d].gap \cup {"Unsupported"}
<1> DEFINE out == SetOutcomes(scan, world)
<1>1. DOMAIN out = scan /\ scan \subseteq FullScan /\ scan \subseteq INVENTORY
      /\ \A d \in scan : out[d] = Guarded(d, world[d]) /\ world[d] \in Answers(d)
  BY InventoryNames, WorldAssumption DEF SetOutcomes, IsWorld
<1>2. DOMAIN s = INVENTORY
      /\ \A d \in INVENTORY : s[d] = IF d \in scan THEN out[d] ELSE slots[d]
  BY <1>1 DEF Recorded
<1> HIDE DEF out
<1>3. s["HOST_REPORT"] = slots["HOST_REPORT"]
  BY <1>1, <1>2, InventoryNames
<1>4. captured = probed /\ captured \in [Comparing -> Captures]
  BY DEF SetInv, SetTypeOK
<1>5. ASSUME NEW d \in INVENTORY
      PROVE  /\ s[d].kind \in {"NotRun", "Clean", "Unsupported", "Finding"}
             /\ F!IsFinding(s[d]) => s[d].finding.detector = d
             /\ s[d] = F!Clean =>
                  d \in FullScan /\ Equipped(d) /\ world[d] = RuleOf[d].clean
             /\ s[d] = F!Unsupported =>
                  \/ d = "EXPECTED_IDENTITY" /\ ~expected
                  \/ d \in Comparing /\ probed[d] \in {"Unsupported", "Partial"}
                  \/ Equipped(d) /\ world[d] \in RuleOf[d].gap \cup {"Unsupported"}
  <2>1. CASE d \notin scan
    <3>1. s[d] = slots[d] /\ slots[d].kind \in {"NotRun", "Finding"}
      BY <2>1, <1>2
    <3>2. s[d] # F!Clean /\ s[d] # F!Unsupported
      BY <3>1, OutcomesDiffer
    <3> QED BY <3>1, <3>2 DEF SetInv, SetTypeOK
  <2>2. CASE d \in scan
    <3>1. s[d] = Guarded(d, world[d]) /\ world[d] \in Answers(d) /\ d \in FullScan
      BY <2>2, <1>1, <1>2
    <3>2. Asks(d) <=> Equipped(d)
      BY <1>4 DEF Asks, Equipped
    <3>3. Health(d).kind = "Finding" /\ Health(d).finding.detector = d
      BY DEF Health, Sight, F!Found
    <3>4. Sight(d, RuleOf[d].strength, FALSE).kind = "Finding"
          /\ Sight(d, RuleOf[d].strength, FALSE).finding.detector = d
      BY DEF Sight, F!Found
    <3>5. CASE ~Asks(d) /\ d \in Comparing /\ captured[d] = "Failed"
                 /\ Guarded(d, world[d]) = Health(d)
      BY <3>5, <3>1, <3>3, OutcomesDiffer
    <3>6. CASE ~Asks(d) /\ ~(d \in Comparing /\ captured[d] = "Failed")
                 /\ Guarded(d, world[d]) = F!Unsupported
      BY <3>6, <3>1, <1>4, OutcomesDiffer DEF Asks, Captures, F!IsFinding
    <3>7. CASE Asks(d) /\ world[d] = RuleOf[d].clean /\ Guarded(d, world[d]) = F!Clean
      BY <3>7, <3>1, <3>2, OutcomesDiffer DEF F!IsFinding
    <3>8. CASE Asks(d) /\ world[d] \in RuleOf[d].found
                 /\ Guarded(d, world[d]) = Sight(d, RuleOf[d].strength, FALSE)
      BY <3>8, <3>1, <3>4, OutcomesDiffer
    <3>9. CASE Asks(d) /\ world[d] \in RuleOf[d].gap \cup {"Unsupported"}
                 /\ Guarded(d, world[d]) = F!Unsupported
      BY <3>9, <3>1, <3>2, OutcomesDiffer DEF F!IsFinding
    <3>10. CASE Asks(d) /\ world[d] \in {"Failed", "Panics"}
                 /\ Guarded(d, world[d]) = Health(d)
      BY <3>10, <3>1, <3>3, OutcomesDiffer
    <3> QED BY <3>1, <3>5, <3>6, <3>7, <3>8, <3>9, <3>10, GuardedCases
  <2> QED BY <2>1, <2>2
<1> QED BY <1>2, <1>3, <1>5

\* Slots that no scan and no report filled say nothing.
LEMMA NewSlotsSayNothing ==
  /\ DOMAIN NewSlots = INVENTORY
  /\ \A d \in INVENTORY :
       /\ NewSlots[d].kind = "NotRun"
       /\ NewSlots[d] # F!Clean /\ NewSlots[d] # F!Unsupported
BY OutcomesDiffer DEF NewSlots

\* Before the first scan every probe has answered nothing.
LEMMA NoAnswersIsWorld == IsWorld(NoAnswers)
BY DEF IsWorld, NoAnswers, Answers

\* A new set has no outcome, and its host report is in the inventory.
LEMMA SetInitHolds == SetInit => SetInv
<1> SUFFICES ASSUME SetInit PROVE SetInv
  OBVIOUS
<1>1. "HOST_REPORT" \in INVENTORY
  BY InventoryNames
<1>2. SetTypeOK
  BY NewSlotsSayNothing, NoAnswersIsWorld DEF SetInit, SetTypeOK, Captures, F!IsFinding
<1>3. OutcomesAreReal
  BY NewSlotsSayNothing DEF SetInit, OutcomesAreReal, CleanMeansChecked, GapsAreReal
<1> QED BY <1>1, <1>2, <1>3, NewSlotsSayNothing DEF SetInit, SetInv

\* The scan at the start fills empty slots or none, so a start that failed leaves
\* nothing (builder.rs:286-298).
LEMMA InitialScanKeeps == SetInv /\ InitialScan => SetInv'
<1> SUFFICES ASSUME SetInv, InitialScan PROVE SetInv'
  OBVIOUS
<1>1. PICK world \in Worlds :
        /\ setPc' = IF MissingCoverage(SetOutcomes(CheapScan, world)) = {}
                    THEN "running" ELSE "failed"
        /\ slots' = IF MissingCoverage(SetOutcomes(CheapScan, world)) = {}
                    THEN Recorded(SetOutcomes(CheapScan, world)) ELSE slots
        /\ answers' = world
  BY DEF InitialScan
<1>2. /\ setPc = "scan" /\ slots = NewSlots /\ UNCHANGED <<required, expected, captured, probed>>
      /\ "HOST_REPORT" \in INVENTORY
  BY InventoryNames DEF InitialScan, SetInv
<1>3. IsWorld(world)
  BY WorldAssumption
<1>4. CASE MissingCoverage(SetOutcomes(CheapScan, world)) = {}
  <2>1. setPc' = "running" /\ slots' = Recorded(SetOutcomes(CheapScan, world))
    BY <1>1, <1>4
  <2>2. \A d \in INVENTORY \ CheapScan : slots[d].kind \in {"NotRun", "Finding"}
    BY <1>2, NewSlotsSayNothing
  <2>3. /\ DOMAIN slots' = INVENTORY
        /\ slots'["HOST_REPORT"] = slots["HOST_REPORT"]
        /\ \A d \in INVENTORY :
              /\ slots'[d].kind \in {"NotRun", "Clean", "Unsupported", "Finding"}
              /\ F!IsFinding(slots'[d]) => slots'[d].finding.detector = d
              /\ slots'[d] = F!Clean =>
                   d \in FullScan /\ Equipped(d) /\ world[d] = RuleOf[d].clean
              /\ slots'[d] = F!Unsupported =>
                   \/ d = "EXPECTED_IDENTITY" /\ ~expected
                   \/ d \in Comparing /\ probed[d] \in {"Unsupported", "Partial"}
                   \/ Equipped(d) /\ world[d] \in RuleOf[d].gap \cup {"Unsupported"}
    BY <2>1, <2>2, ScanIsReal
  <2>4. SetTypeOK'
    BY <1>1, <1>2, <1>3, <2>1, <2>3 DEF SetInv, SetTypeOK, F!IsFinding
  <2>5. OutcomesAreReal'
    BY <1>1, <1>2, <2>3
       DEF OutcomesAreReal, CleanMeansChecked, GapsAreReal, Equipped
  <2> QED BY <1>2, <2>1, <2>3, <2>4, <2>5, NewSlotsSayNothing DEF SetInv
<1>5. CASE MissingCoverage(SetOutcomes(CheapScan, world)) # {}
  <2>1. setPc' = "failed" /\ slots' = slots
    BY <1>1, <1>5
  <2>2. SetTypeOK'
    BY <1>1, <1>2, <1>3, <2>1 DEF SetInv, SetTypeOK
  <2>3. OutcomesAreReal'
    BY <1>2, <2>1, NewSlotsSayNothing DEF OutcomesAreReal, CleanMeansChecked, GapsAreReal
  <2> QED BY <1>2, <2>1, <2>2, <2>3, NewSlotsSayNothing DEF SetInv
<1> QED BY <1>4, <1>5

\* A full scan records what the probes answered, and drops no required finding.
LEMMA FullScanKeeps == SetInv /\ FullScanRuns => SetInv'
<1> SUFFICES ASSUME SetInv, FullScanRuns PROVE SetInv'
  OBVIOUS
<1>1. PICK world \in Worlds : /\ slots' = Recorded(SetOutcomes(FullScan, world))
                              /\ answers' = world
  BY DEF FullScanRuns
<1>2. /\ setPc = "running" /\ UNCHANGED <<setPc, required, expected, captured, probed>>
      /\ INVENTORY \ FullScan = {"HOST_REPORT"}
  BY InventoryNames DEF FullScanRuns
<1>3. IsWorld(world)
  BY WorldAssumption
<1>4. \A d \in INVENTORY \ FullScan : slots[d].kind \in {"NotRun", "Finding"}
  BY <1>2 DEF SetInv
<1>5. /\ DOMAIN slots' = INVENTORY
      /\ slots'["HOST_REPORT"] = slots["HOST_REPORT"]
      /\ \A d \in INVENTORY :
            /\ slots'[d].kind \in {"NotRun", "Clean", "Unsupported", "Finding"}
            /\ F!IsFinding(slots'[d]) => slots'[d].finding.detector = d
            /\ slots'[d] = F!Clean =>
                 d \in FullScan /\ Equipped(d) /\ world[d] = RuleOf[d].clean
            /\ slots'[d] = F!Unsupported =>
                 \/ d = "EXPECTED_IDENTITY" /\ ~expected
                 \/ d \in Comparing /\ probed[d] \in {"Unsupported", "Partial"}
                 \/ Equipped(d) /\ world[d] \in RuleOf[d].gap \cup {"Unsupported"}
  BY <1>1, <1>4, ScanIsReal
<1>6. SetTypeOK'
  BY <1>1, <1>2, <1>3, <1>5 DEF SetInv, SetTypeOK, F!IsFinding
<1>7. OutcomesAreReal'
  BY <1>1, <1>2, <1>5 DEF OutcomesAreReal, CleanMeansChecked, GapsAreReal, Equipped
<1> QED BY <1>2, <1>5, <1>6, <1>7 DEF SetInv

\* A report of the host changes its own slot, and no other (handle.rs).
LEMMA HostReportKeeps == SetInv /\ HostReports => SetInv'
<1> SUFFICES ASSUME SetInv, HostReports PROVE SetInv'
  OBVIOUS
<1>1. PICK strength \in {F!Medium, F!Low} :
        slots' = [slots EXCEPT !["HOST_REPORT"] = Sight("HOST_REPORT", strength, FALSE)]
  BY DEF HostReports
<1>2. UNCHANGED <<setPc, required, expected, captured, probed, answers>> /\ setPc = "running"
  BY DEF HostReports
<1>3. Sight("HOST_REPORT", strength, FALSE).kind = "Finding"
      /\ Sight("HOST_REPORT", strength, FALSE).finding.detector = "HOST_REPORT"
  BY DEF Sight, F!Found
<1>4. /\ DOMAIN slots' = INVENTORY
      /\ slots'["HOST_REPORT"].kind = "Finding"
      /\ slots'["HOST_REPORT"].finding.detector = "HOST_REPORT"
      /\ \A d \in INVENTORY : d # "HOST_REPORT" => slots'[d] = slots[d]
  BY <1>1, <1>3, InventoryNames DEF SetInv, SetTypeOK
<1>5. slots'["HOST_REPORT"] # F!Clean /\ slots'["HOST_REPORT"] # F!Unsupported
  BY <1>4, OutcomesDiffer
<1>6. SetTypeOK'
  BY <1>2, <1>4 DEF SetInv, SetTypeOK, F!IsFinding
<1>7. CleanMeansChecked'
  BY <1>2, <1>4, <1>5
     DEF SetInv, OutcomesAreReal, CleanMeansChecked, Equipped
<1>8. GapsAreReal'
  BY <1>2, <1>4, <1>5 DEF SetInv, OutcomesAreReal, GapsAreReal, Equipped
<1> QED BY <1>2, <1>4, <1>6, <1>7, <1>8 DEF SetInv, OutcomesAreReal

\* The baseline, both scans, the host and the reports keep the set sound.
LEMMA SetStepKeeps == SetInv /\ [SetNext]_setVars => SetInv'
<1> SUFFICES ASSUME SetInv, [SetNext]_setVars PROVE SetInv'
  OBVIOUS
<1>1. CASE Capture
  <2>1. /\ slots = NewSlots /\ slots' = slots /\ answers' = answers
        /\ setPc' = "scan" /\ captured' = probed'
        /\ probed' \in [Comparing -> Captures] /\ required' \in Required
        /\ expected' \in BOOLEAN
    BY <1>1 DEF Capture, SetInv
  <2>2. SetTypeOK'
    BY <2>1, WorldAssumption DEF SetInv, SetTypeOK
  <2>3. OutcomesAreReal'
    BY <2>1, NewSlotsSayNothing DEF OutcomesAreReal, CleanMeansChecked, GapsAreReal
  <2> QED BY <2>1, <2>2, <2>3 DEF SetInv, NewSlots
<1>2. CASE InitialScan
  BY <1>2, InitialScanKeeps
<1>3. CASE Rebuild
  <2>1. /\ slots = NewSlots /\ slots' = slots /\ answers' = NoAnswers
        /\ setPc' = "build" /\ captured' = probed' /\ required' = {} /\ expected' = FALSE
        /\ captured' = [d \in Comparing |-> "Unsupported"]
    BY <1>3 DEF Rebuild, SetInv
  <2>2. SetTypeOK'
    <3>1. IsWorld(answers)'
      BY <2>1, NoAnswersIsWorld DEF IsWorld, NoAnswers
    <3>2. {captured', probed'} \subseteq [Comparing -> Captures]
      BY <2>1 DEF Captures
    <3> QED BY <2>1, <3>1, <3>2 DEF SetInv, SetTypeOK
  <2>3. OutcomesAreReal'
    BY <2>1, NewSlotsSayNothing DEF OutcomesAreReal, CleanMeansChecked, GapsAreReal
  <2> QED BY <2>1, <2>2, <2>3 DEF SetInv, NewSlots
<1>4. CASE FullScanRuns
  BY <1>4, FullScanKeeps
<1>5. CASE HostReports
  BY <1>5, HostReportKeeps
<1>6. CASE UNCHANGED setVars
  BY <1>6 DEF setVars, SetInv, SetTypeOK, OutcomesAreReal, CleanMeansChecked, GapsAreReal,
              Equipped
<1> QED BY <1>1, <1>2, <1>3, <1>4, <1>5, <1>6 DEF SetNext

\* Clean, gap and failure stay apart from the probe to the slot for every platform
\* and every requirement: no capture that failed, no panic and no partial answer
\* reads as clean or as a gap of the platform (detect/src/lib.rs:52-54, 194-230).
THEOREM OutcomesReal == SetSpec => []OutcomesAreReal
<1>1. SetSpec => []SetInv
  BY SetInitHolds, SetStepKeeps, PTL DEF SetSpec
<1>2. SetInv => OutcomesAreReal
  BY DEF SetInv
<1> QED BY <1>1, <1>2, PTL

\* A required category is covered by answers of the platform, and never by a
\* failure, a gap or a detector that only a full scan runs (builder.rs:352-375).
THEOREM RequiredCoverage == SetSpec => CoverageKept
<1>1. SetInv /\ [SetNext]_setVars
        => [setPc = "scan" /\ setPc' = "running" =>
              \A d \in INVENTORY : CategoryOf[d] \in required =>
                d \in CheapScan /\ Answered(d)']_setVars
  <2> SUFFICES ASSUME SetInv, SetNext, setPc = "scan", setPc' = "running",
                      NEW d \in INVENTORY, CategoryOf[d] \in required
               PROVE  d \in CheapScan /\ Answered(d)'
    BY DEF setVars
  <2>1. InitialScan
    BY DEF SetNext, Capture, Rebuild, FullScanRuns, HostReports
  <2>2. PICK world \in Worlds :
          /\ setPc' = IF MissingCoverage(SetOutcomes(CheapScan, world)) = {}
                      THEN "running" ELSE "failed"
          /\ answers' = world
    BY <2>1 DEF InitialScan
  <2>3. MissingCoverage(SetOutcomes(CheapScan, world)) = {}
    BY <2>2
  <2>4. d \in CheapScan /\ F!SuppliesCoverage(SetOutcomes(CheapScan, world)[d])
    BY <2>3 DEF MissingCoverage, SetOutcomes
  <2>5. d \in FullScan /\ world[d] \in Answers(d)
    BY <2>4, InventoryNames, WorldAssumption DEF IsWorld
  <2>6. F!SuppliesCoverage(Guarded(d, world[d]))
    BY <2>4 DEF SetOutcomes
  <2>7. Asks(d) /\ world[d] \in {RuleOf[d].clean} \cup RuleOf[d].found
    <3>1. ~F!SuppliesCoverage(F!Unsupported)
      BY DEF F!SuppliesCoverage, F!Unsupported, F!IsFinding
    <3>2. ~F!SuppliesCoverage(Health(d))
      BY DEF F!SuppliesCoverage, Health, Sight, F!Found, F!IsFinding
    <3> QED BY <2>5, <2>6, <3>1, <3>2, GuardedCases
  <2>8. Equipped(d)'
    BY <2>1, <2>7 DEF InitialScan, SetInv, Asks, Equipped
  <2> QED BY <2>2, <2>4, <2>7, <2>8 DEF Answered
<1>2. SetSpec => []SetInv
  BY SetInitHolds, SetStepKeeps, PTL DEF SetSpec
<1> QED BY <1>1, <1>2, PTL DEF SetSpec, CoverageKept

-----------------------------------------------------------------------------
(* The procfs probes. First the rounding of addresses.                     *)

\* Division with a remainder.
LEMMA Divides ==
  ASSUME NEW a \in Nat, NEW n \in Nat \ {0}
  PROVE  /\ a \div n \in Nat /\ a % n \in 0 .. n - 1
         /\ a = n * (a \div n) + (a % n)
OBVIOUS

\* Two multiples that are less than one unit apart.
LEMMA LessFactor ==
  ASSUME NEW p \in Nat \ {0}, NEW x \in Int, NEW y \in Int, p * x < p * y + p
  PROVE  p * x <= p * y
<1>1. x <= y
  <2> SUFFICES ASSUME x >= y + 1 PROVE FALSE
    OBVIOUS
  <2>1. PICK z \in Nat : x = y + 1 + z
    <3> WITNESS x - y - 1 \in Nat
    <3> QED OBVIOUS
  <2>2. p * x = p * y + p + p * z
    BY <2>1
  <2>3. p * z >= 0
    OBVIOUS
  <2> QED BY <2>2, <2>3
<1>2. PICK z \in Nat : y = x + z
  <2> WITNESS y - x \in Nat
  <2> QED BY <1>1
<1>3. p * y = p * x + p * z /\ p * z \in Nat
  BY <1>2
<1> QED BY <1>3

\* Down() returns the last multiple up to the address.
LEMMA DownMultiple ==
  ASSUME NEW a \in Nat, NEW n \in Nat \ {0}
  PROVE  \E q \in Nat : Down(a, n) = n * q /\ n * q <= a /\ a < n * q + n
<1>1. Down(a, n) = n * (a \div n)
  BY Divides DEF Down
<1>2. /\ a \div n \in Nat /\ n * (a \div n) \in Nat
      /\ n * (a \div n) <= a /\ a < n * (a \div n) + n
  BY Divides
<1> QED BY <1>1, <1>2

\* A range that is widened to whole alignments covers the range that is widened to
\* whole pages, when the alignment is some number of pages (sys/catalog.rs:87-98).
LEMMA Widened ==
  ASSUME NEW a \in Nat, NEW p \in Nat \ {0}, NEW k \in Nat \ {0}, NEW n, n = k * p
  PROVE  Down(a, n) <= Down(a, p) /\ Up(a, p) <= Up(a, n)
<1>1. n \in Nat \ {0} /\ n >= p
  <2>1. PICK j \in Nat : k = j + 1
    <3> WITNESS k - 1 \in Nat
    <3> QED OBVIOUS
  <2>2. n = j * p + p /\ j * p \in Nat
    BY <2>1
  <2> QED BY <2>2
<1>2. Down(a, n) <= Down(a, p)
  <2>1. PICK q \in Nat : Down(a, n) = n * q /\ n * q <= a
    BY <1>1, DownMultiple
  <2>2. PICK m \in Nat : Down(a, p) = p * m /\ a < p * m + p
    BY DownMultiple
  <2>3. n * q = p * (k * q) /\ k * q \in Int
    OBVIOUS
  <2>4. p * (k * q) < p * m + p
    BY <2>1, <2>2, <2>3, <1>1
  <2> QED BY <2>1, <2>2, <2>3, <2>4, LessFactor
<1>3. Up(a, p) <= Up(a, n)
  <2>1. PICK q \in Nat : Up(a, n) = n * q /\ a + n - 1 < n * q + n
    <3>1. a + n - 1 \in Nat
      BY <1>1
    <3> QED BY <1>1, <3>1, DownMultiple DEF Up
  <2>2. PICK m \in Nat : Up(a, p) = p * m /\ p * m <= a + p - 1
    <3>1. a + p - 1 \in Nat
      OBVIOUS
    <3> QED BY <3>1, DownMultiple DEF Up
  <2>3. n * q = p * (k * q) /\ k * q \in Int /\ n * q \in Int
    BY <1>1
  <2>4. a <= n * q
    BY <2>1, <2>3, <1>1
  <2>5. p * m < p * (k * q) + p
    BY <2>2, <2>3, <2>4
  <2> QED BY <2>1, <2>2, <2>3, <2>5, LessFactor
<1> QED BY <1>2, <1>3

\* The range of a listed image covers the line of its mapping.
LEMMA OwnRangeCovers ==
  ASSUME NEW i \in Images, i.loader, aligned(i) # {}
  PROVE  \E r \in aligned(i) : /\ Down(i.base + i.vaddr, Page) >= r.start
                               /\ Up(i.base + i.vaddr + i.memsz, Page) <= r.end
<1>1. /\ i.base + i.vaddr \in Nat /\ i.base + i.vaddr + i.memsz \in Nat
      /\ i.align \in Nat /\ Page \in Nat \ {0} /\ MaxAddress \in Nat
  BY MapsAssumption DEF Image
<1>2. i.align > 1 /\ \E k \in 1 .. i.align : i.align = k * Page
  BY LoaderAssumption
<1>3. PICK k \in Nat \ {0} : i.align = k * Page
  BY <1>1, <1>2
<1> DEFINE begin == i.base + i.vaddr
           end == i.base + i.vaddr + i.memsz
<1>4. aligned(i) = {[start |-> Down(begin, i.align), end |-> Up(end, i.align)]}
  BY <1>1, <1>2 DEF aligned
<1>5. Down(begin, i.align) <= Down(begin, Page) /\ Up(end, Page) <= Up(end, i.align)
  BY <1>1, <1>3, Widened
<1>6. /\ Down(begin, Page) \in Int /\ Down(begin, i.align) \in Int
      /\ Up(end, Page) \in Int /\ Up(end, i.align) \in Int
  <2>1. \A a \in Nat, n \in Nat \ {0} : Down(a, n) \in Int
    BY DownMultiple
  <2>2. /\ begin \in Nat /\ end + Page - 1 \in Nat /\ end + i.align - 1 \in Nat
        /\ i.align \in Nat \ {0}
    BY <1>1, <1>2
  <2> QED BY <1>1, <2>1, <2>2 DEF Up
<1> QED BY <1>4, <1>5, <1>6

\* A process that was not read has no text.
LEMMA ProcInitHolds == ProcInit => ProcInv
BY DEF ProcInit, ProcInv, TextIsOfProcess

\* The loader and the rest of the process change while the text waits; what was
\* bypassed stays so only while no catalog lists it.
LEMMA ChangeKeeps ==
  ASSUME ProcInv, NEW images \in SUBSET Images, NEW named \in SUBSET images,
         \A i \in named : i.loader, Change(images, named)
  PROVE  ProcInv'
<1>1. /\ placed' = images /\ catalog' = named /\ bypass' = bypass \ named
      /\ calm' = (stage = "idle")
      /\ gone' = gone /\ tracer' = tracer /\ stage' = stage /\ text' = text
  BY DEF Change
<1>2. TextIsOfProcess'
  BY <1>1 DEF ProcInv, TextIsOfProcess, LineOfFile, FileCode
<1> QED BY <1>1, <1>2 DEF ProcInv, FileCode

\* The mapping text of one moment.
LEMMA TextRead == ProcInv /\ CatalogProbeMaps => ProcInv'
<1> SUFFICES ASSUME ProcInv, CatalogProbeMaps PROVE ProcInv'
  OBVIOUS
<1>1. /\ text' = Lines /\ bypass' = (placed \cap FileCode) \ catalog /\ calm' = TRUE
      /\ stage' = "maps"
      /\ UNCHANGED <<placed, catalog, gone, tracer>>
  BY DEF CatalogProbeMaps
<1>2. ASSUME NEW i \in FileCode PROVE LineOfFile(Line(i), i)
  BY DEF FileCode, LineOfFile, Line
<1>3. ASSUME NEW i \in bypass' PROVE \E line \in text' : LineOfFile(line, i)
  BY <1>1, <1>2 DEF Lines
<1>4. ASSUME NEW line \in text', line.x, line.path \in {"path", "deleted"}
      PROVE  \E i \in FileCode : /\ LineOfFile(line, i)
                                 /\ i \in catalog \/ i \in bypass'
  <2>1. PICK i \in placed : line = Line(i)
    BY <1>1 DEF Lines
  <2>2. i \in Images /\ i.exec /\ i.backing \in {"file", "none", "kernel"}
    BY <1>4, <2>1, MapsAssumption DEF Line, ProcInv, Image
  <2>3. i.backing = "file"
    <3>1. CASE i.backing = "none"
      <4>1. line.path = "empty"
        BY <2>1, <3>1 DEF Line, ProcInv
      <4> QED BY <1>4, <4>1
    <3>2. CASE i.backing = "kernel"
      <4>1. line.path = "bracket"
        BY <2>1, <3>2 DEF Line, ProcInv
      <4> QED BY <1>4, <4>1
    <3> QED BY <2>2, <3>1, <3>2
  <2>4. i \in FileCode
    BY <2>2, <2>3 DEF FileCode
  <2> QED BY <1>1, <1>2, <2>1, <2>4
<1>5. ASSUME NEW line \in text'
      PROVE  line.path \in {"empty", "deleted", "bracket", "path"}
  <2>1. PICK i \in placed : line = Line(i)
    BY <1>1 DEF Lines
  <2>2. i.backing \in {"file", "none", "kernel"}
    BY MapsAssumption DEF ProcInv, Image
  <2> QED BY <2>1, <2>2 DEF Line, ProcInv
<1>6. TextIsOfProcess'
  BY <1>1, <1>3, <1>4, <1>5 DEF TextIsOfProcess, LineOfFile, FileCode
<1> QED BY <1>1, <1>6 DEF ProcInv, FileCode

\* Every probe, and every change of the process between two reads.
LEMMA ProcStepKeeps == ProcInv /\ [ProcNext]_procVars => ProcInv'
<1> SUFFICES ASSUME ProcInv, [ProcNext]_procVars PROVE ProcInv'
  OBVIOUS
<1>1. CASE TracerProbe
  BY <1>1 DEF TracerProbe, ProcAnswer, ProcInv, TextIsOfProcess, LineOfFile, FileCode
<1>2. CASE InjectionProbe
  BY <1>2 DEF InjectionProbe, ProcAnswer, ProcInv, TextIsOfProcess, LineOfFile, FileCode
<1>3. CASE BaselineProbe
  BY <1>3 DEF BaselineProbe, ProcAnswer, ProcInv, TextIsOfProcess, LineOfFile, FileCode
<1>4. CASE CatalogProbeMaps
  BY <1>4, TextRead
<1>5. CASE CatalogProbeNoMaps
  BY <1>5 DEF CatalogProbeNoMaps, ProcAnswer, ProcInv, TextIsOfProcess, LineOfFile,
              FileCode
<1>6. CASE CatalogProbeLoader
  BY <1>6 DEF CatalogProbeLoader, ProcAnswer, ProcInv, TextIsOfProcess, FileCode
<1>7. ASSUME NEW i \in Images, MapImage(i) PROVE ProcInv'
  <2>1. placed \cup {i} \in SUBSET Images /\ catalog \in SUBSET (placed \cup {i})
        /\ \A j \in catalog : j.loader
    BY DEF ProcInv
  <2> QED BY <1>7, <2>1, ChangeKeeps DEF MapImage
<1>8. ASSUME NEW i \in Images, ListImage(i) PROVE ProcInv'
  <2>1. placed \in SUBSET Images /\ catalog \cup {i} \in SUBSET placed
        /\ \A j \in catalog \cup {i} : j.loader
    BY <1>8 DEF ProcInv, ListImage
  <2> QED BY <1>8, <2>1, ChangeKeeps DEF ListImage
<1>9. ASSUME NEW i \in Images, UnlistImage(i) PROVE ProcInv'
  <2>1. placed \in SUBSET Images /\ catalog \ {i} \in SUBSET placed
        /\ \A j \in catalog \ {i} : j.loader
    BY DEF ProcInv
  <2> QED BY <1>9, <2>1, ChangeKeeps DEF UnlistImage
<1>10. ASSUME NEW i \in Images, UnmapImage(i) PROVE ProcInv'
  <2>1. placed \ {i} \in SUBSET Images /\ catalog \in SUBSET (placed \ {i})
        /\ \A j \in catalog : j.loader
    BY <1>10 DEF ProcInv, UnmapImage
  <2> QED BY <1>10, <2>1, ChangeKeeps DEF UnmapImage
<1>11. ASSUME NEW i \in Images, UnlinkFile(i) PROVE ProcInv'
  BY <1>11 DEF UnlinkFile, ProcInv, TextIsOfProcess, LineOfFile, FileCode
<1>12. CASE Attach
  BY <1>12 DEF Attach, ProcInv, TextIsOfProcess, LineOfFile, FileCode
<1>13. CASE UNCHANGED procVars
  BY <1>13 DEF procVars, ProcInv, TextIsOfProcess, LineOfFile, FileCode
<1> QED
  BY <1>1, <1>2, <1>3, <1>4, <1>5, <1>6, <1>7, <1>8, <1>9, <1>10, <1>11, <1>12, <1>13
     DEF ProcNext

\* A capability answers with a fact of its kind.
FactTyped(f) ==
  CASE f.of = "tracer" -> f.is \in Observation(TracerState)
    [] f.of = "code_origin" -> f.is \in Observation(CodeOrigin)
    [] f.of = "image_catalog" -> f.is \in Observation(ImageCatalogState)
    [] OTHER -> TRUE

LEMMA TracerTyped ==
  ASSUME NEW status \in {{"0"}, {"pid"}, {"unreadable"}, {}}
  PROVE  LinuxTracer(status) \in Observation(TracerState)
<1>1. LinuxTracer({}) = "Failed"
  BY DEF LinuxTracer
<1>2. LinuxTracer({"unreadable"}) = "Failed"
  BY DEF LinuxTracer, tracer_pid
<1>3. LinuxTracer({"0"}) = "Absent"
  BY DEF LinuxTracer, tracer_pid
<1>4. LinuxTracer({"pid"}) = "Present"
  BY DEF LinuxTracer, tracer_pid
<1> QED BY <1>1, <1>2, <1>3, <1>4 DEF Observation, TracerState

LEMMA ProcInitTyped == ProcInit => ProcTypeOK
BY DEF ProcInit, ProcTypeOK

LEMMA ProcStepTyped == ProcInv /\ ProcTypeOK /\ [ProcNext]_procVars => ProcTypeOK'
<1> SUFFICES ASSUME ProcInv, ProcTypeOK, [ProcNext]_procVars PROVE ProcTypeOK'
  OBVIOUS
<1>1. /\ placed' \subseteq Images /\ catalog' \subseteq placed' /\ gone' \subseteq Images
      /\ tracer' \in {"0", "pid"} /\ bypass' \subseteq FileCode
  BY ProcStepKeeps DEF ProcInv, FileCode
<1>2. tracer \in {"0", "pid"} /\ stage \in {"idle", "maps"} /\ calm \in BOOLEAN
      /\ FactTyped(fact)
  BY DEF ProcTypeOK, FactTyped
<1>3. /\ stage' \in {"idle", "maps"} /\ calm' \in BOOLEAN
  BY <1>2 DEF ProcNext, TracerProbe, InjectionProbe, BaselineProbe, CatalogProbeMaps,
              CatalogProbeNoMaps, CatalogProbeLoader, MapImage, ListImage, UnlistImage,
              UnmapImage, UnlinkFile, Attach, Change, procVars
<1>4. FactTyped(fact')
  <2>1. CASE TracerProbe
    <3>1. PICK status \in {{tracer}, {"unreadable"}, {}} :
            fact' = [of |-> "tracer", is |-> LinuxTracer(status)]
      BY <2>1 DEF TracerProbe, ProcAnswer, AndroidTracer
    <3>2. LinuxTracer(status) \in Observation(TracerState)
      BY <1>2, TracerTyped
    <3> QED BY <3>1, <3>2 DEF FactTyped
  <2>2. CASE InjectionProbe
    <3>1. PICK read : fact' = [of |-> "code_origin", is |-> LinuxCodeOrigin(read)]
      BY <2>2 DEF InjectionProbe, ProcAnswer, AndroidCodeOrigin
    <3>2. LinuxCodeOrigin(read) \in Observation(CodeOrigin)
      BY DEF LinuxCodeOrigin, Observation, CodeOrigin
    <3> QED BY <3>1, <3>2 DEF FactTyped
  <2>3. CASE BaselineProbe
    <3>1. fact'.of = "code_regions"
      BY <2>3 DEF BaselineProbe, ProcAnswer
    <3> QED BY <3>1 DEF FactTyped
  <2>4. CASE CatalogProbeNoMaps
    <3>1. fact' = [of |-> "image_catalog", is |-> "Failed"]
      BY <2>4 DEF CatalogProbeNoMaps, ProcAnswer
    <3> QED BY <3>1 DEF FactTyped, Observation
  <2>5. CASE CatalogProbeLoader
    <3>1. fact' = [of |-> "image_catalog",
                   is |-> LinuxImageCatalog(text, LoaderRanges(catalog))]
      BY <2>5 DEF CatalogProbeLoader, ProcAnswer, AndroidImageCatalog, AndroidLoaderRanges
    <3>2. LinuxImageCatalog(text, LoaderRanges(catalog)) \in Observation(ImageCatalogState)
      BY DEF LinuxImageCatalog, Observation, ImageCatalogState
    <3> QED BY <3>1, <3>2 DEF FactTyped
  <2>6. ASSUME fact' = fact PROVE FactTyped(fact')
    BY <1>2, <2>6
  <2>7. CASE CatalogProbeMaps \/ Attach \/ UNCHANGED procVars
    BY <2>6, <2>7 DEF CatalogProbeMaps, Attach, procVars
  <2>8. CASE \E i \in Images : MapImage(i) \/ ListImage(i) \/ UnlistImage(i)
                                \/ UnmapImage(i) \/ UnlinkFile(i)
    BY <2>6, <2>8 DEF MapImage, ListImage, UnlistImage, UnmapImage, UnlinkFile, Change
  <2> QED BY <2>1, <2>2, <2>3, <2>4, <2>5, <2>7, <2>8 DEF ProcNext
<1> QED BY <1>1, <1>3, <1>4 DEF ProcTypeOK, FactTyped

\* A code origin of "Accounted" was read from a text of this moment in which no
\* code is without a name or without its file (procfs/maps.rs:260-278).
LEMMA InjectionIsTrue ==
  ASSUME ProcInv, InjectionProbe, ProcSays("code_origin", "Accounted"),
         NEW i \in placed, i.exec
  PROVE  i.backing # "none" /\ i \notin gone
<1>1. PICK read \in {{Lines}, {}} :
        fact' = [of |-> "code_origin", is |-> LinuxCodeOrigin(read)]
  BY DEF InjectionProbe, MapsReads, ProcAnswer, AndroidCodeOrigin
<1>2. LinuxCodeOrigin(read) = "Accounted"
  BY <1>1 DEF ProcSays
<1>3. read = {Lines} /\ unaccounted(UNION read) = {}
  BY <1>1, <1>2 DEF LinuxCodeOrigin
<1>4. unaccounted(Lines) = {}
  BY <1>3
<1>5. Line(i) \in Lines /\ Line(i).x
  BY DEF Lines, Line
<1>6. [start |-> Line(i).start, end |-> Line(i).end, origin |-> origin(Line(i).path)]
        \in executable_mappings(Lines)
  BY <1>5 DEF executable_mappings, mapping
<1>7. origin(Line(i).path) \notin {"Anonymous", "Deleted"}
  BY <1>4, <1>6 DEF unaccounted
<1>8. ASSUME i.backing = "none" PROVE FALSE
  <2>1. Line(i).path = "empty"
    BY <1>8 DEF Line, ProcInv
  <2> QED BY <1>7, <2>1 DEF origin
<1>9. ASSUME i \in gone PROVE FALSE
  <2>1. Line(i).path = "deleted"
    BY <1>9 DEF Line, ProcInv
  <2> QED BY <1>7, <2>1 DEF origin
<1> QED BY <1>8, <1>9

\* "Absent" was read from a status file that names no tracer (procfs/status.rs:20-40).
LEMMA TracerIsTrue ==
  ASSUME ProcInv, TracerProbe, ProcSays("tracer", "Absent")
  PROVE  tracer = "0"
<1>1. PICK status \in {{tracer}, {"unreadable"}, {}} :
        fact' = [of |-> "tracer", is |-> LinuxTracer(status)]
  BY DEF TracerProbe, ProcAnswer, AndroidTracer
<1>2. LinuxTracer(status) = "Absent"
  BY <1>1 DEF ProcSays
<1>3. LinuxTracer({}) = "Failed"
  BY DEF LinuxTracer
<1>4. LinuxTracer({"unreadable"}) = "Failed"
  BY DEF LinuxTracer, tracer_pid
<1>5. ASSUME tracer = "pid" PROVE LinuxTracer({tracer}) = "Present"
  BY <1>5 DEF LinuxTracer, tracer_pid
<1>6. status = {tracer} /\ tracer # "pid"
  BY <1>1, <1>2, <1>3, <1>4, <1>5
<1> QED BY <1>6 DEF ProcInv

\* The answer of the second read, from the text of the first and the catalog of now.
LEMMA LoaderAnswers ==
  ASSUME CatalogProbeLoader
  PROVE  /\ stage = "maps"
         /\ fact' = [of |-> "image_catalog",
                     is |-> LinuxImageCatalog(text, LoaderRanges(catalog))]
BY DEF CatalogProbeLoader, ProcAnswer, AndroidImageCatalog, AndroidLoaderRanges

\* A loader that answers gives the range of every image that it lists.
LEMMA RangesOfCatalog ==
  ASSUME LoaderRanges(catalog) # {}
  PROVE  /\ UNION LoaderRanges(catalog) = UNION {aligned(i) : i \in catalog}
         /\ \A i \in catalog : aligned(i) # {}
BY DEF LoaderRanges

\* An image that no catalog listed since the call began has a line in the text, and
\* no range covers it: the answer is a finding (procfs/maps.rs:280-301).
LEMMA BypassIsReported == ProcInv => BypassReported
<1> SUFFICES ASSUME ProcInv, CatalogProbeLoader,
                    ProcSays("image_catalog", "Accounted"), NEW i \in bypass
             PROVE  FALSE
  BY DEF BypassReported
<1>1. LinuxImageCatalog(text, LoaderRanges(catalog)) = "Accounted" /\ stage = "maps"
  BY LoaderAnswers DEF ProcSays
<1>2. LoaderRanges(catalog) # {}
      /\ outside_loader(text, UNION LoaderRanges(catalog)) = {}
  BY <1>1 DEF LinuxImageCatalog
<1>3. PICK line \in text : LineOfFile(line, i)
  BY <1>1 DEF ProcInv, TextIsOfProcess
<1>4. i \in Images /\ i.exec /\ i.backing = "file" /\ i \notin catalog
  BY DEF ProcInv, FileCode
<1> DEFINE m == [start |-> line.start, end |-> line.end, origin |-> origin(line.path)]
<1>5. m \in executable_mappings(text)
  BY <1>3, <1>4 DEF executable_mappings, mapping, LineOfFile
<1>6. m.origin \in {"File", "Deleted"}
  BY <1>3 DEF LineOfFile, origin
<1>7. PICK r \in UNION LoaderRanges(catalog) : m.start >= r.start /\ m.end <= r.end
  BY <1>2, <1>5, <1>6 DEF outside_loader
<1>8. PICK j \in catalog : r \in aligned(j)
  BY <1>2, <1>7, RangesOfCatalog
<1>9. j \in Images /\ j.loader /\ i \in Images \ {j}
  BY <1>4 DEF ProcInv
<1>10. /\ Down(i.base + i.vaddr, Page) >= r.start
       /\ Up(i.base + i.vaddr + i.memsz, Page) <= r.end
  BY <1>3, <1>7 DEF LineOfFile
<1> QED BY <1>4, <1>8, <1>9, <1>10, LoaderAssumption

\* While nothing changed, a line that no range covers is of an image that bypassed
\* the loader, because a listed image covers its own line (sys/catalog.rs:87-98).
LEMMA QuietIsClean == ProcInv => QuietLoaderIsClean
<1> SUFFICES ASSUME ProcInv, CatalogProbeLoader,
                    ProcSays("image_catalog", "Unregistered"), calm, bypass = {}
             PROVE  FALSE
  BY DEF QuietLoaderIsClean
<1>1. LinuxImageCatalog(text, LoaderRanges(catalog)) = "Unregistered" /\ stage = "maps"
  BY LoaderAnswers DEF ProcSays
<1>2. LoaderRanges(catalog) # {}
      /\ outside_loader(text, UNION LoaderRanges(catalog)) # {}
  BY <1>1 DEF LinuxImageCatalog
<1>3. PICK m \in executable_mappings(text) :
        /\ m.origin \in {"File", "Deleted"}
        /\ ~\E r \in UNION LoaderRanges(catalog) : m.start >= r.start /\ m.end <= r.end
  BY <1>2 DEF outside_loader
<1>4. PICK line \in text : m \in mapping(line)
  BY DEF executable_mappings
<1>5. line.x /\ m.start = line.start /\ m.end = line.end /\ m.origin = origin(line.path)
  BY <1>4 DEF mapping
<1>6. line.path \in {"path", "deleted"}
  <2>1. line.path \in {"empty", "deleted", "bracket", "path"}
    BY <1>1 DEF ProcInv, TextIsOfProcess
  <2>2. origin("empty") = "Anonymous" /\ origin("bracket") = "Named"
    BY DEF origin
  <2> QED BY <1>3, <1>5, <2>1, <2>2
<1>7. PICK i \in FileCode : LineOfFile(line, i) /\ i \in catalog
  <2>1. PICK i \in FileCode : /\ LineOfFile(line, i)
                              /\ calm => i \in catalog \/ i \in bypass
    BY <1>1, <1>5, <1>6 DEF ProcInv, TextIsOfProcess
  <2> QED BY <2>1
<1>8. i \in Images /\ i.loader /\ aligned(i) # {}
  BY <1>2, <1>7, RangesOfCatalog DEF ProcInv, FileCode
<1>9. PICK r \in aligned(i) : /\ Down(i.base + i.vaddr, Page) >= r.start
                              /\ Up(i.base + i.vaddr + i.memsz, Page) <= r.end
  BY <1>8, OwnRangeCovers
<1>10. r \in UNION LoaderRanges(catalog)
  BY <1>2, <1>7, <1>9, RangesOfCatalog
<1> QED BY <1>3, <1>5, <1>7, <1>9, <1>10 DEF LineOfFile

\* Whatever the process maps, loads, unloads and unlinks while a probe reads, a
\* clean answer of the procfs probes is true, code that stayed outside the loader is
\* reported, and a quiet loader causes no report: for every set of images, page
\* size and bound (procfs/maps.rs:226-301, procfs/status.rs:20-40,
\* sys/catalog.rs:87-114).
THEOREM ProcAnswers == ProcSpec => ProcAnswersTrue
<1>1. ProcSpec => []ProcInv
  BY ProcInitHolds, ProcStepKeeps, PTL DEF ProcSpec
<1>2. ProcInv => CleanFactsAreTrue
  BY InjectionIsTrue, TracerIsTrue DEF CleanFactsAreTrue
<1>3. ProcInv /\ [ProcNext]_procVars
        => [CleanFactsAreTrue /\ BypassReported /\ QuietLoaderIsClean]_procVars
  BY <1>2, BypassIsReported, QuietIsClean
<1> QED BY <1>1, <1>3, PTL DEF ProcSpec, ProcAnswersTrue

-----------------------------------------------------------------------------
(* The region walks.                                                       *)

\* The run of one kind that begins at a page ends above it, and its pages hold what
\* the first one holds (mach_vm_region(), VirtualQuery()).
LEMMA RunEndsAbove ==
  ASSUME NEW a \in Addresses
  PROVE  /\ RunEnd(a) \in a + 1 .. Top
         /\ \A p \in a .. RunEnd(a) - 1 : space[p] = space[a]
<1> DEFINE S == {b \in a .. Top - 1 : SameKind(a, b)}
<1>1. Top \in Nat \ {0} /\ a \in Nat /\ a <= Top - 1
  BY WalkAssumption DEF Addresses
<1>2. SameKind(a, a)
  BY <1>1 DEF SameKind
<1>3. S \in SUBSET (0 .. Top - 1) /\ a \in S /\ Top - 1 \in Nat
  BY <1>1, <1>2
<1> HIDE DEF S
<1>4. Max(S) \in S
  BY <1>3, MaxOfSet
<1>5. RunEnd(a) = Max(S) + 1
  BY DEF RunEnd, S
<1>6. Max(S) \in a .. Top - 1 /\ SameKind(a, Max(S))
  BY <1>4 DEF S
<1>7. RunEnd(a) \in a + 1 .. Top
  BY <1>1, <1>5, <1>6
<1>8. \A p \in a .. Max(S) : space[p] = space[a]
  BY <1>6 DEF SameKind
<1>9. RunEnd(a) - 1 = Max(S)
  BY <1>1, <1>5, <1>6
<1> QED BY <1>7, <1>8, <1>9

\* A run starts at or below each of its addresses, and holds one kind of page.
LEMMA RunStartsBelow ==
  ASSUME NEW a \in Addresses
  PROVE  /\ RunStart(a) \in 0 .. a
         /\ \A p \in RunStart(a) .. a : space[p] = space[a]
<1> DEFINE S == {b \in 0 .. a : SameKind(b, a)}
<1>1. Top \in Nat \ {0} /\ a \in Nat /\ a <= Top - 1
  BY WalkAssumption DEF Addresses
<1>2. SameKind(a, a)
  BY <1>1 DEF SameKind
<1>3. S \in SUBSET Nat /\ a \in S
  BY <1>1, <1>2
<1> HIDE DEF S
<1>4. Min(S) \in S
  BY <1>3, MinOfSet
<1>5. RunStart(a) \in 0 .. a /\ SameKind(RunStart(a), a)
  BY <1>4 DEF RunStart, S
<1>6. \A p \in RunStart(a) .. a : space[p] = space[RunStart(a)]
  BY <1>5 DEF SameKind
<1>7. a \in RunStart(a) .. a
  BY <1>1, <1>5
<1> QED BY <1>5, <1>6, <1>7

\* mach_vm_region() gives the next run at or above the cursor.
LEMMA AppleRun ==
  ASSUME WalkInv, NEW run \in mach_vm_region(cursor)
  PROVE  IsNextRun(run) /\ run.is # FREE
<1> DEFINE above == {b \in cursor .. Top - 1 : space[b] # FREE}
<1>1. Top \in Nat \ {0} /\ cursor \in 0 .. Top
  BY WalkAssumption DEF WalkInv, WalkTypeOK
<1>2. PICK b \in (IF above = {} THEN {} ELSE {Min(above)}) :
        run = [start |-> RunStart(b), end |-> RunEnd(b), is |-> space[b]]
  BY DEF mach_vm_region
<1>3. above \in SUBSET Nat
  BY <1>1
<1> HIDE DEF above
<1>4. above # {} /\ b = Min(above)
  BY <1>2
<1>5. b \in above /\ \A y \in above : b <= y
  BY <1>3, <1>4, MinOfSet
<1>6. b \in Addresses /\ b >= cursor /\ b \in Nat
  BY <1>1, <1>5 DEF above, Addresses
<1>7. /\ RunEnd(b) \in b + 1 .. Top /\ \A p \in b .. RunEnd(b) - 1 : space[p] = space[b]
      /\ RunStart(b) \in 0 .. b /\ \A p \in RunStart(b) .. b : space[p] = space[b]
  BY <1>6, RunEndsAbove, RunStartsBelow
<1>8. /\ run.start \in Addresses /\ run.end \in cursor + 1 .. Top
      /\ run.start < run.end
  BY <1>1, <1>2, <1>6, <1>7 DEF Addresses
<1>9. ASSUME NEW p \in Addresses, run.start <= p, p < run.end
      PROVE  space[p] = run.is
  <2>1. p \in Nat
    BY <1>1 DEF Addresses
  <2>2. p \in RunStart(b) .. b \/ p \in b .. RunEnd(b) - 1
    BY <1>2, <1>6, <1>7, <1>9, <2>1
  <2> QED BY <1>2, <1>7, <2>2
<1>10. ASSUME NEW p \in Addresses, cursor <= p, p < run.start
       PROVE  space[p] = FREE
  <2>1. p \in cursor .. Top - 1 /\ p < b
    BY <1>1, <1>2, <1>6, <1>7, <1>10 DEF Addresses
  <2> QED BY <1>5, <1>6, <2>1 DEF above
<1>11. steady \subseteq Addresses
  BY DEF WalkInv, WalkTypeOK
<1>12. run.is # FREE
  BY <1>2, <1>5 DEF above
<1> QED BY <1>8, <1>9, <1>10, <1>11, <1>12 DEF IsNextRun

\* Where it gives none, every page from the cursor on is free.
LEMMA AppleNone ==
  ASSUME WalkInv, mach_vm_region(cursor) = {}, NEW p \in Addresses, p >= cursor
  PROVE  space[p] = FREE
<1> DEFINE above == {b \in cursor .. Top - 1 : space[b] # FREE}
<1>1. Top \in Nat \ {0} /\ cursor \in 0 .. Top
  BY WalkAssumption DEF WalkInv, WalkTypeOK
<1>2. above = {}
  <2> SUFFICES ASSUME above # {} PROVE FALSE
    OBVIOUS
  <2> DEFINE b == Min(above)
  <2>1. [start |-> RunStart(b), end |-> RunEnd(b), is |-> space[b]]
          \in mach_vm_region(cursor)
    BY DEF mach_vm_region
  <2> QED BY <2>1
<1>3. p \in cursor .. Top - 1
  BY <1>1 DEF Addresses
<1> QED BY <1>2, <1>3

\* A range of one kind lies in the region that mach_vm_region() gives for its first
\* address (sys/regions.rs:99-124).
LEMMA AppleInside ==
  ASSUME WalkInv, RangeStands, walk.pages \in Nat \ {0}
  PROVE  \E range \in mach_vm_region(cursor) : Inside(range)
<1> DEFINE above == {b \in cursor .. Top - 1 : space[b] # FREE}
           last == cursor + walk.pages - 1
<1>1. Top \in Nat \ {0} /\ cursor \in 0 .. Top /\ steady \subseteq Addresses
  BY WalkAssumption DEF WalkInv, WalkTypeOK
<1>2. /\ last \in Nat /\ cursor <= last /\ cursor .. last \subseteq Addresses
      /\ space[cursor] # FREE /\ \A p \in cursor .. last : space[p] = space[cursor]
  BY <1>1 DEF RangeStands
<1>3. last \in cursor .. Top - 1 /\ cursor \in Addresses /\ cursor \in cursor .. Top - 1
  <2>1. last \in cursor .. last /\ cursor \in cursor .. last
    BY <1>1, <1>2
  <2> QED BY <1>1, <1>2, <2>1 DEF Addresses
<1>4. above \in SUBSET Nat /\ cursor \in above /\ \A b \in above : cursor <= b
  BY <1>1, <1>2, <1>3
<1> HIDE DEF above, last
<1>5. Min(above) = cursor
  <2>1. Min(above) \in above /\ \A b \in above : Min(above) <= b
    BY <1>4, MinOfSet
  <2>2. Min(above) \in Nat /\ cursor \in Nat /\ Min(above) <= cursor /\ cursor <= Min(above)
    BY <1>1, <1>4, <2>1
  <2> QED BY <2>2
<1> DEFINE run == [start |-> RunStart(cursor), end |-> RunEnd(cursor), is |-> space[cursor]]
<1>6. run \in mach_vm_region(cursor)
  BY <1>4, <1>5 DEF mach_vm_region, above
<1>7. RunStart(cursor) \in 0 .. cursor
  BY <1>3, RunStartsBelow
<1>8. last < RunEnd(cursor) /\ RunEnd(cursor) \in Nat
  <2> DEFINE S == {b \in cursor .. Top - 1 : SameKind(cursor, b)}
  <2>1. last \in S /\ S \in SUBSET (0 .. Top - 1) /\ Top - 1 \in Nat
    BY <1>1, <1>2, <1>3 DEF SameKind
  <2> HIDE DEF S
  <2>2. Max(S) \in S /\ \A b \in S : b <= Max(S)
    BY <2>1, MaxOfSet
  <2>3. RunEnd(cursor) = Max(S) + 1
    BY DEF RunEnd, S
  <2>4. Max(S) \in 0 .. Top - 1
    BY <2>1, <2>2
  <2>5. last <= Max(S)
    BY <2>1, <2>2
  <2> QED BY <1>1, <1>2, <2>3, <2>4, <2>5
<1>9. Inside(run)
  BY <1>1, <1>7, <1>8 DEF Inside, last
<1> QED BY <1>6, <1>9

\* VirtualQuery() gives the rest of the run at the cursor.
LEMMA WindowsRun ==
  ASSUME WalkInv, NEW run \in VirtualQuery(cursor)
  PROVE  IsNextRun(run)
<1>1. Top \in Nat \ {0} /\ cursor \in 0 .. Top
  BY WalkAssumption DEF WalkInv, WalkTypeOK
<1>2. /\ cursor \in Addresses
      /\ run = [start |-> cursor, end |-> RunEnd(cursor), is |-> space[cursor]]
  BY <1>1 DEF VirtualQuery, Addresses
<1>3. /\ RunEnd(cursor) \in cursor + 1 .. Top
      /\ \A p \in cursor .. RunEnd(cursor) - 1 : space[p] = space[cursor]
  BY <1>2, RunEndsAbove
<1>4. \A p \in Addresses : cursor <= p /\ p < RunEnd(cursor) => p \in cursor .. RunEnd(cursor) - 1
  BY <1>1, <1>3 DEF Addresses
<1>5. steady \subseteq Addresses
  BY DEF WalkInv, WalkTypeOK
<1> QED BY <1>1, <1>2, <1>3, <1>4, <1>5 DEF IsNextRun, Addresses

\* Nothing is held before the first walk.
LEMMA WalkInitHolds == WalkInit => WalkInv
<1> SUFFICES ASSUME WalkInit PROVE WalkInv
  OBVIOUS
<1>1. FREE \in PageKind /\ Top \in Nat \ {0}
  BY WalkAssumption
<1>2. WalkTypeOK
  <2>1. space \in [Addresses -> PageKind] /\ modules \subseteq Loadable
    BY <1>1 DEF WalkInit, Loadable
  <2>2. walk.at = "idle" /\ told.of = "none"
    BY DEF WalkInit, Idle, NotTold
  <2>3. cursor \in 0 .. Top /\ passes \in 0 .. Top
    BY <1>1 DEF WalkInit
  <2>4. /\ todo \subseteq gathered /\ odd \in BOOLEAN
        /\ steady \subseteq Addresses /\ unlisted \subseteq Loadable
    BY DEF WalkInit
  <2> QED BY <2>1, <2>2, <2>3, <2>4 DEF WalkTypeOK
<1> QED BY <1>2 DEF WalkInit, WalkInv, Idle, NotTold, RegionsAreReal, WalkedIsGathered,
                    JudgedIsKnown, ReplyIsReal, NoReply, Walks

\* One pass of the loop: what lies between the cursor and the end of the run is
\* free, or in the run, or was below the cursor (sys/regions.rs:143-210,
\* sys/memory.rs:211-267).
LEMMA AdvanceKeeps ==
  ASSUME WalkInv, Walks, NEW run, IsNextRun(run), Advance(run),
         rights' = 0, reply' = NoReply, UNCHANGED <<space, modules>>
  PROVE  WalkInv'
<1>1. /\ Top \in Nat \ {0} /\ cursor \in 0 .. Top /\ passes \in Nat /\ passes <= cursor
      /\ space \in [Addresses -> PageKind] /\ steady \subseteq Addresses
  BY WalkAssumption DEF WalkInv, WalkTypeOK
<1>2. /\ gathered' = gathered \cup KeptRegion(run)
      /\ cursor' = run.end /\ passes' = passes + 1
      /\ walk' = [walk EXCEPT !.at = "walk"]
      /\ UNCHANGED <<todo, odd, steady, unlisted, told>>
  BY DEF Advance, NextAddress
<1>3. /\ run.start \in Addresses /\ run.end \in cursor + 1 .. Top
      /\ run.start < run.end
      /\ \A p \in steady : run.start <= p /\ p < run.end => space[p] = run.is
      /\ \A p \in steady : cursor <= p /\ p < run.start => space[p] = FREE
  BY DEF IsNextRun
<1>4. cursor' \in 0 .. Top /\ passes' \in 0 .. Top /\ passes' <= cursor'
  BY <1>1, <1>2, <1>3
<1>5. todo = {} /\ told = NotTold
  BY DEF WalkInv, Walks
<1>walk. /\ walk' \in [at : {"walk", "answered", "judge", "modules"},
                      platform : Platforms, purpose : Purposes, pages : 0 .. Top]
         /\ walk'.at = "walk" /\ walk'.purpose # "mapped"
  <2>1. walk \in [at : {"walk", "answered", "judge", "modules"},
                  platform : Platforms, purpose : Purposes, pages : 0 .. Top]
    BY DEF WalkInv, Walks, Idle
  <2> QED BY <1>2, <2>1 DEF Walks
<1>6. WalkTypeOK'
  BY <1>2, <1>4, <1>5, <1>walk DEF WalkInv, WalkTypeOK
<1>7. RegionsAreReal'
  <2> SUFFICES ASSUME NEW r \in gathered'
               PROVE  /\ r.start \in Addresses /\ r.end \in r.start + 1 .. Top
                      /\ r.is \in Code
                      /\ \A p \in steady : r.start <= p /\ p < r.end => space[p] = r.is
    BY <1>2 DEF RegionsAreReal
  <2>1. CASE r \in gathered
    BY <2>1 DEF WalkInv, RegionsAreReal
  <2>2. CASE r \in KeptRegion(run)
    <3>1. /\ run.is \in Code
          /\ r = [start |-> run.start, end |-> run.end, is |-> run.is]
      BY <2>2 DEF KeptRegion
    <3>2. run.end \in run.start + 1 .. Top
      BY <1>1, <1>3 DEF Addresses
    <3> QED BY <1>1, <1>3, <3>1, <3>2
  <2> QED BY <1>2, <2>1, <2>2
<1>8. WalkedIsGathered'
  <2> SUFFICES ASSUME NEW p \in steady, p < run.end, space[p] \in Code
               PROVE  \E r \in gathered' : Covers(r, p)
    BY <1>2 DEF WalkedIsGathered, Covers
  <2>1. p \in steady /\ p \in Addresses /\ p \in Nat /\ run.start \in Nat
    BY <1>1, <1>3 DEF Addresses
  <2>2. CASE p < cursor
    <3>1. \E r \in gathered : Covers(r, p)
      BY <2>2 DEF WalkInv, WalkedIsGathered
    <3> QED BY <1>2, <3>1
  <2>3. CASE cursor <= p /\ p < run.start
    <3>1. space[p] = FREE
      BY <1>3, <2>1, <2>3
    <3> QED BY <3>1 DEF Code, FREE
  <2>4. CASE run.start <= p
    <3>1. space[p] = run.is
      BY <1>3, <2>1, <2>4
    <3> DEFINE r == [start |-> run.start, end |-> run.end, is |-> run.is]
    <3>2. r \in gathered'
      BY <1>2, <3>1 DEF KeptRegion
    <3>3. Covers(r, p)
      BY <2>4, <3>1 DEF Covers
    <3> QED BY <3>2, <3>3
  <2> QED BY <1>1, <1>3, <2>1, <2>2, <2>3, <2>4
<1>9. JudgedIsKnown'
  BY <1>walk DEF JudgedIsKnown
<1>10. ReplyIsReal'
  BY <1>walk DEF ReplyIsReal, NoReply
<1> QED BY <1>2, <1>4, <1>5, <1>6, <1>7, <1>8, <1>9, <1>10, <1>walk DEF WalkInv

\* A call that answers drops what it collected.
LEMMA ReturnKeeps ==
  ASSUME WalkInv, walk.at # "idle", NEW a, Return(a), rights' = 0, reply' = NoReply,
         UNCHANGED <<space, modules>>
  PROVE  WalkInv'
<1>1. walk.purpose \in Purposes /\ Top \in Nat
  BY WalkAssumption DEF WalkInv, Idle
<1>2. WalkTypeOK'
  <2>1. walk'.at = "idle" /\ told'.of \in Purposes
    BY <1>1 DEF Return, Idle
  <2>2. cursor' \in 0 .. Top /\ passes' \in 0 .. Top
    BY <1>1 DEF Return
  <2>3. /\ todo' \subseteq gathered' /\ odd' \in BOOLEAN
        /\ steady' \subseteq Addresses /\ unlisted' \subseteq Loadable
    BY DEF Return
  <2> QED BY <2>1, <2>2, <2>3 DEF WalkInv, WalkTypeOK
<1> QED BY <1>2 DEF WalkInv, Return, Idle, RegionsAreReal, WalkedIsGathered, JudgedIsKnown,
                    ReplyIsReal, NoReply, Walks

\* The end of a walk, and what follows it.
LEMMA FinishKeeps ==
  ASSUME WalkInv, Walks, Finish, rights' = 0, reply' = NoReply,
         UNCHANGED <<space, modules>>
  PROVE  WalkInv'
<1>1. CASE \E a \in {"Failed", "Regions"} : Return(a)
  BY <1>1, ReturnKeeps DEF Walks
<1>2. CASE /\ gathered # {} /\ walk.purpose # "regions"
           /\ walk' = [walk EXCEPT !.at = IF walk.purpose = "origin" THEN "judge"
                                         ELSE "modules"]
           /\ todo' = IF walk.purpose = "origin" THEN gathered ELSE {}
           /\ UNCHANGED <<cursor, passes, gathered, odd, steady, unlisted, told>>
  <2>1. walk \in [at : {"walk", "answered", "judge", "modules"},
                  platform : Platforms, purpose : Purposes, pages : 0 .. Top]
    BY DEF WalkInv, Walks, Idle
  <2>2. /\ walk' \in [at : {"walk", "answered", "judge", "modules"},
                      platform : Platforms, purpose : Purposes, pages : 0 .. Top]
        /\ walk'.at \in {"judge", "modules"} /\ walk'.purpose # "mapped"
        /\ walk'.at = "judge" => todo' = gathered
        /\ walk'.at # "judge" => todo' = {}
        /\ todo' \subseteq gathered
    BY <1>2, <2>1 DEF Walks
  <2>3. WalkTypeOK'
    BY <1>2, <2>2 DEF WalkInv, WalkTypeOK
  <2>4. RegionsAreReal'
    BY <1>2 DEF WalkInv, RegionsAreReal
  <2>5. WalkedIsGathered' /\ JudgedIsKnown' /\ ReplyIsReal'
    BY <1>2, <2>2 DEF WalkedIsGathered, JudgedIsKnown, ReplyIsReal, NoReply, Walks
  <2>6. told' = NotTold
    BY <1>2 DEF WalkInv, Walks
  <2> QED BY <1>2, <2>2, <2>3, <2>4, <2>5, <2>6 DEF WalkInv
<1> QED BY <1>1, <1>2 DEF Finish

\* A region outside every file that kept its place has no file when it is judged
\* (injection.rs:27).
LEMMA StrangeIsSeen ==
  ASSUME WalkInv, NEW r \in gathered, r.is.holds \in {"anon", "private"},
         r.start .. r.end - 1 \subseteq steady
  PROVE  ~accounted(r)
<1>1. /\ r.start \in Addresses /\ r.end \in r.start + 1 .. Top
      /\ \A p \in steady : r.start <= p /\ p < r.end => space[p] = r.is
  BY DEF WalkInv, RegionsAreReal
<1>2. r.start \in Nat /\ r.start \in r.start .. r.end - 1 /\ r.start < r.end
  BY <1>1, WalkAssumption DEF Addresses
<1>3. space[r.start] = r.is
  BY <1>1, <1>2
<1> QED BY <1>3 DEF accounted, mapped_file, Loadable

\* A judged region leaves the list, and an odd one is told.
LEMMA JudgeKeeps == WalkInv /\ JudgeRegion => WalkInv'
<1> SUFFICES ASSUME WalkInv, JudgeRegion PROVE WalkInv'
  OBVIOUS
<1>1. /\ walk.at = "judge" /\ UNCHANGED <<space, modules, rights, reply>>
      /\ rights = 0 /\ reply = NoReply
  BY DEF JudgeRegion, WalkInv, ReplyIsReal, NoReply
<1>2. PICK run \in todo :
        \/ \E a : Return(a)
        \/ /\ todo' = todo \ {run} /\ (odd' <=> odd \/ ~accounted(run))
           /\ odd' \in BOOLEAN
           /\ UNCHANGED <<walk, cursor, passes, gathered, steady, unlisted, told>>
  <2>1. PICK run \in todo :
          \/ Return(IF odd \/ ~accounted(run) THEN "Unaccounted" ELSE "Accounted")
          \/ /\ todo' = todo \ {run} /\ odd' = (odd \/ ~accounted(run))
             /\ UNCHANGED <<walk, cursor, passes, gathered, steady, unlisted, told>>
    BY DEF JudgeRegion, Remaining
  <2> QED BY <2>1
<1>3. CASE \E a : Return(a)
  BY <1>1, <1>3, ReturnKeeps
<1>4. CASE /\ todo' = todo \ {run} /\ (odd' <=> odd \/ ~accounted(run))
           /\ odd' \in BOOLEAN
           /\ UNCHANGED <<walk, cursor, passes, gathered, steady, unlisted, told>>
  <2>1. WalkTypeOK'
    BY <1>1, <1>4 DEF WalkInv, WalkTypeOK
  <2>2. RegionsAreReal' /\ WalkedIsGathered'
    BY <1>1, <1>4 DEF WalkInv, RegionsAreReal, WalkedIsGathered, Walks
  <2>3. JudgedIsKnown'
    <3> SUFFICES ASSUME NEW r \in gathered, r \notin todo \/ r = run,
                        r.is.holds \in {"anon", "private"},
                        r.start .. r.end - 1 \subseteq steady
                 PROVE  odd'
      BY <1>4 DEF JudgedIsKnown
    <3>1. CASE r \notin todo
      <4>1. odd
        BY <1>1, <3>1 DEF WalkInv, JudgedIsKnown
      <4> QED BY <1>4, <4>1
    <3>2. CASE r = run
      BY <1>4, <3>2, StrangeIsSeen
    <3> QED BY <3>1, <3>2
  <2>4. told' = NotTold /\ ReplyIsReal'
    BY <1>1, <1>4 DEF WalkInv, ReplyIsReal, NoReply
  <2> QED BY <1>1, <1>4, <2>1, <2>2, <2>3, <2>4 DEF WalkInv
<1> QED BY <1>2, <1>3, <1>4

\* The rest of the process: a page that changes is steady no more.
LEMMA ChangePageKeeps ==
  ASSUME WalkInv, NEW p \in Addresses, NEW kind \in Kinds, ChangePage(p, kind)
  PROVE  WalkInv'
<1>1. /\ space' = [space EXCEPT ![p] = kind] /\ steady' = steady \ {p}
      /\ UNCHANGED <<modules, walk, cursor, reply, passes, gathered, todo, odd, rights,
                     unlisted, told>>
  BY DEF ChangePage
<1>2. kind \in PageKind /\ space \in [Addresses -> PageKind] /\ steady \subseteq Addresses
  BY WalkAssumption DEF WalkInv, WalkTypeOK
<1>3. \A q \in steady' : q \in steady /\ space'[q] = space[q]
  BY <1>1, <1>2
<1>4. WalkTypeOK'
  BY <1>1, <1>2 DEF WalkInv, WalkTypeOK
<1>5. RegionsAreReal'
  BY <1>1, <1>3 DEF WalkInv, RegionsAreReal
<1>6. WalkedIsGathered'
  BY <1>1, <1>3 DEF WalkInv, WalkedIsGathered, Covers, Walks
<1>7. JudgedIsKnown'
  <2> SUFFICES ASSUME walk.at = "judge", NEW r \in gathered \ todo,
                      r.is.holds \in {"anon", "private"},
                      r.start .. r.end - 1 \subseteq steady'
               PROVE  odd'
    BY <1>1 DEF JudgedIsKnown
  <2>1. odd
    BY <1>3 DEF WalkInv, JudgedIsKnown
  <2> QED BY <1>1, <2>1
<1>8. ReplyIsReal'
  <2>1. ASSUME walk.at = "answered", NEW run \in reply.region
        PROVE  IsNextRun(run)' /\ run.is # FREE
    <3>1. IsNextRun(run) /\ run.is # FREE
      BY <2>1 DEF WalkInv, ReplyIsReal
    <3> QED BY <1>1, <1>3, <3>1 DEF IsNextRun
  <2>2. ASSUME walk.at = "answered", reply.region = {}
        PROVE  \A q \in steady' : q >= cursor => space'[q] = FREE
    BY <1>3, <2>2 DEF WalkInv, ReplyIsReal
  <2>3. ASSUME walk.at = "answered", walk.purpose = "mapped", RangeStands'
        PROVE  \E range \in reply.region : Inside(range)'
    <3>1. walk.pages \in 1 .. Top /\ cursor \in Nat
      BY <2>3, WalkAssumption DEF WalkInv, WalkTypeOK, Idle
    <3>2. cursor \in cursor .. cursor + walk.pages - 1
      BY <3>1
    <3>3. /\ cursor .. cursor + walk.pages - 1 \subseteq steady'
          /\ space'[cursor] # FREE
          /\ \A q \in cursor .. cursor + walk.pages - 1 : space'[q] = space'[cursor]
      BY <1>1, <2>3 DEF RangeStands
    <3>4. RangeStands
      BY <1>3, <3>2, <3>3 DEF RangeStands
    <3>5. \E range \in reply.region : Inside(range)
      BY <2>3, <3>4 DEF WalkInv, ReplyIsReal
    <3> QED BY <1>1, <3>5 DEF Inside
  <2> QED BY <1>1, <2>1, <2>2, <2>3 DEF WalkInv, ReplyIsReal
<1> QED BY <1>1, <1>4, <1>5, <1>6, <1>7, <1>8 DEF WalkInv

\* The loader lists or drops a module while a walk stands.
LEMMA ListModuleKeeps ==
  ASSUME WalkInv, NEW m \in Loadable, ListModule(m)
  PROVE  WalkInv'
<1>1. /\ modules' \subseteq Loadable /\ unlisted' = unlisted \ modules'
      /\ UNCHANGED <<space, walk, cursor, reply, passes, gathered, todo, odd, rights, steady,
                     told>>
  BY DEF ListModule, WalkInv, WalkTypeOK
<1>2. WalkTypeOK'
  BY <1>1 DEF WalkInv, WalkTypeOK
<1>3. RegionsAreReal' /\ WalkedIsGathered'
  BY <1>1 DEF WalkInv, RegionsAreReal, WalkedIsGathered, Covers, Walks
<1>4. JudgedIsKnown' /\ ReplyIsReal'
  BY <1>1 DEF WalkInv, JudgedIsKnown, ReplyIsReal, IsNextRun, RangeStands, Inside
<1> QED BY <1>1, <1>2, <1>3, <1>4 DEF WalkInv

\* A call begins at the lowest address, or at that of its range, with nothing
\* gathered.
LEMMA BeginKeeps ==
  ASSUME WalkInv, NEW platform \in Platforms, NEW purpose \in Purposes,
         NEW address \in 0 .. Top, NEW pages \in 0 .. Top,
         purpose = "mapped" \/ address = 0,
         purpose = "mapped" => platform = "apple" /\ pages # 0,
         Begin(platform, purpose, address, pages)
  PROVE  WalkInv'
<1>1. /\ walk = Idle
      /\ walk' = [at |-> "walk", platform |-> platform, purpose |-> purpose,
                  pages |-> pages]
      /\ cursor' = address /\ passes' = 0 /\ gathered' = {} /\ odd' = FALSE
      /\ steady' = Addresses /\ unlisted' \subseteq Loadable \ modules /\ told' = NotTold
      /\ UNCHANGED <<space, modules, todo, rights, reply>>
  BY DEF Begin
<1>2. todo = {} /\ Top \in Nat /\ reply = NoReply
  BY <1>1, WalkAssumption DEF WalkInv, Idle, ReplyIsReal
<1>3. WalkTypeOK'
  <2>1. walk'.at = "walk" /\ told'.of = "none"
    BY <1>1 DEF NotTold
  <2>2. cursor' \in 0 .. Top /\ passes' \in 0 .. Top /\ passes' <= cursor'
    BY <1>1, <1>2
  <2>3. /\ todo' \subseteq gathered' /\ odd' \in BOOLEAN
        /\ steady' \subseteq Addresses /\ unlisted' \subseteq Loadable
    BY <1>1, <1>2
  <2> QED BY <1>1, <2>1, <2>2, <2>3 DEF WalkInv, WalkTypeOK
<1>4. /\ walk' \in [at : {"walk", "answered", "judge", "modules"},
                    platform : Platforms, purpose : Purposes, pages : 0 .. Top]
      /\ walk'.at = "walk" /\ walk'.purpose = purpose /\ walk'.pages = pages
      /\ walk'.platform = platform
  BY <1>1
<1>5. RegionsAreReal' /\ JudgedIsKnown' /\ ReplyIsReal'
  BY <1>1, <1>2, <1>4 DEF RegionsAreReal, JudgedIsKnown, ReplyIsReal, NoReply, WalkInv
<1>6. WalkedIsGathered'
  BY <1>1, <1>4, WalkAssumption DEF WalkedIsGathered, Walks, Addresses
<1>7. passes' <= cursor'
  BY <1>1, <1>2
<1> QED BY <1>1, <1>2, <1>3, <1>4, <1>5, <1>6, <1>7 DEF WalkInv

\* A call of the kernel: its answer waits, with the name that came with it
\* (sys/regions.rs:99-110, 156-169).
LEMMA QueryKeeps == WalkInv /\ AppleQuery => WalkInv'
<1> SUFFICES ASSUME WalkInv, AppleQuery PROVE WalkInv'
  OBVIOUS
<1>1. /\ Top \in Nat \ {0} /\ MAX_PASSES \in Nat /\ MAX_PASSES > Top
      /\ cursor \in 0 .. Top /\ passes \in 0 .. Top /\ steady \subseteq Addresses
  BY WalkAssumption DEF WalkInv, WalkTypeOK
<1>2. passes < MAX_PASSES
  BY <1>1
<1>3. PICK object \in {0, 1}, ok \in BOOLEAN :
        /\ ok \/ (mach_vm_region(cursor) = {} /\ object = 0)
        /\ reply' = [ok |-> ok, region |-> mach_vm_region(cursor), object |-> object]
        /\ rights' = rights + object
  BY <1>2 DEF AppleQuery
<1>4. /\ walk.at = "walk" /\ walk' = [walk EXCEPT !.at = "answered"]
      /\ UNCHANGED <<space, modules, cursor, passes, gathered, todo, odd, steady,
                     unlisted, told>>
  BY <1>2 DEF AppleQuery
<1>5. walk \in [at : {"walk", "answered", "judge", "modules"},
                platform : Platforms, purpose : Purposes, pages : 0 .. Top]
  BY <1>4 DEF WalkInv, Idle
<1>6. /\ walk' \in [at : {"walk", "answered", "judge", "modules"},
                    platform : Platforms, purpose : Purposes, pages : 0 .. Top]
      /\ walk'.at = "answered" /\ walk'.purpose = walk.purpose
      /\ walk'.pages = walk.pages /\ walk'.platform = walk.platform
  BY <1>4, <1>5
<1>7. rights' = object
  <2>1. rights = 0
    BY <1>4 DEF WalkInv, ReplyIsReal, NoReply
  <2> QED BY <1>3, <2>1
<1>8. ReplyIsReal'
  <2>1. /\ rights' = reply'.object /\ reply'.object \in {0, 1}
        /\ ~reply'.ok => reply'.object = 0
        /\ reply'.region = mach_vm_region(cursor)
    BY <1>3, <1>7
  <2>2. ASSUME NEW run \in mach_vm_region(cursor) PROVE IsNextRun(run)' /\ run.is # FREE
    <3>1. IsNextRun(run) /\ run.is # FREE
      BY AppleRun
    <3> QED BY <1>4, <3>1 DEF IsNextRun
  <2>3. ASSUME mach_vm_region(cursor) = {}
        PROVE  \A p \in steady : p >= cursor => space[p] = FREE
    BY <1>1, <2>3, AppleNone
  <2>4. ASSUME walk.purpose = "mapped", RangeStands'
        PROVE  \E range \in mach_vm_region(cursor) : Inside(range)'
    <3>1. walk.pages \in Nat \ {0}
      BY <1>1, <1>5, <2>4 DEF WalkInv
    <3>2. RangeStands
      BY <1>4, <1>6, <2>4 DEF RangeStands
    <3>3. \E range \in mach_vm_region(cursor) : Inside(range)
      BY <3>1, <3>2, AppleInside
    <3> QED BY <1>4, <1>6, <3>3 DEF Inside
  <2> QED BY <1>4, <1>6, <2>1, <2>2, <2>3, <2>4 DEF ReplyIsReal
<1>9. WalkTypeOK'
  BY <1>4, <1>6 DEF WalkInv, WalkTypeOK
<1>10. RegionsAreReal' /\ JudgedIsKnown'
  BY <1>4, <1>6 DEF WalkInv, RegionsAreReal, JudgedIsKnown
<1>11. WalkedIsGathered'
  BY <1>4, <1>6 DEF WalkInv, WalkedIsGathered, Covers, Walks
<1> QED BY <1>4, <1>6, <1>8, <1>9, <1>10, <1>11 DEF WalkInv

\* The release takes back exactly the name that came with the answer: a call that
\* failed brought none (sys/regions.rs:114, 171).
LEMMA NameGivenBack == WalkInv => rights - Released(reply) = 0
BY DEF WalkInv, ReplyIsReal, Released

\* What is done with an answer, and each call of VirtualQuery(), goes on with the
\* next run, or finds none and ends, and holds no name after it
\* (sys/regions.rs:171-210, sys/memory.rs:211-267).
LEMMA WalkStepCases ==
  ASSUME WalkInv, AppleExecutable \/ WindowsExecutable
  PROVE  /\ Walks /\ rights' = 0 /\ reply' = NoReply /\ UNCHANGED <<space, modules>>
         /\ \/ \E run : IsNextRun(run) /\ Advance(run)
            \/ Finish /\ \A p \in steady : p >= cursor => space[p] = FREE
<1>1. /\ Top \in Nat \ {0} /\ MAX_PASSES \in Nat /\ MAX_PASSES > Top
      /\ cursor \in 0 .. Top /\ passes \in 0 .. Top /\ steady \subseteq Addresses
  BY WalkAssumption DEF WalkInv, WalkTypeOK
<1>2. passes < MAX_PASSES
  BY <1>1
<1>3. CASE AppleExecutable
  <2>1. /\ walk.at = "answered" /\ walk.purpose # "mapped"
        /\ UNCHANGED <<space, modules>> /\ reply' = NoReply
        /\ rights' = rights - Released(reply)
        /\ \/ \E run \in reply.region : Advance(run)
           \/ reply.region = {} /\ Finish
    BY <1>3 DEF AppleExecutable
  <2>2. rights' = 0
    BY <2>1, NameGivenBack
  <2>3. /\ \A run \in reply.region : IsNextRun(run)
        /\ reply.region = {} => \A p \in steady : p >= cursor => space[p] = FREE
    BY <2>1 DEF WalkInv, ReplyIsReal
  <2> QED BY <2>1, <2>2, <2>3 DEF Walks
<1>4. CASE WindowsExecutable
  <2>1. /\ walk.at = "walk" /\ walk.platform = "windows"
        /\ UNCHANGED <<space, modules, rights, reply>>
        /\ \/ \E run \in VirtualQuery(cursor) : Advance(run)
           \/ VirtualQuery(cursor) = {} /\ Finish
    BY <1>2, <1>4 DEF WindowsExecutable
  <2>2. ASSUME VirtualQuery(cursor) = {}, NEW p \in steady, p >= cursor
        PROVE  space[p] = FREE
    <3>1. cursor >= Top
      BY <2>2 DEF VirtualQuery
    <3> QED BY <1>1, <2>2, <3>1 DEF Addresses
  <2>3. Walks /\ rights = 0 /\ reply = NoReply
    BY <2>1 DEF WalkInv, ReplyIsReal, NoReply, Walks
  <2> QED BY <1>1, <2>1, <2>2, <2>3, WindowsRun
<1> QED BY <1>3, <1>4

\* Every step of a walk, and every change of the space under it.
LEMMA WalkNextKeeps == WalkInv /\ [WalkNext]_walkVars => WalkInv'
<1> SUFFICES ASSUME WalkInv, [WalkNext]_walkVars PROVE WalkInv'
  OBVIOUS
<1>0. Top \in Nat \ {0} /\ 0 \in 0 .. Top
  BY WalkAssumption
<1>1. CASE AppleCodeRegions \/ WindowsCodeRegions \/ WindowsCodeOrigin \/ WindowsImageCatalog
  BY <1>0, <1>1, BeginKeeps
     DEF AppleCodeRegions, WindowsCodeRegions, WindowsCodeOrigin, WindowsImageCatalog,
         Platforms, Purposes
<1>2. CASE AppleExecutable \/ WindowsExecutable
  BY <1>2, WalkStepCases, AdvanceKeeps, FinishKeeps
<1>3. CASE JudgeRegion
  BY <1>3, JudgeKeeps
<1>4. CASE ModuleBases
  <2>1. /\ walk.at = "modules" /\ UNCHANGED <<space, modules, rights, reply>>
        /\ rights = 0 /\ reply = NoReply /\ \E a : Return(a)
    BY <1>4 DEF ModuleBases, WalkInv, ReplyIsReal, NoReply
  <2> QED BY <2>1, ReturnKeeps
<1>5. ASSUME NEW p \in Addresses, NEW kind \in Kinds, ChangePage(p, kind) PROVE WalkInv'
  BY <1>5, ChangePageKeeps
<1>6. ASSUME NEW m \in Loadable, ListModule(m) PROVE WalkInv'
  BY <1>6, ListModuleKeeps
<1>7. CASE AppleQuery
  BY <1>7, QueryKeeps
<1>8. CASE AppleMapped
  <2>1. /\ walk.at = "answered" /\ UNCHANGED <<space, modules>> /\ reply' = NoReply
        /\ rights' = rights - Released(reply) /\ \E a : Return(a)
    BY <1>8 DEF AppleMapped
  <2> QED BY <2>1, NameGivenBack, ReturnKeeps
<1>9. CASE AppleMappedRange
  <2>0. PICK address \in Addresses :
          \E pages \in 1 .. Top - address : Begin("apple", "mapped", address, pages)
    BY <1>9 DEF AppleMappedRange
  <2>1. PICK pages \in 1 .. Top - address : Begin("apple", "mapped", address, pages)
    BY <2>0
  <2>2. address \in 0 .. Top /\ pages \in 0 .. Top /\ pages # 0
    BY <1>0, <2>1 DEF Addresses
  <2> QED BY <2>1, <2>2, BeginKeeps DEF Platforms, Purposes
<1>10. CASE UNCHANGED walkVars
  BY <1>10 DEF walkVars, WalkInv, WalkTypeOK, RegionsAreReal, WalkedIsGathered,
               JudgedIsKnown, Covers, ReplyIsReal, IsNextRun, RangeStands, Inside, Walks
<1> QED BY <1>1, <1>2, <1>3, <1>4, <1>5, <1>6, <1>7, <1>8, <1>9, <1>10
        DEF WalkNext, WalkStep

\* Every name that the kernel moves into the task, with an answer for the walk or for
\* mapped(), is back before the next call or the return, for every address space and
\* also where the answer ends the walk (sys/regions.rs:114, 171-182).
THEOREM NamesReleased == WalkSpec => []NoNameKept
<1>1. WalkSpec => []WalkInv
  BY WalkInitHolds, WalkNextKeeps, PTL DEF WalkSpec
<1>2. WalkInv => NoNameKept
  BY DEF WalkInv, ReplyIsReal, NoReply, NoNameKept
<1> QED BY <1>1, <1>2, PTL

\* A walk that ends has every page of code that kept its place.
LEMMA WalkFindsSteady == WalkInv /\ [WalkNext]_walkVars => SteadyCodeFound
<1> SUFFICES ASSUME WalkInv, [WalkNext]_walkVars, Walks, ~Walks',
                    NEW p \in steady, space[p] \in Code
             PROVE  \E r \in gathered : Covers(r, p)
  BY DEF SteadyCodeFound
<1>1. AppleExecutable \/ WindowsExecutable
  <2>1. walk' # walk /\ walk.at \in {"walk", "answered"} /\ walk # Idle
    BY DEF Walks, Idle
  <2>2. ~AppleQuery
    <3> SUFFICES ASSUME AppleQuery PROVE FALSE
      OBVIOUS
    <3>1. passes < MAX_PASSES
      BY WalkAssumption DEF WalkInv, WalkTypeOK
    <3>2. walk' = [walk EXCEPT !.at = "answered"]
      BY <3>1 DEF AppleQuery
    <3>3. walk \in [at : {"walk", "answered", "judge", "modules"},
                    platform : Platforms, purpose : Purposes, pages : 0 .. Top]
      BY <2>1 DEF WalkInv
    <3> QED BY <3>2, <3>3 DEF Walks
  <2>3. ~(AppleCodeRegions \/ WindowsCodeRegions \/ WindowsCodeOrigin
            \/ WindowsImageCatalog \/ AppleMappedRange)
    BY <2>1 DEF AppleCodeRegions, WindowsCodeRegions, WindowsCodeOrigin,
                WindowsImageCatalog, AppleMappedRange, Begin
  <2>4. ~AppleMapped /\ ~JudgeRegion /\ ~ModuleBases
    BY DEF AppleMapped, JudgeRegion, ModuleBases, Walks
  <2>5. ~(\E q \in Addresses, kind \in Kinds : ChangePage(q, kind))
    BY <2>1 DEF ChangePage
  <2>6. ~(\E m \in Loadable \ {"main"} : ListModule(m)) /\ ~UNCHANGED walkVars
    BY <2>1 DEF ListModule, walkVars
  <2> QED BY <2>2, <2>3, <2>4, <2>5, <2>6 DEF WalkNext, WalkStep
<1>2. ~(\E run : Advance(run))
  <2> SUFFICES ASSUME NEW run, Advance(run) PROVE FALSE
    OBVIOUS
  <2>1. walk' = [walk EXCEPT !.at = "walk"]
    BY DEF Advance
  <2>2. walk \in [at : {"walk", "answered", "judge", "modules"},
                  platform : Platforms, purpose : Purposes, pages : 0 .. Top]
    BY DEF WalkInv, Walks, Idle
  <2> QED BY <2>1, <2>2 DEF Walks
<1>3. \A q \in steady : q >= cursor => space[q] = FREE
  BY <1>1, <1>2, WalkStepCases
<1>4. p \in Addresses /\ p \in Nat /\ cursor \in Nat
  BY WalkAssumption DEF WalkInv, WalkTypeOK, Addresses
<1>5. space[p] # FREE
  BY DEF Code, FREE
<1>6. p < cursor
  BY <1>3, <1>4, <1>5
<1> QED BY <1>6 DEF WalkInv, WalkedIsGathered

\* What mapped() answers is true of every page that kept its contents
\* (sys/regions.rs:83-124).
LEMMA WalkAnswersRange == WalkInv => RangeAnswered
<1> SUFFICES ASSUME WalkInv, AppleMapped
             PROVE  /\ told'.is = "Mapped" =>
                         \A p \in steady : cursor <= p /\ p < cursor + walk.pages
                                             => space[p] # FREE
                    /\ RangeStands => told'.is = "Mapped"
  BY DEF RangeAnswered
<1>1. /\ walk.at = "answered" /\ walk.purpose = "mapped"
      /\ told'.is = IF \E range \in reply.region : Inside(range) THEN "Mapped"
                    ELSE "NotMapped"
  BY DEF AppleMapped, Return
<1>2. RangeStands => told'.is = "Mapped"
  BY <1>1 DEF WalkInv, ReplyIsReal
<1>3. ASSUME told'.is = "Mapped", NEW p \in steady, cursor <= p, p < cursor + walk.pages
      PROVE  space[p] # FREE
  <2>1. PICK range \in reply.region : Inside(range)
    BY <1>1, <1>3
  <2>2. IsNextRun(range) /\ range.is # FREE
    BY <1>1 DEF WalkInv, ReplyIsReal
  <2>3. /\ p \in Nat /\ cursor \in Nat /\ walk.pages \in Nat
        /\ range.start \in Nat /\ range.end \in Nat
    BY <1>1, <2>2, WalkAssumption DEF WalkInv, WalkTypeOK, Idle, IsNextRun, Addresses
  <2>4. range.start <= p /\ p < range.end
    BY <1>3, <2>1, <2>3 DEF Inside
  <2> QED BY <2>2, <2>4 DEF IsNextRun
<1> QED BY <1>2, <1>3

\* What a call reports as accounted was looked at after the walk, region by region
\* (injection.rs:27, image_catalog.rs:22).
LEMMA WalkReportsSteady == WalkInv => SteadyCodeReported
<1> SUFFICES ASSUME WalkInv, NEW run \in gathered,
                    run.start .. run.end - 1 \subseteq steady
             PROVE  /\ JudgeRegion /\ told'.is = "Accounted" =>
                         run.is.holds \notin {"anon", "private"}
                    /\ ModuleBases /\ told'.is = "Accounted" =>
                         run.is.holds \notin unlisted
  BY DEF SteadyCodeReported
<1>1. ASSUME JudgeRegion, told'.is = "Accounted", run.is.holds \in {"anon", "private"}
      PROVE  FALSE
  <2>1. PICK r \in todo :
          \/ /\ todo \ {r} = {}
             /\ Return(IF odd \/ ~accounted(r) THEN "Unaccounted" ELSE "Accounted")
          \/ UNCHANGED told
    BY <1>1 DEF JudgeRegion, Remaining
  <2>2. walk.at = "judge" /\ told.is = "none"
    BY <1>1 DEF JudgeRegion, WalkInv, NotTold
  <2>3. todo = {r} /\ ~odd /\ accounted(r)
    BY <1>1, <2>1, <2>2 DEF Return
  <2>4. CASE run = r
    BY <1>1, <2>3, <2>4, StrangeIsSeen
  <2>5. CASE run # r
    BY <1>1, <2>2, <2>3, <2>5 DEF WalkInv, JudgedIsKnown
  <2> QED BY <2>4, <2>5
<1>2. ASSUME ModuleBases, told'.is = "Accounted", run.is.holds \in unlisted
      PROVE  FALSE
  <2>1. Unregistered(modules) = {}
    BY <1>2 DEF ModuleBases, Return
  <2>2. run.is.holds \in Loadable \ modules
    BY <1>2 DEF WalkInv, WalkTypeOK
  <2> QED BY <2>1, <2>2 DEF Unregistered
<1> QED BY <1>1, <1>2

\* Code that was there for the whole call is seen and judged, and a range is called
\* mapped when it was, for every address space and every number of pages: no mapping
\* that comes, goes or splits between two calls of the kernel hides it
\* (sys/memory.rs:211-267, sys/regions.rs:83-210).
THEOREM SteadyCode == WalkSpec => SteadyCodeSeen
<1>1. WalkSpec => []WalkInv
  BY WalkInitHolds, WalkNextKeeps, PTL DEF WalkSpec
<1>2. WalkInv /\ [WalkNext]_walkVars
        => [SteadyCodeFound /\ SteadyCodeReported /\ RangeAnswered]_walkVars
  BY WalkFindsSteady, WalkReportsSteady, WalkAnswersRange
<1> QED BY <1>1, <1>2, PTL DEF WalkSpec, SteadyCodeSeen

-----------------------------------------------------------------------------
(* All components of a scan, side by side.                                 *)

\* A step of one component is a step of it and leaves the others alone.
LEMMA SidesApart ==
  [MCNext]_MCVars =>
    /\ [Next]_vars /\ [DispatchNext]_dispatchVars /\ [AgentNext]_agentVars
    /\ [SetNext]_setVars /\ [ProcNext]_procVars /\ [WalkNext]_walkVars
<1> SUFFICES ASSUME [MCNext]_MCVars
             PROVE  /\ [Next]_vars /\ [DispatchNext]_dispatchVars /\ [AgentNext]_agentVars
                    /\ [SetNext]_setVars /\ [ProcNext]_procVars /\ [WalkNext]_walkVars
  OBVIOUS
<1>1. CASE UNCHANGED MCVars
  BY <1>1 DEF MCVars
<1>2. CASE MCNext
  BY <1>2 DEF MCNext
<1> QED BY <1>1, <1>2

\* Whatever a scan reads, compares or walks, and wherever the process, the peer or
\* the platform moves in between, every component keeps the values its readers
\* expect and the account of the part that it has passed (fact/baseline.rs:115-175,
\* fact/dispatch.rs:120-140, local_agent.rs:85-107, detect/src/lib.rs:194-230,
\* procfs/maps.rs:260-278, sys/regions.rs:143-210, sys/memory.rs:211-267).
THEOREM ScanKept == MCSpec => []DetectionInv
<1>1. MCInit => Init /\ DispatchInit /\ AgentInit /\ SetInit /\ ProcInit /\ WalkInit
  BY DEF MCInit
<1>2. MCSpec => Spec
  BY <1>1, SidesApart, PTL DEF MCSpec, Spec
<1>3. MCSpec => DispatchSpec
  BY <1>1, SidesApart, PTL DEF MCSpec, DispatchSpec
<1>4. MCSpec => [](TypeOK /\ LoopInv)
  BY <1>2, RegionTypeCorrect, LoopsExact, PTL
<1>5. MCSpec => [](DispatchTypeOK /\ RedirectedInv)
  BY <1>3, TargetTypeCorrect, LoopExact, PTL
<1>6. MCSpec => []AgentInv
  BY <1>1, SidesApart, AgentInitHolds, AgentStepKeeps, PTL DEF MCSpec
<1>7. MCSpec => []SetInv
  BY <1>1, SidesApart, SetInitHolds, SetStepKeeps, PTL DEF MCSpec
<1>8. MCSpec => [](ProcInv /\ ProcTypeOK)
  BY <1>1, SidesApart, ProcInitHolds, ProcInitTyped, ProcStepKeeps, ProcStepTyped, PTL
     DEF MCSpec
<1>9. MCSpec => []WalkInv
  BY <1>1, SidesApart, WalkInitHolds, WalkNextKeeps, PTL DEF MCSpec
<1> QED BY <1>4, <1>5, <1>6, <1>7, <1>8, <1>9, PTL DEF DetectionInv
=============================================================================

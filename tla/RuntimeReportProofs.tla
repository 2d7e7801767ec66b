------------------------- MODULE RuntimeReportProofs -------------------------
(***************************************************************************)
(* The responses of Runtime, for any hosts, detectors, policies and probe  *)
(* answers, when no panic escapes the worker: ReportInv is inductive, and  *)
(* from it every denial is explained and takes effect, and no Crash is     *)
(* lost between the slot that shows its finding and the abort.             *)
(***************************************************************************)
EXTENDS RuntimeSafety, RuntimeReports

(***************************************************************************)
(* Slots, policy entries and reports.                                      *)
(***************************************************************************)

\* The strongest finding of a slot stays, or a strictly stronger one takes its
\* place (state.rs:27-43).
LEMMA StrongestKept ==
  ASSUME NEW slot \in Slot, NEW outcome \in Outcome
  PROVE  \/ /\ SlotRecord(slot, outcome).strongest = slot.strongest
            /\ IsFinding(outcome) =>
                 \E held \in slot.strongest :
                   held.strength >= outcome.finding.strength
         \/ /\ IsFinding(outcome)
            /\ SlotRecord(slot, outcome).strongest = {outcome.finding}
            /\ \A held \in slot.strongest :
                 outcome.finding.strength > held.strength
<1>1. CASE ~IsFinding(outcome)
  BY <1>1 DEF SlotRecord, Slot
<1>2. CASE IsFinding(outcome)
  <2>1. outcome.finding \in Finding
    BY <1>2 DEF IsFinding, Outcome
  <2>2. \A held \in slot.strongest : held.strength \in Nat
    BY DEF Slot, Finding, SignalStrength, Low, High
  <2>3. outcome.finding.strength \in Nat
    BY <2>1 DEF Finding, SignalStrength, Low, High
  <2>4. QED
    BY <1>2, <2>2, <2>3 DEF SlotRecord
<1>3. QED
  BY <1>1, <1>2

\* The policy entry of a detector is an entry (policy.rs:14-40).
LEMMA EntryType ==
  ASSUME TypeOK, NEW d \in Detectors
  PROVE  /\ Entry(runtime, d).action \in Actions
         /\ Entry(runtime, d).threshold \in Nat
         /\ Entry(runtime, d) = config[runtime].policy[CategoryOf[d]]
<1>1. config[runtime].policy \in Policy
  BY RuntimeAssumption DEF TypeOK, Config
<1>2. CategoryOf[d] \in Categories
  BY DetectorAssumption
<1>3. QED
  BY <1>1, <1>2 DEF Entry, Policy, SignalStrength, Low, High

\* Recording an outcome of a detector changes what that detector shows only:
\* it qualifies if it did before or if the outcome reaches the threshold, and
\* a Crash becomes due only by an outcome about the environment that does
\* (state.rs:27-43, 93-99).
LEMMA RecordShows ==
  ASSUME TypeOK, NEW d \in Detectors, NEW outcome \in Outcome,
         UNCHANGED <<runtime, config>>,
         eng' = [eng EXCEPT ![runtime] = StateRecord(@, d, outcome)]
  PROVE  /\ eng'[runtime].latched = eng[runtime].latched
         /\ eng'[runtime].hostLatched = eng[runtime].hostLatched
         /\ \A e \in Detectors :
              /\ Entry(runtime, e)' = Entry(runtime, e)
              /\ Qualifies(runtime, e) => Qualifies(runtime, e)'
              /\ e # d => /\ Qualifies(runtime, e)' <=> Qualifies(runtime, e)
                          /\ CrashDue(runtime, e)' <=> CrashDue(runtime, e)
         /\ IsFinding(outcome)
              /\ Reaches(outcome.finding.strength, Entry(runtime, d).threshold)
              => Qualifies(runtime, d)'
         /\ Qualifies(runtime, d)' /\ ~Qualifies(runtime, d) =>
              /\ IsFinding(outcome)
              /\ Reaches(outcome.finding.strength, Entry(runtime, d).threshold)
         /\ CrashDue(runtime, d)' /\ ~CrashDue(runtime, d) =>
              /\ IsFinding(outcome) /\ ~outcome.finding.health
              /\ Reaches(outcome.finding.strength, Entry(runtime, d).threshold)
<1>1. runtime \in Runtimes /\ eng[runtime] \in State
  BY DEF TypeOK
<1>2. /\ eng'[runtime] = StateRecord(eng[runtime], d, outcome)
  BY <1>1 DEF TypeOK
<1>3. /\ eng'[runtime].latched = eng[runtime].latched
      /\ eng'[runtime].hostLatched = eng[runtime].hostLatched
      /\ \A e \in Detectors \ {d} :
           eng'[runtime].slots[e] = eng[runtime].slots[e]
      /\ eng'[runtime].slots[d] = SlotRecord(eng[runtime].slots[d], outcome)
  BY <1>1, <1>2 DEF StateRecord, State
<1>4. \A e \in Detectors : Entry(runtime, e)' = Entry(runtime, e)
  BY DEF Entry
<1>5. \A e \in Detectors \ {d} :
        /\ Qualifies(runtime, e)' <=> Qualifies(runtime, e)
        /\ CrashDue(runtime, e)' <=> CrashDue(runtime, e)
  BY <1>3, <1>4 DEF Qualifies, CrashDue
<1> DEFINE old == eng[runtime].slots[d].strongest
           new == eng'[runtime].slots[d].strongest
           limit == Entry(runtime, d).threshold
<1>6. \/ /\ new = old
         /\ IsFinding(outcome) =>
              \E held \in old : held.strength >= outcome.finding.strength
      \/ /\ IsFinding(outcome) /\ new = {outcome.finding}
         /\ \A held \in old : outcome.finding.strength > held.strength
  <2>1. eng[runtime].slots[d] \in Slot
    BY <1>1 DEF State
  <2>2. QED
    BY <1>3, <2>1, StrongestKept
<1>7. /\ limit \in Nat
      /\ \A held \in old : held.strength \in Nat
      /\ IsFinding(outcome) => outcome.finding.strength \in Nat
  <2>1. old \subseteq Finding
    BY <1>1 DEF State, Slot
  <2>2. IsFinding(outcome) => outcome.finding \in Finding
    BY DEF IsFinding, Outcome
  <2>3. QED
    BY <2>1, <2>2, EntryType DEF Finding, SignalStrength, Low, High
<1>8. /\ Qualifies(runtime, d) <=> \E held \in old : held.strength >= limit
      /\ Qualifies(runtime, d)' <=> \E held \in new : held.strength >= limit
      /\ CrashDue(runtime, d) <=>
           /\ Entry(runtime, d).action = "Crash"
           /\ \E held \in old : held.strength >= limit /\ ~held.health
      /\ CrashDue(runtime, d)' <=>
           /\ Entry(runtime, d).action = "Crash"
           /\ \E held \in new : held.strength >= limit /\ ~held.health
  BY <1>4 DEF Qualifies, CrashDue, Reaches
<1> HIDE DEF old, new, limit
<1>9. Qualifies(runtime, d) => Qualifies(runtime, d)'
  BY <1>6, <1>7, <1>8
<1>10. IsFinding(outcome) /\ outcome.finding.strength >= limit
         => Qualifies(runtime, d)'
  BY <1>6, <1>7, <1>8
<1>11. Qualifies(runtime, d)' /\ ~Qualifies(runtime, d) =>
         IsFinding(outcome) /\ outcome.finding.strength >= limit
  BY <1>6, <1>8
<1>12. CrashDue(runtime, d)' /\ ~CrashDue(runtime, d) =>
         /\ IsFinding(outcome) /\ ~outcome.finding.health
         /\ outcome.finding.strength >= limit
  BY <1>6, <1>8
<1>13. QED
  BY <1>3, <1>4, <1>5, <1>9, <1>10, <1>11, <1>12 DEF Reaches, limit

\* What a runtime shows of its detectors depends on its slots and its policy
\* only.
LEMMA ShowsKept ==
  ASSUME runtime' = runtime, config'[runtime] = config[runtime],
         eng'[runtime].slots = eng[runtime].slots, NEW d
  PROVE  /\ Entry(runtime, d)' = Entry(runtime, d)
         /\ Qualifies(runtime, d)' <=> Qualifies(runtime, d)
         /\ CrashDue(runtime, d)' <=> CrashDue(runtime, d)
BY DEF Entry, Qualifies, CrashDue

\* An empty queue holds nothing, another report adds what it holds, and what
\* is done takes away what it held.
LEMMA HoldsOf ==
  /\ \A d : ~Holds(<<>>, d)
  /\ \A d : \A reports \in Seq(Report), report \in Report :
       Holds(Append(reports, report), d) <=>
         \/ Holds(reports, d)
         \/ report.action = "Crash" /\ report.finding.detector = d
  /\ \A d : \A reports \in Seq(Report) :
       reports # <<>> /\ Head(reports).action # "Crash" /\ Holds(reports, d)
         => Holds(Tail(reports), d)
<1>1. \A d : ~Holds(<<>>, d)
  BY DEF Holds
<1>2. ASSUME NEW reports \in Seq(Report), NEW report \in Report, NEW d
      PROVE  Holds(Append(reports, report), d) <=>
               \/ Holds(reports, d)
               \/ report.action = "Crash" /\ report.finding.detector = d
  <2> DEFINE more == Append(reports, report)
             n == Len(reports)
  <2>1. /\ n \in Nat /\ DOMAIN reports = 1 .. n /\ DOMAIN more = 1 .. (n + 1)
        /\ \A i \in 1 .. n : more[i] = reports[i]
        /\ more[n + 1] = report
    OBVIOUS
  <2> HIDE DEF more, n
  <2>2. (\E i \in 1 .. (n + 1) :
           more[i].action = "Crash" /\ more[i].finding.detector = d) <=>
          \/ \E i \in 1 .. n :
               reports[i].action = "Crash" /\ reports[i].finding.detector = d
          \/ report.action = "Crash" /\ report.finding.detector = d
    BY <2>1
  <2>3. QED
    BY <2>1, <2>2 DEF Holds, more
<1>3. ASSUME NEW reports \in Seq(Report), NEW d, reports # <<>>,
             Head(reports).action # "Crash", Holds(reports, d)
      PROVE  Holds(Tail(reports), d)
  <2> DEFINE rest == Tail(reports)
             n == Len(reports)
  <2>1. /\ n \in Nat /\ n > 0 /\ DOMAIN reports = 1 .. n
        /\ DOMAIN rest = 1 .. (n - 1)
        /\ \A i \in 1 .. (n - 1) : rest[i] = reports[i + 1]
        /\ Head(reports) = reports[1]
    BY <1>3
  <2> HIDE DEF rest, n
  <2>2. PICK i \in 1 .. n :
          reports[i].action = "Crash" /\ reports[i].finding.detector = d
    BY <1>3, <2>1 DEF Holds
  <2>3. i - 1 \in 1 .. (n - 1) /\ rest[i - 1] = reports[i]
    BY <1>3, <2>1, <2>2
  <2>4. QED
    BY <2>1, <2>2, <2>3 DEF Holds, rest
<1>4. QED
  BY <1>1, <1>2, <1>3

\* What each of a sequence of reports is, each of its rest is, and each of the
\* sequence and one more such report.
LEMMA ReportsOf ==
  /\ \A policy : Answers(policy, <<>>) /\ FromHost(<<>>)
  /\ \A policy : \A reports \in Seq(Report), report \in Report :
       /\ Answers(policy, reports) /\ Answers(policy, <<report>>)
            => Answers(policy, Append(reports, report))
       /\ FromHost(reports) /\ FromHost(<<report>>)
            => FromHost(Append(reports, report))
  /\ \A policy : \A reports \in Seq(Report) :
       reports # <<>> => /\ Answers(policy, reports)
                              => Answers(policy, Tail(reports))
                         /\ FromHost(reports) => FromHost(Tail(reports))
<1>1. \A policy : Answers(policy, <<>>) /\ FromHost(<<>>)
  BY DEF Answers, FromHost
<1>2. ASSUME NEW policy, NEW reports \in Seq(Report), NEW report \in Report
      PROVE  /\ Answers(policy, reports) /\ Answers(policy, <<report>>)
                  => Answers(policy, Append(reports, report))
             /\ FromHost(reports) /\ FromHost(<<report>>)
                  => FromHost(Append(reports, report))
  <2> DEFINE more == Append(reports, report)
             one == <<report>>
             n == Len(reports)
  <2>1. /\ n \in Nat /\ DOMAIN reports = 1 .. n /\ DOMAIN more = 1 .. (n + 1)
        /\ \A i \in 1 .. n : more[i] = reports[i]
        /\ more[n + 1] = report
        /\ DOMAIN one = {1} /\ one[1] = report
    OBVIOUS
  <2> HIDE DEF more, one, n
  <2>2. \A i \in DOMAIN more :
          \/ i \in DOMAIN reports /\ more[i] = reports[i]
          \/ 1 \in DOMAIN one /\ more[i] = one[1]
    BY <2>1
  <2>3. Answers(policy, reports) /\ Answers(policy, one)
          => Answers(policy, more)
    BY <2>2 DEF Answers
  <2>4. FromHost(reports) /\ FromHost(one) => FromHost(more)
    BY <2>2 DEF FromHost
  <2>5. QED
    BY <2>3, <2>4 DEF more, one
<1>3. ASSUME NEW policy, NEW reports \in Seq(Report), reports # <<>>
      PROVE  /\ Answers(policy, reports) => Answers(policy, Tail(reports))
             /\ FromHost(reports) => FromHost(Tail(reports))
  <2>1. \A i \in DOMAIN Tail(reports) :
          i + 1 \in DOMAIN reports /\ Tail(reports)[i] = reports[i + 1]
    BY <1>3
  <2>2. QED
    BY <2>1 DEF Answers, FromHost
<1>4. QED
  BY <1>1, <1>2, <1>3

\* What each outcome that a call still has to record is, each of the rest is.
LEMMA OutcomesOf ==
  ASSUME NEW outcomes \in Seq(Observed), outcomes # <<>>
  PROVE  /\ Named(outcomes) =>
              /\ Named(Tail(outcomes))
              /\ IsFinding(Head(outcomes).outcome) =>
                   Head(outcomes).outcome.finding.detector
                     = Head(outcomes).detector
         /\ Observations(outcomes) =>
              /\ Observations(Tail(outcomes))
              /\ IsFinding(Head(outcomes).outcome)
              /\ Head(outcomes).detector = HostReport
              /\ ~Head(outcomes).outcome.finding.health
<1>1. \A i \in DOMAIN Tail(outcomes) :
        i + 1 \in DOMAIN outcomes /\ Tail(outcomes)[i] = outcomes[i + 1]
  OBVIOUS
<1>2. 1 \in DOMAIN outcomes /\ Head(outcomes) = outcomes[1]
  OBVIOUS
<1>3. QED
  BY <1>1, <1>2 DEF Named, Observations

\* The queue takes reports of the host, and a Crash is never dropped without
\* another one in the queue: a queue without room holds reports of the same
\* detector, which the policy answers alike (pending.rs:77-84).
LEMMA QueueTakes ==
  ASSUME NEW policy, NEW queue \in Seq(Report), NEW reports \in Seq(Report),
         Len(queue) <= MOST_REPORTS,
         Answers(policy, queue), FromHost(queue),
         Answers(policy, reports), FromHost(reports)
  PROVE  /\ Answers(policy, PendingAdd(queue, reports))
         /\ FromHost(PendingAdd(queue, reports))
         /\ \A d : Holds(queue, d) \/ Holds(reports, d)
                     => Holds(PendingAdd(queue, reports), d)
<1> DEFINE n == Len(queue)
           m == IF Len(reports) <= MOST_REPORTS - n
                THEN Len(reports) ELSE MOST_REPORTS - n
           more == PendingAdd(queue, reports)
<1>1. /\ n \in Nat /\ m \in Nat /\ m <= Len(reports) /\ Len(reports) \in Nat
      /\ DOMAIN queue = 1 .. n /\ DOMAIN reports = 1 .. Len(reports)
      /\ n = 0 /\ Len(reports) > 0 => m > 0
      /\ n > 0 \/ m > 0 \/ Len(reports) = 0
  BY MostReportsAssumption
<1>2. /\ SubSeq(reports, 1, m) \in Seq(Report)
      /\ Len(SubSeq(reports, 1, m)) = m
      /\ \A i \in 1 .. m : SubSeq(reports, 1, m)[i] = reports[i]
  BY <1>1
<1>3. more = queue \o SubSeq(reports, 1, m)
  BY DEF PendingAdd
<1> HIDE DEF m, n, more
<1>4. /\ DOMAIN more = 1 .. (n + m)
      /\ \A i \in 1 .. n : more[i] = queue[i]
      /\ \A i \in 1 .. m : more[n + i] = reports[i]
  BY <1>1, <1>2, <1>3 DEF n
<1>5. \A i \in DOMAIN more :
        \/ i \in DOMAIN queue /\ more[i] = queue[i]
        \/ i - n \in DOMAIN reports /\ more[i] = reports[i - n]
  <2>1. SUFFICES ASSUME NEW i \in 1 .. (n + m), i > n
                 PROVE  i - n \in DOMAIN reports /\ more[i] = reports[i - n]
    BY <1>1, <1>4
  <2>2. i - n \in 1 .. m /\ n + (i - n) = i
    BY <1>1, <2>1
  <2>3. QED
    BY <1>1, <1>4, <2>2
<1>6. Answers(policy, more)
  BY <1>5, SMTT(30) DEF Answers
<1>7. FromHost(more)
  BY <1>5 DEF FromHost
<1>8. ASSUME NEW d, Holds(queue, d) PROVE Holds(more, d)
  <2>1. PICK i \in 1 .. n :
          queue[i].action = "Crash" /\ queue[i].finding.detector = d
    BY <1>1, <1>8 DEF Holds
  <2>2. i \in DOMAIN more /\ more[i] = queue[i]
    BY <1>1, <1>4
  <2>3. QED
    BY <2>1, <2>2 DEF Holds
<1>9. ASSUME NEW d, Holds(reports, d) PROVE Holds(more, d)
  <2>1. PICK i \in DOMAIN reports :
          reports[i].action = "Crash" /\ reports[i].finding.detector = d
    BY <1>9 DEF Holds
  <2>2. d = HostReport /\ policy[CategoryOf[HostReport]].action = "Crash"
    BY <2>1 DEF Answers, FromHost
  <2>3. 1 \in DOMAIN more
    BY <1>1, <1>4, <2>1
  <2>4. more[1].action = "Crash" /\ more[1].finding.detector = d
    BY <1>6, <1>7, <2>2, <2>3 DEF Answers, FromHost
  <2>5. QED
    BY <2>3, <2>4 DEF Holds
<1>10. QED
  BY <1>6, <1>7, <1>8, <1>9 DEF more

(***************************************************************************)
(* Steps that move one thread.                                             *)
(***************************************************************************)

\* A step that moves one thread, and changes no slot, no queue and no report,
\* keeps every report where it is. It stands for the reads of a handle, for
\* the entry into the callback and for most ends of record()
\* (handle.rs:88-97, worker.rs:289-317).
LEMMA PcMove ==
  ASSUME TypeOK, ReportInv, OffInv', NEW t \in Threads, NEW label,
         pc' = [pc EXCEPT ![t] = label],
         UNCHANGED <<running, latched, scanDone, runtime, config, eng, pending,
                     call, work, phase, ready, crashed>>,
         pc[t] \notin BarePc, label \notin BarePc \cup {"await", "latching"},
         t = Worker => /\ label \notin {"off", "take", "scan", "mark"}
                       /\ pc[t] \notin {"off", "take", "scan", "mark"},
         pc[t] = "await" => ready,
         Scanning' <=> Scanning,
         InCallback' => Head(work).action = "Callback",
         \A h \in Hosts : Starting(h) => Starting(h)' \/ call[h].qualified = <<>>,
         label \in RecordPc \cup {"spawn", "enqueue"}
           \/ call[t].qualified = <<>>,
         label = "enqueue" => call[t].then = "enqueue"
  PROVE  ReportInv'
<1>a. /\ Hosts \subseteq Threads /\ Worker \in Threads /\ Worker \notin Hosts
  BY RuntimeAssumption DEF Threads
<1>b. pc'[t] = label /\ \A u \in Threads : u # t => pc'[u] = pc[u]
  BY DEF TypeOK
<1>c. Settled' <=> Settled
  BY <1>a, <1>b DEF Settled
<1>d. \A d : /\ Entry(runtime, d)' = Entry(runtime, d)
             /\ Qualifies(runtime, d)' <=> Qualifies(runtime, d)
             /\ CrashDue(runtime, d)' <=> CrashDue(runtime, d)
  BY ShowsKept
<1>1. OutcomesInv'
  BY DEF ReportInv, OutcomesInv
<1>2. CarriedInv'
  BY <1>b DEF ReportInv, CarriedInv
<1>3. QueuedInv'
  BY DEF ReportInv, QueuedInv
<1>4. WorkInv'
  BY <1>b DEF ReportInv, WorkInv
<1>5. DenyInv'
  BY <1>b, <1>c, <1>d DEF ReportInv, DenyInv
<1>6. CrashInv'
  BY <1>c, <1>d DEF ReportInv, CrashInv
<1>7. ReadyInv'
  BY <1>a, <1>b DEF ReportInv, ReadyInv
<1>8. InitialInv'
  <2>1. \A d : \A h \in Hosts :
          Starting(h) /\ Holds(call[h].qualified, d) => Starting(h)'
    BY HoldsOf
  <2>2. SUFFICES ASSUME Settled', ~crashed', phase' # "scan", ~scanDone',
                        ~Scanning', NEW i \in DOMAIN CheapScan,
                        CrashDue(runtime, CheapScan[i])'
                 PROVE  \/ phase' = "initial" /\ Holds(work', CheapScan[i])
                        \/ \E h \in Hosts :
                             /\ Starting(h)'
                             /\ Holds(call'[h].qualified, CheapScan[i])
    BY DEF InitialInv
  <2>3. CrashDue(runtime, CheapScan[i])
    BY <1>d, <2>2
  <2>4. \/ phase = "initial" /\ Holds(work, CheapScan[i])
        \/ \E h \in Hosts : Starting(h) /\ Holds(call[h].qualified, CheapScan[i])
    BY <1>c, <2>2, <2>3 DEF ReportInv, InitialInv
  <2>5. QED
    BY <2>1, <2>4
<1>9. QED
  BY <1>1, <1>2, <1>3, <1>4, <1>5, <1>6, <1>7, <1>8 DEF ReportInv

(***************************************************************************)
(* record().                                                               *)
(***************************************************************************)

\* A step inside record() leaves alone whatever is not about its own outcomes,
\* slots and reports (worker.rs:74-113).
LEMMA RecordMove ==
  ASSUME TypeOK, CallShape, SafeInv, ReportInv, NEW t \in Threads,
         pc[t] \in RecordPc, pc'[t] \in RecordPc,
         \A u \in Threads : u # t => pc'[u] = pc[u] /\ call'[u] = call[u],
         UNCHANGED <<running, scanDone, runtime, handles, config, pending,
                     work, phase, ready, crashed>>,
         call'[t].then = call[t].then,
         Named(call'[t].outcomes), Answers(config[runtime].policy,
                                           call'[t].qualified),
         call[t].then = "enqueue" => /\ Observations(call'[t].outcomes)
                                     /\ FromHost(call'[t].qualified)
  PROVE  /\ OffInv' /\ OutcomesInv' /\ CarriedInv' /\ QueuedInv' /\ WorkInv'
         /\ ReadyInv' /\ Settled /\ Settled'
         /\ Scanning' <=> Scanning
         /\ \A h \in Hosts : Starting(h)' <=> Starting(h)
<1> USE DEF BarePc, StartPc, RollbackPc, RecordPc, HandlePc
<1>a. /\ Hosts \subseteq Threads /\ Worker \in Threads /\ Worker \notin Hosts
  BY RuntimeAssumption DEF Threads
<1>1. Settled
  BY ActiveAlone DEF Settled
<1>2. Settled'
  BY <1>a, <1>1 DEF Settled
<1>3. \A h \in Hosts : Starting(h)' <=> Starting(h)
  BY <1>a DEF Starting
<1>4. (Scanning' <=> Scanning) /\ (InCallback' <=> InCallback)
  BY <1>a DEF Scanning, InCallback
<1>5. OffInv'
  BY <1>a DEF ReportInv, OffInv
<1>6. OutcomesInv'
  BY DEF ReportInv, OutcomesInv
<1>7. CarriedInv'
  BY DEF ReportInv, CarriedInv
<1>8. QueuedInv'
  BY DEF ReportInv, QueuedInv
<1>9. WorkInv'
  BY <1>a, <1>4 DEF ReportInv, WorkInv
<1>10. ReadyInv'
  BY <1>a DEF ReportInv, ReadyInv
<1>11. QED
  BY <1>1, <1>2, <1>3, <1>4, <1>5, <1>6, <1>7, <1>8, <1>9, <1>10

\* What the next outcome of a call does: it latches, it adds a report with the
\* action of its policy entry, or it is below its threshold or no finding at
\* all (worker.rs:83-110, policy.rs:85-95).
LEMMA OutcomeCases ==
  ASSUME TypeOK, SafeInv, ReportInv, NEW t \in Threads, RecordOutcome(t)
  PROVE  \E d \in Detectors, outcome \in Outcome :
           /\ call[t].outcomes # <<>>
           /\ d = Head(call[t].outcomes).detector
           /\ IsFinding(outcome) => outcome.finding.detector = d
           /\ call[t].then = "enqueue" =>
                /\ d = HostReport
                /\ IsFinding(outcome) /\ ~outcome.finding.health
           /\ eng' = [eng EXCEPT ![runtime] = StateRecord(@, d, outcome)]
           /\ LET entry == Entry(runtime, d)
                  reaching == /\ IsFinding(outcome)
                              /\ Reaches(outcome.finding.strength,
                                         entry.threshold)
              IN  \/ /\ reaching /\ entry.action = "Deny"
                     /\ latched' = latched \cup {CategoryOf[d]}
                     /\ call' = [call EXCEPT ![t].category = {CategoryOf[d]}]
                     /\ pc' = [pc EXCEPT ![t] = "latching"]
                  \/ /\ ~reaching /\ latched' = latched /\ pc' = pc
                     /\ call' = [call EXCEPT ![t].outcomes = Tail(@)]
                  \/ /\ reaching /\ entry.action # "Deny"
                     /\ latched' = latched /\ pc' = pc
                     /\ \E report \in Report :
                          /\ report.finding = outcome.finding
                          /\ report.action =
                               IF entry.action = "Crash"
                                    /\ outcome.finding.health
                               THEN "Report" ELSE entry.action
                          /\ call' = [call EXCEPT
                               ![t].outcomes = Tail(@),
                               ![t].qualified = Append(@, report)]
<1> DEFINE observed == Head(call[t].outcomes)
           d == observed.detector
           outcome == observed.outcome
           entry == Entry(runtime, d)
           reaching == /\ IsFinding(outcome)
                       /\ Reaches(outcome.finding.strength, entry.threshold)
           action == IF IsFinding(outcome)
                     THEN QualifyingAction(config[runtime].policy,
                                           outcome.finding)
                     ELSE {}
           report == [finding |-> outcome.finding,
                      action |-> CHOOSE a \in action : TRUE]
<1>1. pc[t] = "recording" /\ call[t].outcomes # <<>>
  BY DEF RecordOutcome
<1>2. call[t].runtime = runtime
  BY <1>1 DEF SafeInv, SlotInv, RecordPc
<1>3. call[t].outcomes \in Seq(Observed) /\ observed \in Observed
  BY <1>1, CallType
<1>4. d \in Detectors /\ outcome \in Outcome
  BY <1>3 DEF Observed
<1>5. /\ IsFinding(outcome) => outcome.finding.detector = d
      /\ call[t].then = "enqueue" =>
           d = HostReport /\ IsFinding(outcome) /\ ~outcome.finding.health
  BY <1>1, <1>3, OutcomesOf DEF ReportInv, OutcomesInv
<1>6. eng' = [eng EXCEPT ![runtime] = StateRecord(@, d, outcome)]
  BY <1>2 DEF RecordOutcome
<1>7. /\ entry = config[runtime].policy[CategoryOf[d]]
      /\ entry.action \in Actions
  BY <1>4, EntryType
<1>8. action = IF ~reaching THEN {}
               ELSE IF entry.action = "Crash" /\ outcome.finding.health
                    THEN {"Report"} ELSE {entry.action}
  BY <1>5, <1>7 DEF QualifyingAction
<1>9. IF action = {"Deny"}
      THEN /\ latched' = latched \cup {CategoryOf[d]}
           /\ call' = [call EXCEPT ![t].category = {CategoryOf[d]}]
           /\ pc' = [pc EXCEPT ![t] = "latching"]
      ELSE /\ call' = [call EXCEPT
                ![t].outcomes = Tail(@),
                ![t].qualified = IF action = {} THEN @ ELSE Append(@, report)]
           /\ latched' = latched /\ pc' = pc
  BY <1>2 DEF RecordOutcome, Goto
<1> HIDE DEF action, entry, reaching
<1>10. CASE reaching /\ entry.action = "Deny"
  <2>1. action = {"Deny"}
    BY <1>8, <1>10
  <2>2. QED
    BY <1>1, <1>4, <1>5, <1>6, <1>9, <1>10, <2>1 DEF entry, reaching
<1>11. CASE ~reaching
  <2>1. action = {}
    BY <1>8, <1>11
  <2>2. call' = [call EXCEPT ![t].outcomes = Tail(@)]
    <3>1. call' = [call EXCEPT ![t].outcomes = Tail(@), ![t].qualified = @]
      BY <1>9, <2>1
    <3>2. QED
      BY <3>1 DEF TypeOK, Call
  <2>3. latched' = latched /\ pc' = pc
    BY <1>9, <2>1
  <2>4. QED
    BY <1>1, <1>4, <1>5, <1>6, <1>11, <2>2, <2>3 DEF entry, reaching
<1>12. CASE reaching /\ entry.action # "Deny"
  <2> DEFINE answer == IF entry.action = "Crash" /\ outcome.finding.health
                       THEN "Report" ELSE entry.action
  <2>1. action = {answer} /\ answer \in Actions /\ answer # "Deny"
    BY <1>7, <1>8, <1>12 DEF Actions
  <2> HIDE DEF answer
  <2>2. report.action = answer /\ report.finding = outcome.finding
    BY <2>1
  <2>3. report \in Report
    BY <1>4, <1>12, <2>1 DEF reaching, Report, IsFinding, Outcome
  <2>4. /\ call' = [call EXCEPT ![t].outcomes = Tail(@),
                                ![t].qualified = Append(@, report)]
        /\ latched' = latched /\ pc' = pc
    BY <1>9, <2>1
  <2> HIDE DEF report
  <2>5. QED
    BY <1>1, <1>4, <1>5, <1>6, <1>12, <2>2, <2>3, <2>4
    DEF entry, reaching, answer
<1>13. QED
  BY <1>10, <1>11, <1>12

\* One outcome at a time, record() keeps each finding with its latch, its
\* report or neither (worker.rs:83-110).
LEMMA OutcomeReports ==
  ASSUME TypeInv, SafeInv, ReportInv, NEW t \in Threads, RecordOutcome(t)
  PROVE  ReportInv'
<1> USE DEF words, objects, worker
<1>a. /\ Hosts \subseteq Threads /\ Worker \in Threads /\ Worker \notin Hosts
      /\ TypeOK /\ CallShape
  BY RuntimeAssumption DEF Threads, TypeInv
<1>b. /\ pc[t] = "recording"
      /\ UNCHANGED <<running, scanDone, runtime, handles, config, pending,
                     work, phase, ready, crashed>>
  BY DEF RecordOutcome
<1>c. PICK d \in Detectors, outcome \in Outcome :
        /\ call[t].outcomes # <<>>
        /\ d = Head(call[t].outcomes).detector
        /\ IsFinding(outcome) => outcome.finding.detector = d
        /\ call[t].then = "enqueue" =>
             /\ d = HostReport
             /\ IsFinding(outcome) /\ ~outcome.finding.health
        /\ eng' = [eng EXCEPT ![runtime] = StateRecord(@, d, outcome)]
        /\ LET entry == Entry(runtime, d)
               reaching == /\ IsFinding(outcome)
                           /\ Reaches(outcome.finding.strength,
                                      entry.threshold)
           IN  \/ /\ reaching /\ entry.action = "Deny"
                  /\ latched' = latched \cup {CategoryOf[d]}
                  /\ call' = [call EXCEPT ![t].category = {CategoryOf[d]}]
                  /\ pc' = [pc EXCEPT ![t] = "latching"]
               \/ /\ ~reaching /\ latched' = latched /\ pc' = pc
                  /\ call' = [call EXCEPT ![t].outcomes = Tail(@)]
               \/ /\ reaching /\ entry.action # "Deny"
                  /\ latched' = latched /\ pc' = pc
                  /\ \E report \in Report :
                       /\ report.finding = outcome.finding
                       /\ report.action =
                            IF entry.action = "Crash"
                                 /\ outcome.finding.health
                            THEN "Report" ELSE entry.action
                       /\ call' = [call EXCEPT
                            ![t].outcomes = Tail(@),
                            ![t].qualified = Append(@, report)]
  BY <1>a, OutcomeCases
<1> DEFINE entry == Entry(runtime, d)
           reaching == /\ IsFinding(outcome)
                       /\ Reaches(outcome.finding.strength, entry.threshold)
           policy == config[runtime].policy
<1>d. /\ call[t].outcomes \in Seq(Observed) /\ call[t].qualified \in Seq(Report)
      /\ call[t] \in Call /\ call \in [Threads -> Call]
  BY <1>a, CallType DEF TypeOK
<1>e. /\ Named(call[t].outcomes) /\ Named(Tail(call[t].outcomes))
      /\ call[t].then = "enqueue" => /\ Observations(call[t].outcomes)
                                     /\ Observations(Tail(call[t].outcomes))
      /\ Answers(policy, call[t].qualified)
      /\ call[t].then = "enqueue" => FromHost(call[t].qualified)
  BY <1>c, <1>d, OutcomesOf DEF ReportInv, OutcomesInv, CarriedInv
<1>f. /\ entry.action \in Actions
      /\ entry = policy[CategoryOf[d]]
  BY <1>a, EntryType
\* The call goes on, and the reports that it carries only grow.
<1>1. /\ pc'[t] \in RecordPc
      /\ pc'[t] = "latching" =>
           /\ reaching /\ entry.action = "Deny"
           /\ call'[t].category = {CategoryOf[d]}
           /\ call'[t].outcomes = call[t].outcomes
      /\ \A u \in Threads : u # t => pc'[u] = pc[u] /\ call'[u] = call[u]
      /\ call'[t].then = call[t].then
      /\ Named(call'[t].outcomes) /\ Answers(policy, call'[t].qualified)
      /\ call[t].then = "enqueue" => /\ Observations(call'[t].outcomes)
                                     /\ FromHost(call'[t].qualified)
      /\ latched \subseteq latched'
      /\ reaching /\ entry.action = "Deny" => CategoryOf[d] \in latched'
      /\ \A e : Holds(call[t].qualified, e) => Holds(call'[t].qualified, e)
      /\ reaching /\ entry.action = "Crash" /\ ~outcome.finding.health
           => Holds(call'[t].qualified, d)
  <2>1. CASE /\ reaching /\ entry.action = "Deny"
             /\ latched' = latched \cup {CategoryOf[d]}
             /\ call' = [call EXCEPT ![t].category = {CategoryOf[d]}]
             /\ pc' = [pc EXCEPT ![t] = "latching"]
    <3>1. /\ pc'[t] = "latching"
          /\ \A u \in Threads : u # t => pc'[u] = pc[u] /\ call'[u] = call[u]
          /\ call'[t].then = call[t].then
          /\ call'[t].outcomes = call[t].outcomes
          /\ call'[t].qualified = call[t].qualified
          /\ call'[t].category = {CategoryOf[d]}
      BY <1>a, <1>d, <2>1 DEF TypeOK, Call
    <3>2. QED
      BY <1>e, <2>1, <3>1 DEF RecordPc
  <2>2. CASE /\ ~reaching /\ latched' = latched /\ pc' = pc
             /\ call' = [call EXCEPT ![t].outcomes = Tail(@)]
    <3>1. /\ \A u \in Threads : u # t => call'[u] = call[u]
          /\ call'[t].then = call[t].then
          /\ call'[t].outcomes = Tail(call[t].outcomes)
          /\ call'[t].qualified = call[t].qualified
      BY <1>d, <2>2 DEF Call
    <3>2. QED
      BY <1>b, <1>e, <2>2, <3>1 DEF RecordPc
  <2>3. CASE /\ reaching /\ entry.action # "Deny"
             /\ latched' = latched /\ pc' = pc
             /\ \E report \in Report :
                  /\ report.finding = outcome.finding
                  /\ report.action =
                       IF entry.action = "Crash" /\ outcome.finding.health
                       THEN "Report" ELSE entry.action
                  /\ call' = [call EXCEPT
                       ![t].outcomes = Tail(@),
                       ![t].qualified = Append(@, report)]
    <3>0. PICK report \in Report :
            /\ report.finding = outcome.finding
            /\ report.action =
                 IF entry.action = "Crash" /\ outcome.finding.health
                 THEN "Report" ELSE entry.action
            /\ call' = [call EXCEPT ![t].outcomes = Tail(@),
                                    ![t].qualified = Append(@, report)]
      BY <2>3
    <3>1. /\ \A u \in Threads : u # t => call'[u] = call[u]
          /\ call'[t].then = call[t].then
          /\ call'[t].outcomes = Tail(call[t].outcomes)
          /\ call'[t].qualified = Append(call[t].qualified, report)
      BY <1>d, <3>0 DEF Call
    <3>2. /\ report.finding.detector = d
          /\ report.action = IF policy[CategoryOf[d]].action = "Crash"
                                  /\ report.finding.health
                             THEN "Report" ELSE policy[CategoryOf[d]].action
          /\ call[t].then = "enqueue" => d = HostReport /\ ~report.finding.health
      BY <1>c, <1>f, <2>3, <3>0
    <3> HIDE DEF policy
    <3>3. /\ Answers(policy, <<report>>)
          /\ call[t].then = "enqueue" => FromHost(<<report>>)
      <4>1. \A i \in DOMAIN <<report>> : <<report>>[i] = report
        OBVIOUS
      <4>2. QED
        BY <3>2, <4>1 DEF Answers, FromHost
    <3>4. /\ Answers(policy, call'[t].qualified)
          /\ call[t].then = "enqueue" => FromHost(call'[t].qualified)
      BY <1>d, <1>e, <3>1, <3>3, ReportsOf
    <3>5. \A e : Holds(call'[t].qualified, e) <=>
                   \/ Holds(call[t].qualified, e)
                   \/ report.action = "Crash" /\ report.finding.detector = e
      BY <1>d, <3>1, HoldsOf
    <3>6. QED
      BY <1>b, <1>c, <1>e, <2>3, <3>0, <3>1, <3>4, <3>5 DEF RecordPc
  <2>4. QED
    BY <1>c, <2>1, <2>2, <2>3
<1> HIDE DEF policy
<1>2. /\ OffInv' /\ OutcomesInv' /\ CarriedInv' /\ QueuedInv' /\ WorkInv'
      /\ ReadyInv' /\ Settled /\ Settled'
      /\ Scanning' <=> Scanning
      /\ \A h \in Hosts : Starting(h)' <=> Starting(h)
  BY <1>a, <1>b, <1>1, RecordMove DEF RecordPc, policy
<1>3. /\ eng'[runtime].latched = eng[runtime].latched
      /\ eng'[runtime].hostLatched = eng[runtime].hostLatched
      /\ \A e \in Detectors :
           /\ Entry(runtime, e)' = Entry(runtime, e)
           /\ Qualifies(runtime, e) => Qualifies(runtime, e)'
           /\ Qualifies(runtime, e)' => \/ Qualifies(runtime, e)
                                        \/ e = d /\ reaching
           /\ CrashDue(runtime, e)' =>
                \/ CrashDue(runtime, e)
                \/ e = d /\ reaching /\ ~outcome.finding.health
      /\ reaching => Qualifies(runtime, d)'
  BY <1>a, <1>b, <1>c, RecordShows
<1> HIDE DEF reaching
<1>4. DenyInv'
  <2>1. \A category \in eng'[runtime].latched :
          \/ category \in eng'[runtime].hostLatched
          \/ \E e \in Detectors : /\ CategoryOf[e] = category
                                  /\ Entry(runtime, e)'.action = "Deny"
                                  /\ Qualifies(runtime, e)'
    BY <1>2, <1>3 DEF ReportInv, DenyInv
  <2>2. \A e \in Detectors :
          Entry(runtime, e)'.action = "Deny" /\ Qualifies(runtime, e)'
            => CategoryOf[e] \in latched'
    BY <1>1, <1>2, <1>3 DEF ReportInv, DenyInv
  <2>3. ASSUME NEW u \in Threads, pc'[u] = "latching"
        PROVE  \E e \in Detectors :
                 /\ e = Head(call'[u].outcomes).detector
                 /\ call'[u].category = {CategoryOf[e]}
                 /\ Entry(runtime, e)'.action = "Deny"
                 /\ Qualifies(runtime, e)'
    <3>1. CASE u = t
      <4>1. /\ d = Head(call'[t].outcomes).detector
            /\ call'[t].category = {CategoryOf[d]}
            /\ Entry(runtime, d)'.action = "Deny"
            /\ Qualifies(runtime, d)'
        BY <1>c, <1>1, <1>3, <2>3, <3>1
      <4>2. QED
        BY <3>1, <4>1
    <3>2. CASE u # t
      <4>1. pc[u] = "latching" /\ call'[u] = call[u]
        BY <1>1, <2>3, <3>2
      <4>2. PICK e \in Detectors : /\ e = Head(call[u].outcomes).detector
                                   /\ call[u].category = {CategoryOf[e]}
                                   /\ Entry(runtime, e).action = "Deny"
                                   /\ Qualifies(runtime, e)
        BY <1>2, <4>1 DEF ReportInv, DenyInv
      <4>3. Entry(runtime, e)'.action = "Deny" /\ Qualifies(runtime, e)'
        BY <1>3, <4>2
      <4>4. QED
        BY <4>1, <4>2, <4>3
    <3>3. QED
      BY <3>1, <3>2
  <2>4. QED
    BY <1>b, <2>1, <2>2, <2>3 DEF DenyInv
<1>5. CrashInv'
  <2> SUFFICES ASSUME NEW e \in Detectors, CrashDue(runtime, e)', ~crashed
               PROVE  \/ Holds(work, e) \/ Holds(pending[runtime], e)
                      \/ \E u \in Threads : Holds(call'[u].qualified, e)
    BY <1>b DEF CrashInv
  <2>1. CASE CrashDue(runtime, e)
    BY <1>1, <1>2, <2>1 DEF ReportInv, CrashInv
  <2>2. CASE e = d /\ reaching /\ ~outcome.finding.health
    <3>1. entry.action = "Crash"
      BY <1>3, <2>2 DEF CrashDue
    <3>2. QED
      BY <1>1, <2>2, <3>1
  <2>3. QED
    BY <1>3, <2>1, <2>2
<1>6. InitialInv'
  <2> SUFFICES ASSUME ~crashed, phase # "scan", ~scanDone, ~Scanning,
                      NEW i \in DOMAIN CheapScan,
                      CrashDue(runtime, CheapScan[i])'
               PROVE  \/ phase = "initial" /\ Holds(work, CheapScan[i])
                      \/ \E h \in Hosts :
                           /\ Starting(h)
                           /\ Holds(call'[h].qualified, CheapScan[i])
    BY <1>b, <1>2 DEF InitialInv
  <2>0. CheapScan[i] \in Detectors /\ CheapScan[i] # HostReport
    BY RuntimeAssumption
  <2>1. CASE CrashDue(runtime, CheapScan[i])
    <3>1. \/ phase = "initial" /\ Holds(work, CheapScan[i])
          \/ \E h \in Hosts :
               Starting(h) /\ Holds(call[h].qualified, CheapScan[i])
      BY <1>2, <2>1 DEF ReportInv, InitialInv
    <3>2. \A h \in Hosts : Holds(call[h].qualified, CheapScan[i])
                             => Holds(call'[h].qualified, CheapScan[i])
      BY <1>a, <1>1
    <3>3. QED
      BY <3>1, <3>2
  <2>2. CASE CheapScan[i] = d /\ reaching /\ ~outcome.finding.health
    <3>1. entry.action = "Crash"
      BY <1>3, <2>0, <2>2 DEF CrashDue
    <3>2. call[t].then # "enqueue"
      BY <1>c, <2>0, <2>2
    <3>3. t \in Hosts /\ call[t].then = "spawn"
      BY <1>a, <1>b, <3>2 DEF CallShape, Scanning, RecordPc, Threads
    <3>4. Starting(t)
      BY <1>b, <3>3 DEF Starting, RecordPc
    <3>5. QED
      BY <1>1, <2>2, <3>1, <3>3, <3>4
  <2>3. QED
    BY <1>3, <2>0, <2>1, <2>2
<1>7. QED
  BY <1>2, <1>4, <1>5, <1>6 DEF ReportInv

\* The second half of a latch keeps its explanation, and adds its report
\* (worker.rs:88-98).
LEMMA LatchReports ==
  ASSUME TypeInv, SafeInv, ReportInv, NEW t \in Threads, RecordLatch(t)
  PROVE  ReportInv'
<1> USE DEF words, objects, worker
<1>a. /\ Hosts \subseteq Threads /\ Worker \in Threads /\ Worker \notin Hosts
      /\ TypeOK /\ CallShape
  BY RuntimeAssumption DEF Threads, TypeInv
<1>b. /\ pc[t] = "latching" /\ pc'[t] = "recording"
      /\ \A u \in Threads : u # t => pc'[u] = pc[u] /\ call'[u] = call[u]
      /\ UNCHANGED <<running, latched, scanDone, runtime, handles, config,
                     pending, work, phase, ready, crashed>>
  BY <1>a DEF RecordLatch, Goto, TypeOK
<1>c. Settled /\ call[t].runtime = runtime /\ runtime \in Runtimes
  BY <1>a, <1>b, ActiveAlone DEF Settled, SafeInv, SlotInv, RecordPc, TypeOK
<1>d. PICK d \in Detectors : /\ d = Head(call[t].outcomes).detector
                             /\ call[t].category = {CategoryOf[d]}
                             /\ Entry(runtime, d).action = "Deny"
                             /\ Qualifies(runtime, d)
  BY <1>b, <1>c DEF ReportInv, DenyInv
<1>e. eng' = [eng EXCEPT ![runtime] = StateLatch(@, CategoryOf[d])]
  BY <1>c, <1>d DEF RecordLatch
<1>f. /\ eng'[runtime].slots = eng[runtime].slots
      /\ eng'[runtime].latched = eng[runtime].latched \cup {CategoryOf[d]}
      /\ eng'[runtime].hostLatched = eng[runtime].hostLatched
  <2>1. eng[runtime] \in State /\ eng'[runtime] = StateLatch(eng[runtime],
                                                             CategoryOf[d])
    BY <1>a, <1>c, <1>e DEF TypeOK
  <2>2. QED
    BY <2>1 DEF StateLatch, State
<1>g. /\ call[t].outcomes \in Seq(Observed) /\ call[t].outcomes # <<>>
      /\ Head(call[t].outcomes) \in Observed
      /\ IsFinding(Head(call[t].outcomes).outcome)
      /\ call[t].qualified \in Seq(Report)
  BY <1>a, <1>b, CallType DEF CallShape
<1> DEFINE outcome == Head(call[t].outcomes).outcome
           report == [finding |-> outcome.finding, action |-> "Deny"]
           policy == config[runtime].policy
<1>h. /\ outcome.finding.detector = d
      /\ Named(Tail(call[t].outcomes))
      /\ call[t].then = "enqueue" =>
           /\ Observations(Tail(call[t].outcomes))
           /\ d = HostReport /\ ~outcome.finding.health
      /\ Answers(policy, call[t].qualified)
      /\ call[t].then = "enqueue" => FromHost(call[t].qualified)
  BY <1>d, <1>g, OutcomesOf DEF ReportInv, OutcomesInv, CarriedInv
<1>i. report \in Report /\ policy[CategoryOf[d]].action = "Deny"
  BY <1>a, <1>d, <1>g, EntryType DEF Report, Actions, IsFinding, Observed, Outcome
<1>j. /\ call'[t].then = call[t].then
      /\ call'[t].outcomes = Tail(call[t].outcomes)
      /\ call'[t].qualified = Append(call[t].qualified, report)
  BY <1>a DEF RecordLatch, TypeOK, Call
<1>k. report.action = "Deny" /\ report.finding = outcome.finding
  OBVIOUS
<1> HIDE DEF outcome, report, policy
<1>1. /\ Answers(policy, call'[t].qualified)
      /\ call[t].then = "enqueue" => FromHost(call'[t].qualified)
  <2>1. \A i \in DOMAIN <<report>> : <<report>>[i] = report
    OBVIOUS
  <2>2. /\ Answers(policy, <<report>>)
        /\ call[t].then = "enqueue" => FromHost(<<report>>)
    BY <1>h, <1>i, <1>k, <2>1 DEF Answers, FromHost
  <2>3. QED
    BY <1>g, <1>h, <1>i, <1>j, <2>2, ReportsOf
<1>2. /\ OffInv' /\ OutcomesInv' /\ CarriedInv' /\ QueuedInv' /\ WorkInv'
      /\ ReadyInv' /\ Settled'
      /\ Scanning' <=> Scanning
      /\ \A h \in Hosts : Starting(h)' <=> Starting(h)
  BY <1>a, <1>b, <1>h, <1>j, <1>1, RecordMove DEF RecordPc, policy
<1>3. \A e : /\ Entry(runtime, e)' = Entry(runtime, e)
             /\ Qualifies(runtime, e)' <=> Qualifies(runtime, e)
             /\ CrashDue(runtime, e)' <=> CrashDue(runtime, e)
  BY <1>b, <1>f, ShowsKept
<1>4. \A u \in Threads : \A e :
        Holds(call[u].qualified, e) => Holds(call'[u].qualified, e)
  <2>1. \A e : Holds(call[t].qualified, e) => Holds(call'[t].qualified, e)
    BY <1>g, <1>i, <1>j, HoldsOf
  <2>2. \A u \in Threads : u = t \/ call'[u] = call[u]
    BY <1>b
  <2>3. QED
    BY <2>1, <2>2
<1>5. DenyInv'
  <2>1. \A category \in eng'[runtime].latched :
          \/ category \in eng'[runtime].hostLatched
          \/ \E e \in Detectors : /\ CategoryOf[e] = category
                                  /\ Entry(runtime, e)'.action = "Deny"
                                  /\ Qualifies(runtime, e)'
    BY <1>c, <1>d, <1>f, <1>3 DEF ReportInv, DenyInv
  <2>2. \A e \in Detectors :
          Entry(runtime, e)'.action = "Deny" /\ Qualifies(runtime, e)'
            => CategoryOf[e] \in latched'
    BY <1>b, <1>c, <1>3 DEF ReportInv, DenyInv
  <2>3. \A u \in Threads : pc'[u] = "latching" =>
          \E e \in Detectors : /\ e = Head(call'[u].outcomes).detector
                               /\ call'[u].category = {CategoryOf[e]}
                               /\ Entry(runtime, e)'.action = "Deny"
                               /\ Qualifies(runtime, e)'
    BY <1>b, <1>c, <1>3 DEF ReportInv, DenyInv
  <2>4. QED
    BY <1>b, <2>1, <2>2, <2>3 DEF DenyInv
<1>6. CrashInv'
  BY <1>b, <1>c, <1>3, <1>4 DEF ReportInv, CrashInv
<1>7. InitialInv'
  <2>1. \A h \in Hosts : \A e :
          Holds(call[h].qualified, e) => Holds(call'[h].qualified, e)
    BY <1>a, <1>4
  <2>2. QED
    BY <1>b, <1>c, <1>2, <1>3, <2>1 DEF ReportInv, InitialInv
<1>8. QED
  BY <1>2, <1>5, <1>6, <1>7 DEF ReportInv

\* record() hands its reports over: to the start, to the queue or to the
\* worker's dispatch, which was empty (worker.rs:110-113, 235-262).
LEMMA RecordStepReports ==
  ASSUME TypeInv, SafeInv, ReportInv, NEW t \in Threads, RecordStep(t)
  PROVE  ReportInv'
<1> USE DEF words, objects, worker, Goto, BarePc, StartPc, RollbackPc,
            RecordPc, HandlePc
<1>a. /\ Hosts \subseteq Threads /\ Worker \in Threads /\ Worker \notin Hosts
      /\ TypeOK /\ CallShape
  BY RuntimeAssumption DEF Threads, TypeInv
<1>1. CASE RecordLock(t)
  <2>1. /\ pc[t] = "record" /\ pc' = [pc EXCEPT ![t] = "recording"]
        /\ UNCHANGED <<running, latched, scanDone, runtime, handles, config,
                       eng, pending, call, work, phase, ready, crashed>>
    BY <1>1 DEF RecordLock
  <2>2. pc'[t] = "recording" /\ \A u \in Threads : u # t => pc'[u] = pc[u]
    BY <1>a, <2>1 DEF TypeOK
  <2>3. OffInv'
    BY <1>a, <2>1, <2>2 DEF ReportInv, OffInv
  <2>4. /\ Scanning' <=> Scanning
        /\ InCallback' <=> InCallback
        /\ \A h \in Hosts : Starting(h)' <=> Starting(h)
    BY <1>a, <2>1, <2>2 DEF Scanning, InCallback, Starting
  <2>5. QED
    BY <1>a, <2>1, <2>3, <2>4, PcMove DEF ReportInv, WorkInv
<1>2. CASE RecordOutcome(t)
  BY <1>2, OutcomeReports
<1>3. CASE RecordLatch(t)
  BY <1>3, LatchReports
<1>4. CASE RecordUnlock(t) /\ call[t].then # "dispatch"
  <2>1. /\ pc[t] = "recording" /\ pc' = [pc EXCEPT ![t] = call[t].then]
        /\ UNCHANGED <<running, latched, scanDone, runtime, handles, config,
                       eng, pending, call, work, phase, ready, crashed>>
    BY <1>4 DEF RecordUnlock
  <2>2. /\ t \in Hosts => call[t].then \in {"spawn", "enqueue"}
        /\ t = Worker => call[t].then = "enqueue"
    BY <1>a, <1>4, <2>1 DEF CallShape
  <2>3. pc'[t] = call[t].then /\ \A u \in Threads : u # t => pc'[u] = pc[u]
    BY <1>a, <2>1 DEF TypeOK
  <2>4. OffInv'
    BY <1>a, <2>1, <2>2, <2>3 DEF ReportInv, OffInv
  <2>5. /\ Scanning' <=> Scanning
        /\ InCallback' <=> InCallback
        /\ \A h \in Hosts : Starting(h)' <=> Starting(h)
    BY <1>a, <2>1, <2>2, <2>3 DEF Scanning, InCallback, Starting
  <2>6. call[t].then \in {"spawn", "enqueue"}
    BY <2>2 DEF Threads
  <2>7. QED
    BY <1>a, <2>1, <2>4, <2>5, <2>6, PcMove DEF ReportInv, WorkInv
<1>5. CASE RecordUnlock(t) /\ call[t].then = "dispatch"
  <2>1. t = Worker /\ pc[Worker] = "recording" /\ Scanning
    BY <1>a, <1>5 DEF RecordUnlock, CallShape, Scanning, Threads
  <2>2. /\ pc'[Worker] = "dispatch"
        /\ \A u \in Threads : u # Worker => pc'[u] = pc[u] /\ call'[u] = call[u]
        /\ call'[Worker] = NoCall
        /\ work' = call[Worker].qualified /\ phase' = "scan"
        /\ UNCHANGED <<running, latched, scanDone, runtime, handles, config,
                       eng, pending, ready, crashed>>
    BY <1>a, <1>5, <2>1 DEF RecordUnlock, TypeOK
  <2>3. work = <<>>
    BY <2>1 DEF ReportInv, WorkInv
  <2>4. /\ call'[Worker].qualified = <<>> /\ call'[Worker].outcomes = <<>>
        /\ call'[Worker].then = "none"
    BY <2>2 DEF NoCall
  <2>5. ~Scanning' /\ ~InCallback' /\ (Settled' <=> Settled)
    BY <1>a, <2>2 DEF Scanning, InCallback, Settled
  <2>6. \A d : /\ Entry(runtime, d)' = Entry(runtime, d)
               /\ Qualifies(runtime, d)' <=> Qualifies(runtime, d)
               /\ CrashDue(runtime, d)' <=> CrashDue(runtime, d)
    BY <2>2, ShowsKept
  <2>7. OffInv' /\ ReadyInv' /\ InitialInv'
    BY <2>2 DEF OffInv, ReadyInv, InitialInv
  <2>8. OutcomesInv'
    BY <2>2, <2>4 DEF ReportInv, OutcomesInv, Named
  <2>9. CarriedInv'
    BY <2>2, <2>4, ReportsOf DEF ReportInv, CarriedInv
  <2>10. QueuedInv'
    BY <2>2 DEF ReportInv, QueuedInv
  <2>11. WorkInv'
    BY <1>a, <2>2, <2>5 DEF ReportInv, WorkInv, CarriedInv
  <2>12. DenyInv'
    BY <2>2, <2>5, <2>6 DEF ReportInv, DenyInv
  <2>13. CrashInv'
    <3> SUFFICES ASSUME Settled, ~crashed, NEW d \in Detectors,
                        CrashDue(runtime, d)
                 PROVE  \/ Holds(work', d) \/ Holds(pending[runtime], d)
                        \/ \E u \in Threads : Holds(call'[u].qualified, d)
      BY <2>2, <2>5, <2>6 DEF CrashInv
    <3>1. \/ Holds(pending[runtime], d)
          \/ \E u \in Threads : Holds(call[u].qualified, d)
      BY <2>3, HoldsOf DEF ReportInv, CrashInv
    <3>2. QED
      BY <1>a, <2>2, <3>1
  <2>14. QED
    BY <2>7, <2>8, <2>9, <2>10, <2>11, <2>12, <2>13 DEF ReportInv
<1>6. QED
  BY <1>1, <1>2, <1>3, <1>4, <1>5 DEF RecordStep

(***************************************************************************)
(* Calls through a handle.                                                 *)
(***************************************************************************)

\* A step of a call changes no slot. It may latch for the host, and it may hand
\* the reports of the call to the queue; the caller works beside a running
\* worker, and stays a caller or returns (handle.rs:88-180).
LEMMA CallerMoveReports ==
  ASSUME TypeOK, CallShape, SafeInv, ReportInv, NEW t \in Threads,
         pc[t] \in {Home(t)} \cup HandlePc, t # Worker => handles # {},
         Settled,
         pc'[t] \in {Home(t), "record"} \cup (HandlePc \ {"enqueue"}),
         \A u \in Threads : u # t => pc'[u] = pc[u] /\ call'[u] = call[u],
         UNCHANGED <<running, scanDone, runtime, handles, config, work, phase,
                     ready, crashed>>,
         pc'[t] = "record" => call'[t].then = "enqueue",
         call'[t].qualified = <<>>, Named(call'[t].outcomes),
         call'[t].then = "enqueue" => Observations(call'[t].outcomes),
         latched \subseteq latched',
         eng'[runtime].slots = eng[runtime].slots,
         eng[runtime].hostLatched \subseteq eng'[runtime].hostLatched,
         \A category \in eng'[runtime].latched :
           \/ category \in eng[runtime].latched
           \/ category \in eng'[runtime].hostLatched,
         Answers(config[runtime].policy, pending'[runtime]),
         FromHost(pending'[runtime]),
         \A d : Holds(pending[runtime], d) \/ Holds(call[t].qualified, d)
                  => Holds(pending'[runtime], d)
  PROVE  ReportInv'
<1> USE DEF BarePc, StartPc, RollbackPc, RecordPc, HandlePc
<1>a. /\ Hosts \subseteq Threads /\ Worker \in Threads /\ Worker \notin Hosts
      /\ Home(t) = IF t = Worker THEN "callback" ELSE "idle"
  BY RuntimeAssumption DEF Threads, Home
<1>b. pc[Worker] # "off" /\ pc'[Worker] # "off"
  BY <1>a DEF ReportInv, OffInv
<1>c. \A h \in Hosts : /\ Starting(h)' <=> Starting(h)
                       /\ Starting(h) => h # t
                       /\ pc'[h] = "await" <=> pc[h] = "await"
                       /\ pc'[h] \notin BarePc
  BY <1>a DEF Starting, Settled
<1>d. Settled'
  BY <1>c DEF Settled
<1>e. (Scanning' <=> Scanning) /\ (InCallback' => InCallback)
  BY <1>a DEF Scanning, InCallback
<1>f. \A d : /\ Entry(runtime, d)' = Entry(runtime, d)
             /\ Qualifies(runtime, d)' <=> Qualifies(runtime, d)
             /\ CrashDue(runtime, d)' <=> CrashDue(runtime, d)
  BY ShowsKept
<1>g. \A d : ~Holds(call'[t].qualified, d)
  BY HoldsOf
<1>1. OffInv'
  BY <1>b DEF OffInv
<1>2. OutcomesInv'
  BY DEF ReportInv, OutcomesInv
<1>3. CarriedInv'
  BY <1>a, ReportsOf DEF ReportInv, CarriedInv
<1>4. QueuedInv'
  BY DEF QueuedInv
<1>5. WorkInv'
  BY <1>a, <1>e DEF ReportInv, WorkInv
<1>6. DenyInv'
  <2>1. \A u \in Threads :
          pc'[u] = "latching" => pc[u] = "latching" /\ call'[u] = call[u]
    BY <1>a
  <2>2. QED
    BY <1>d, <1>f, <2>1 DEF ReportInv, DenyInv
<1>7. CrashInv'
  <2> SUFFICES ASSUME NEW d \in Detectors, CrashDue(runtime, d), ~crashed,
                      ~Holds(work, d), ~Holds(pending'[runtime], d)
               PROVE  \E u \in Threads : Holds(call'[u].qualified, d)
    BY <1>f DEF CrashInv
  <2>1. PICK u \in Threads : Holds(call[u].qualified, d)
    BY DEF ReportInv, CrashInv
  <2>2. u # t
    BY <2>1
  <2>3. QED
    BY <2>1, <2>2
<1>8. ReadyInv'
  BY <1>a, <1>c DEF ReportInv, ReadyInv
<1>9. InitialInv'
  <2>1. \A h \in Hosts : Starting(h) => call'[h] = call[h]
    BY <1>a, <1>c
  <2> SUFFICES ASSUME ~crashed, phase # "scan", ~scanDone, ~Scanning,
                      NEW i \in DOMAIN CheapScan,
                      CrashDue(runtime, CheapScan[i])
               PROVE  \/ phase = "initial" /\ Holds(work, CheapScan[i])
                      \/ \E h \in Hosts :
                           /\ Starting(h)
                           /\ Holds(call'[h].qualified, CheapScan[i])
    BY <1>c, <1>e, <1>f DEF InitialInv
  <2>2. \/ phase = "initial" /\ Holds(work, CheapScan[i])
        \/ \E h \in Hosts :
             Starting(h) /\ Holds(call[h].qualified, CheapScan[i])
    BY DEF ReportInv, InitialInv
  <2>3. QED
    BY <2>1, <2>2
<1>10. QED
  BY <1>1, <1>2, <1>3, <1>4, <1>5, <1>6, <1>7, <1>8, <1>9 DEF ReportInv

\* Every call through a handle keeps the reports on their way: only
\* report_ui_abuse() makes new ones, and the queue takes them
\* (handle.rs:88-180, pending.rs:77-84).
LEMMA HandleStepReports ==
  ASSUME TypeInv, SafeInv, ReportInv, NEW t \in Threads,
         HandleCall(t) \/ HandleStep(t)
  PROVE  ReportInv'
<1> USE DEF words, objects, worker, Goto, RecordPc, HandlePc
<1>a. /\ Hosts \subseteq Threads /\ Worker \in Threads /\ Worker \notin Hosts
      /\ TypeOK /\ CallShape /\ runtime \in Runtimes
      /\ Home(t) = IF t = Worker THEN "callback" ELSE "idle"
  BY RuntimeAssumption DEF Threads, TypeInv, TypeOK, Home
<1>b. pc[t] \in HandlePc => Settled /\ (t # Worker => handles # {})
  BY <1>a, ActiveAlone DEF SafeInv, SlotInv, Calling, Threads, Settled
<1>c. ASSUME NEW r \in Runtimes, CanCall(t, r)
      PROVE  r = runtime /\ pc[t] = Home(t) /\ Settled
             /\ (t # Worker => handles # {})
  BY <1>a, <1>c, CallerAlone DEF CanCall, Settled
<1>d. /\ Answers(config[runtime].policy, pending[runtime])
      /\ FromHost(pending[runtime])
      /\ Named(call[t].outcomes)
      /\ call[t].then = "enqueue" => Observations(call[t].outcomes)
      /\ Answers(config[runtime].policy, call[t].qualified)
      /\ pc[t] = "enqueue" => FromHost(call[t].qualified)
      /\ pc[t] \in {Home(t)} \cup (HandlePc \ {"enqueue"})
           => call[t].qualified = <<>>
  BY <1>a DEF ReportInv, QueuedInv, OutcomesInv, CarriedInv
<1>e. call[t].qualified = <<>> => \A d : ~Holds(call[t].qualified, d)
  BY HoldsOf
<1>f. NoCall.qualified = <<>> /\ NoCall.outcomes = <<>> /\ NoCall.then = "none"
  BY DEF NoCall
<1>1. ASSUME NEW label,
             pc' = [pc EXCEPT ![t] = label],
             pc[t] \in {Home(t)} \cup (HandlePc \ {"enqueue"}),
             label \in {Home(t)} \cup (HandlePc \ {"enqueue"}),
             Settled, t # Worker => handles # {},
             UNCHANGED <<words, runtime, handles, objects, call, worker,
                         crashed>>
      PROVE  ReportInv'
  <2>1. pc'[t] = label /\ \A u \in Threads : u # t => pc'[u] = pc[u]
    BY <1>a, <1>1 DEF TypeOK
  <2>2. QED
    BY <1>a, <1>d, <1>e, <1>1, <2>1, CallerMoveReports
<1>2. ASSUME NEW r \in Runtimes, EnsureLatched(t, r) PROVE ReportInv'
  BY <1>1, <1>2, <1>c DEF EnsureLatched
<1>3. ASSUME NEW r \in Runtimes, WaitCall(t, r) PROVE ReportInv'
  BY <1>1, <1>3, <1>c DEF WaitCall
<1>4. CASE EnsureDenyUntil(t)
  BY <1>1, <1>4, <1>b DEF EnsureDenyUntil
<1>5. CASE EnsureScanDone(t)
  BY <1>1, <1>5, <1>b DEF EnsureScanDone
<1>6. CASE WaitCheck(t)
  BY <1>1, <1>6, <1>b DEF WaitCheck
<1>7. CASE WaitExpires(t)
  BY <1>1, <1>7, <1>b DEF WaitExpires
<1>8. ASSUME NEW r \in Runtimes, ReportUiAbuse(t, r) PROVE ReportInv'
  <2>1. r = runtime /\ pc[t] = Home(t) /\ Settled /\ (t # Worker => handles # {})
    BY <1>8, <1>c DEF ReportUiAbuse
  <2>2. PICK finding \in HostObservations :
          call' = [call EXCEPT ![t] =
                     [NoCall EXCEPT !.runtime = runtime, !.then = "enqueue",
                        !.outcomes = <<[detector |-> HostReport,
                                        outcome |-> Found(finding)]>>]]
    BY <1>8, <2>1 DEF ReportUiAbuse
  <2>3. /\ pc'[t] = "record"
        /\ \A u \in Threads : u # t => pc'[u] = pc[u] /\ call'[u] = call[u]
        /\ UNCHANGED <<running, latched, scanDone, runtime, handles, config,
                       eng, pending, work, phase, ready, crashed>>
    BY <1>a, <1>8, <2>2 DEF ReportUiAbuse, TypeOK
  <2>4. /\ call'[t].then = "enqueue" /\ call'[t].qualified = <<>>
        /\ call'[t].outcomes = <<[detector |-> HostReport,
                                  outcome |-> Found(finding)]>>
    BY <1>a, <2>2 DEF TypeOK, NoCall
  <2>5. Named(call'[t].outcomes) /\ Observations(call'[t].outcomes)
    <3>1. \A i \in DOMAIN call'[t].outcomes :
            /\ call'[t].outcomes[i].detector = HostReport
            /\ call'[t].outcomes[i].outcome = Found(finding)
      BY <2>4
    <3>2. /\ IsFinding(Found(finding)) /\ Found(finding).finding = finding
          /\ finding.detector = HostReport /\ ~finding.health
      BY RuntimeAssumption DEF IsFinding, Found
    <3>3. QED
      BY <3>1, <3>2 DEF Named, Observations
  <2>6. QED
    BY <1>a, <1>d, <1>e, <2>1, <2>3, <2>4, <2>5, CallerMoveReports
<1>9. CASE ReportQueue(t)
  <2>1. pc[t] = "enqueue" /\ call[t].runtime = runtime /\ Settled
        /\ (t # Worker => handles # {})
    BY <1>9, <1>b DEF ReportQueue, SafeInv, SlotInv
  <2>2. /\ pc'[t] = Home(t) /\ call'[t] = NoCall
        /\ \A u \in Threads : u # t => pc'[u] = pc[u] /\ call'[u] = call[u]
        /\ pending'[runtime] = PendingAdd(pending[runtime], call[t].qualified)
        /\ UNCHANGED <<running, latched, scanDone, runtime, handles, config,
                       eng, work, phase, ready, crashed>>
    BY <1>a, <1>9, <2>1 DEF ReportQueue, Return, TypeOK
  <2>3. /\ pending[runtime] \in Seq(Report)
        /\ Len(pending[runtime]) <= MOST_REPORTS
        /\ call[t].qualified \in Seq(Report)
    BY <1>a, CallType DEF TypeOK
  <2>4. /\ Answers(config[runtime].policy, pending'[runtime])
        /\ FromHost(pending'[runtime])
        /\ \A d : Holds(pending[runtime], d) \/ Holds(call[t].qualified, d)
                    => Holds(pending'[runtime], d)
    BY <1>d, <2>1, <2>2, <2>3, QueueTakes
  <2>5. Named(call'[t].outcomes) /\ call'[t].then # "enqueue"
        /\ call'[t].qualified = <<>>
    BY <1>f, <2>2 DEF Named
  <2>6. QED
    BY <1>a, <2>1, <2>2, <2>4, <2>5, CallerMoveReports
<1>10. ASSUME NEW r \in Runtimes, NEW category \in Categories,
              DenyWord(t, r, category)
       PROVE  ReportInv'
  <2>1. r = runtime /\ pc[t] = Home(t) /\ Settled /\ (t # Worker => handles # {})
    BY <1>10, <1>c DEF DenyWord
  <2>2. /\ pc'[t] = "denying"
        /\ \A u \in Threads : u # t => pc'[u] = pc[u] /\ call'[u] = call[u]
        /\ call'[t].then = "none" /\ call'[t].qualified = <<>>
        /\ call'[t].outcomes = <<>>
        /\ latched \subseteq latched'
        /\ UNCHANGED <<running, scanDone, runtime, handles, config, eng,
                       pending, work, phase, ready, crashed>>
    BY <1>a, <1>10 DEF DenyWord, TypeOK, NoCall
  <2>3. Named(call'[t].outcomes)
    BY <2>2 DEF Named
  <2>4. QED
    BY <1>a, <1>d, <1>e, <2>1, <2>2, <2>3, CallerMoveReports
<1>11. CASE DenyState(t)
  <2>1. pc[t] = "denying" /\ call[t].runtime = runtime /\ Settled
        /\ (t # Worker => handles # {})
    BY <1>11, <1>b DEF DenyState, SafeInv, SlotInv
  <2>2. PICK category \in call[t].category :
          eng' = [eng EXCEPT ![runtime] = StateLatchByHost(@, category)]
    BY <1>11, <2>1 DEF DenyState
  <2>3. eng'[runtime] = StateLatchByHost(eng[runtime], category)
        /\ eng[runtime] \in State
    BY <1>a, <2>2 DEF TypeOK
  <2>4. /\ eng'[runtime].slots = eng[runtime].slots
        /\ eng'[runtime].latched = eng[runtime].latched \cup {category}
        /\ eng'[runtime].hostLatched = eng[runtime].hostLatched \cup {category}
    BY <2>3 DEF StateLatchByHost, State
  <2>5. /\ pc'[t] = Home(t) /\ call'[t] = NoCall
        /\ \A u \in Threads : u # t => pc'[u] = pc[u] /\ call'[u] = call[u]
        /\ UNCHANGED <<running, latched, scanDone, runtime, handles, config,
                       pending, work, phase, ready, crashed>>
    BY <1>a, <1>11, <2>1 DEF DenyState, Return, TypeOK
  <2>6. Named(call'[t].outcomes) /\ call'[t].then # "enqueue"
        /\ call'[t].qualified = <<>>
    BY <1>f, <2>5 DEF Named
  <2>7. QED
    BY <1>a, <1>d, <1>e, <2>1, <2>4, <2>5, <2>6, CallerMoveReports
<1>12. QED
  BY <1>2, <1>3, <1>4, <1>5, <1>6, <1>7, <1>8, <1>9, <1>10, <1>11
  DEF HandleCall, HandleStep

(***************************************************************************)
(* Worker::run.                                                            *)
(***************************************************************************)

\* The worker is done with a report that is no Crash. Its panic, if there was
\* one, is recorded for a detector whose action is Callback, so it changes no
\* denial and no due Crash (worker.rs:266-317).
LEMMA DispatchedReports ==
  ASSUME TypeOK, CallShape, SafeInv, ReportInv,
         pc[Worker] \in {"dispatch", "callback", "health"},
         pc' = [pc EXCEPT ![Worker] = "dispatch"],
         work # <<>>, Head(work).action # "Crash", work' = Tail(work),
         UNCHANGED <<running, latched, scanDone, runtime, handles, config,
                     pending, call, phase, ready, crashed>>,
         eng'[runtime].latched = eng[runtime].latched,
         eng'[runtime].hostLatched = eng[runtime].hostLatched,
         \A d \in Detectors :
           /\ Qualifies(runtime, d) => Qualifies(runtime, d)'
           /\ Qualifies(runtime, d)' /\ Entry(runtime, d).action = "Deny"
                => Qualifies(runtime, d)
           /\ CrashDue(runtime, d)' => CrashDue(runtime, d)
  PROVE  ReportInv'
<1> USE DEF BarePc, StartPc, RollbackPc, RecordPc, HandlePc
<1>a. /\ Hosts \subseteq Threads /\ Worker \in Threads /\ Worker \notin Hosts
  BY RuntimeAssumption DEF Threads
<1>b. /\ pc'[Worker] = "dispatch"
      /\ \A u \in Threads : u # Worker => pc'[u] = pc[u]
  BY <1>a DEF TypeOK
<1>c. /\ ~Scanning /\ ~Scanning' /\ ~InCallback' /\ (Settled' <=> Settled)
      /\ \A h \in Hosts : Starting(h)' <=> Starting(h)
  BY <1>a, <1>b DEF Scanning, InCallback, Settled, Starting
<1>d. \A d : Entry(runtime, d)' = Entry(runtime, d)
  BY DEF Entry
<1>e. /\ Answers(config[runtime].policy, work')
      /\ \A d : Holds(work, d) => Holds(work', d)
  BY ReportsOf, HoldsOf DEF TypeOK, ReportInv, WorkInv
<1>1. OffInv' /\ OutcomesInv' /\ QueuedInv'
  BY <1>b DEF ReportInv, OffInv, OutcomesInv, QueuedInv
<1>2. CarriedInv'
  BY <1>a, <1>b DEF ReportInv, CarriedInv
<1>3. WorkInv'
  BY <1>b, <1>c, <1>e DEF WorkInv
<1>4. DenyInv'
  <2>1. \A u \in Threads : pc'[u] = "latching" => pc[u] = "latching"
    BY <1>b
  <2>2. \A category \in eng'[runtime].latched :
          Settled =>
          \/ category \in eng'[runtime].hostLatched
          \/ \E d \in Detectors : /\ CategoryOf[d] = category
                                  /\ Entry(runtime, d)'.action = "Deny"
                                  /\ Qualifies(runtime, d)'
    BY <1>d DEF ReportInv, DenyInv
  <2>3. \A d \in Detectors :
          Settled /\ Entry(runtime, d)'.action = "Deny" /\ Qualifies(runtime, d)'
            => CategoryOf[d] \in latched'
    BY <1>d DEF ReportInv, DenyInv
  <2>4. \A u \in Threads : Settled /\ pc'[u] = "latching" =>
          \E d \in Detectors : /\ d = Head(call'[u].outcomes).detector
                               /\ call'[u].category = {CategoryOf[d]}
                               /\ Entry(runtime, d)'.action = "Deny"
                               /\ Qualifies(runtime, d)'
    BY <1>d, <2>1 DEF ReportInv, DenyInv
  <2>5. QED
    BY <1>c, <2>2, <2>3, <2>4 DEF DenyInv
<1>5. CrashInv'
  BY <1>c, <1>e DEF ReportInv, CrashInv
<1>6. ReadyInv'
  BY <1>a, <1>b DEF ReportInv, ReadyInv
<1>7. InitialInv'
  <2>1. \A i \in DOMAIN CheapScan : CheapScan[i] \in Detectors
    BY RuntimeAssumption
  <2> SUFFICES ASSUME Settled, ~crashed, phase # "scan", ~scanDone,
                      NEW i \in DOMAIN CheapScan,
                      CrashDue(runtime, CheapScan[i])
               PROVE  \/ phase = "initial" /\ Holds(work', CheapScan[i])
                      \/ \E h \in Hosts :
                           /\ Starting(h)
                           /\ Holds(call[h].qualified, CheapScan[i])
    BY <1>c, <2>1 DEF InitialInv
  <2>2. QED
    BY <1>c, <1>e DEF ReportInv, InitialInv
<1>8. QED
  BY <1>1, <1>2, <1>3, <1>4, <1>5, <1>6, <1>7 DEF ReportInv

\* A scan names each outcome after its detector (worker.rs:220-232).
LEMMA ScanNamed ==
  ASSUME NEW detectors \in Seq(Detectors), NEW answers \in Environments
  PROVE  Named(ScanVector(detectors, answers))
<1>1. \A i \in DOMAIN detectors : detectors[i] \in Detectors
  OBVIOUS
<1>2. \A d \in Detectors :
        IsFinding(answers[d]) => answers[d].finding.detector = d
  BY RuntimeAssumption
<1>3. QED
  BY <1>1, <1>2 DEF Named, ScanVector

\* The worker's loop keeps every report until it is done with it: a Crash ends
\* the process, the initial actions end before readiness, and the worker takes
\* or scans only with nothing left to dispatch (worker.rs:186-317).
LEMMA WorkerStepReports ==
  ASSUME TypeInv, SafeInv, ReportInv, ~Unwinds, WorkerStep
  PROVE  ReportInv'
<1> USE DEF words, objects, worker, Goto, BarePc, StartPc, RollbackPc,
            RecordPc, HandlePc
<1>a. /\ Hosts \subseteq Threads /\ Worker \in Threads /\ Worker \notin Hosts
      /\ TypeOK /\ CallShape /\ runtime \in Runtimes
  BY RuntimeAssumption DEF Threads, TypeInv, TypeOK
<1>b. pc[Worker] # "off" => Settled
  BY <1>a, ActiveAlone DEF Settled
<1>c. ASSUME eng' = eng, UNCHANGED <<runtime, config>>
      PROVE  \A d : /\ Entry(runtime, d)' = Entry(runtime, d)
                    /\ Qualifies(runtime, d)' <=> Qualifies(runtime, d)
                    /\ CrashDue(runtime, d)' <=> CrashDue(runtime, d)
  BY <1>c, ShowsKept
<1>1. CASE DispatchNothing
  <2>1. /\ pc[Worker] = "dispatch" /\ pc' = [pc EXCEPT ![Worker] = "dispatch"]
        /\ work # <<>> /\ Head(work).action # "Crash" /\ work' = Tail(work)
        /\ UNCHANGED <<running, latched, scanDone, runtime, handles, config,
                       eng, pending, call, phase, ready, crashed>>
    BY <1>a, <1>1 DEF DispatchNothing, TypeOK
  <2>2. QED
    BY <1>a, <1>c, <2>1, DispatchedReports
<1>2. CASE CallbackReturns
  <2>1. InCallback
    BY <1>2 DEF CallbackReturns, InCallback
  <2>2. work # <<>> /\ Head(work).action = "Callback"
    BY <1>a, <2>1 DEF CallShape, ReportInv, WorkInv
  <2>3. /\ pc[Worker] = "callback" /\ pc' = [pc EXCEPT ![Worker] = "dispatch"]
        /\ work' = Tail(work)
        /\ UNCHANGED <<running, latched, scanDone, runtime, handles, config,
                       eng, pending, call, phase, ready, crashed>>
    BY <1>2 DEF CallbackReturns
  <2>4. QED
    BY <1>a, <1>c, <2>2, <2>3, DispatchedReports
<1>3. CASE RecordHealth
  <2>1. InCallback
    BY <1>3 DEF RecordHealth, InCallback
  <2>2. work # <<>> /\ Head(work).action = "Callback"
    BY <1>a, <2>1 DEF CallShape, ReportInv, WorkInv
  <2>3. /\ pc[Worker] = "health" /\ pc' = [pc EXCEPT ![Worker] = "dispatch"]
        /\ work' = Tail(work)
        /\ UNCHANGED <<running, latched, scanDone, runtime, handles, config,
                       pending, call, phase, ready, crashed>>
    BY <1>3 DEF RecordHealth
  <2>4. Head(work) \in Report /\ work[1] = Head(work) /\ 1 \in DOMAIN work
    BY <1>a, <2>2 DEF TypeOK
  <2>5. PICK d \in Detectors : d = Head(work).finding.detector
    BY <2>4 DEF Report, Finding
  <2>6. PICK now \in Clock :
          eng' = [eng EXCEPT ![runtime] = StateRecord(@, d,
                    Found([detector |-> d, strength |-> Low, health |-> TRUE,
                           at |-> now]))]
    BY <1>3, <2>5 DEF RecordHealth
  <2>7. Entry(runtime, d).action = "Callback"
    <3>1. Head(work).action =
            IF Entry(runtime, d).action = "Crash" /\ Head(work).finding.health
            THEN "Report" ELSE Entry(runtime, d).action
      BY <2>4, <2>5 DEF ReportInv, WorkInv, Answers, Entry
    <3>2. QED
      BY <2>2, <3>1
  <2> DEFINE outcome == Found([detector |-> d, strength |-> Low,
                               health |-> TRUE, at |-> now])
  <2>8. outcome \in Outcome
    <3>1. [detector |-> d, strength |-> Low, health |-> TRUE, at |-> now]
            \in Finding
      BY <2>6, RuntimeAssumption DEF Finding, SignalStrength, Low, High
    <3>2. QED
      BY <3>1 DEF Found, Outcome
  <2>9. eng' = [eng EXCEPT ![runtime] = StateRecord(@, d, outcome)]
    BY <2>6
  <2> HIDE DEF outcome
  <2>10. /\ eng'[runtime].latched = eng[runtime].latched
         /\ eng'[runtime].hostLatched = eng[runtime].hostLatched
         /\ \A e \in Detectors :
              /\ Entry(runtime, e)' = Entry(runtime, e)
              /\ Qualifies(runtime, e) => Qualifies(runtime, e)'
              /\ e # d => /\ Qualifies(runtime, e)' <=> Qualifies(runtime, e)
                          /\ CrashDue(runtime, e)' <=> CrashDue(runtime, e)
    BY <1>a, <2>3, <2>8, <2>9, RecordShows
  <2>11. ~CrashDue(runtime, d)'
    BY <2>7, <2>10 DEF CrashDue
  <2>12. QED
    BY <1>a, <2>2, <2>3, <2>7, <2>10, <2>11, DispatchedReports
<1>4. ASSUME NEW label \in {"callback", "health"},
             pc' = [pc EXCEPT ![Worker] = label],
             pc[Worker] \in {"dispatch", "callback"},
             Head(work).action = "Callback",
             UNCHANGED <<running, latched, scanDone, runtime, config, eng,
                         pending, call, work, phase, ready, crashed>>
      PROVE  ReportInv'
  <2>1. pc'[Worker] = label /\ \A u \in Threads : u # Worker => pc'[u] = pc[u]
    BY <1>a, <1>4 DEF TypeOK
  <2>2. OffInv' /\ call[Worker].qualified = <<>>
    BY <1>a, <1>4, <2>1 DEF OffInv, ReportInv, CarriedInv
  <2>3. /\ Scanning' <=> Scanning
        /\ \A h \in Hosts : Starting(h) => Starting(h)'
    BY <1>a, <1>4, <2>1 DEF Scanning, Starting
  <2>4. QED
    BY <1>a, <1>4, <2>2, <2>3, PcMove
<1>5. CASE DispatchCallback
  BY <1>4, <1>5 DEF DispatchCallback
<1>6. ASSUME pc[Worker] = "callback" PROVE Head(work).action = "Callback"
  BY <1>6 DEF InCallback, ReportInv, WorkInv
<1>7. CASE CallbackPanics
  BY <1>4, <1>6, <1>7 DEF CallbackPanics
<1>8. CASE CallbackShares
  <2>1. pc' = [pc EXCEPT ![Worker] = "callback"]
    BY <1>a, <1>8 DEF CallbackShares, TypeOK
  <2>2. QED
    BY <1>4, <1>6, <1>8, <2>1 DEF CallbackShares
<1>9. CASE DispatchCrash
  <2>1. /\ pc[Worker] = "dispatch" /\ crashed'
        /\ UNCHANGED <<running, latched, scanDone, runtime, handles, config,
                       eng, pending, pc, call, work, phase, ready>>
    BY <1>9 DEF DispatchCrash
  <2>2. OffInv' /\ OutcomesInv' /\ CarriedInv' /\ QueuedInv' /\ ReadyInv'
    BY <2>1 DEF ReportInv, OffInv, OutcomesInv, CarriedInv, QueuedInv, ReadyInv
  <2>3. WorkInv'
    BY <2>1 DEF ReportInv, WorkInv, Scanning, InCallback
  <2>4. DenyInv'
    BY <1>c, <2>1 DEF ReportInv, DenyInv, Settled
  <2>5. CrashInv' /\ InitialInv'
    BY <2>1 DEF CrashInv, InitialInv
  <2>6. QED
    BY <2>2, <2>3, <2>4, <2>5 DEF ReportInv
<1>10. CASE DispatchDone
  <2>1. /\ pc[Worker] = "dispatch" /\ work = <<>>
        /\ UNCHANGED <<running, latched, scanDone, runtime, handles, config,
                       eng, pending, call, work, phase, crashed>>
        /\ \A u \in Threads : u # Worker => pc'[u] = pc[u]
        /\ ready' = (ready \/ phase = "initial")
    BY <1>a, <1>10 DEF DispatchDone, TypeOK
  <2>2. /\ pc'[Worker] \in {"take", "scan", "mark"}
        /\ phase = "initial" <=> pc'[Worker] = "take"
    BY <1>a, <1>10 DEF DispatchDone, TypeOK
  <2>3. /\ ~Scanning /\ ~Scanning' /\ ~InCallback' /\ (Settled' <=> Settled)
        /\ \A h \in Hosts : Starting(h)' <=> Starting(h)
    BY <1>a, <2>1, <2>2 DEF Scanning, InCallback, Settled, Starting
  <2>4. OffInv' /\ OutcomesInv' /\ QueuedInv' /\ ReadyInv'
    BY <2>1, <2>2 DEF ReportInv, OffInv, OutcomesInv, QueuedInv, ReadyInv
  <2>5. CarriedInv'
    BY <2>1, <2>2 DEF ReportInv, CarriedInv
  <2>6. WorkInv'
    BY <2>1, <2>3 DEF ReportInv, WorkInv
  <2>7. DenyInv'
    <3>1. \A u \in Threads : pc'[u] = "latching" => pc[u] = "latching"
      BY <2>1, <2>2
    <3>2. QED
      BY <1>c, <2>1, <2>3, <3>1 DEF ReportInv, DenyInv
  <2>8. CrashInv'
    BY <1>c, <2>1, <2>3 DEF ReportInv, CrashInv
  <2>9. InitialInv'
    BY <1>c, <2>1, <2>3 DEF ReportInv, InitialInv
  <2>10. QED
    BY <2>4, <2>5, <2>6, <2>7, <2>8, <2>9 DEF ReportInv
<1>11. CASE WorkerTakes
  <2>1. /\ pc[Worker] = "take" /\ pc'[Worker] = "dispatch"
        /\ \A u \in Threads : u # Worker => pc'[u] = pc[u]
        /\ work' = pending[runtime] /\ pending'[runtime] = <<>>
        /\ phase' = "pending"
        /\ UNCHANGED <<running, latched, scanDone, runtime, handles, config,
                       eng, call, ready, crashed>>
    BY <1>a, <1>11 DEF WorkerTakes, TypeOK
  <2>2. work = <<>> /\ Settled /\ Settled'
    BY <1>a, <1>b, <2>1 DEF ReportInv, WorkInv, Settled
  <2>3. ~Scanning /\ ~Scanning' /\ ~InCallback'
    BY <2>1 DEF Scanning, InCallback
  <2>4. OffInv' /\ OutcomesInv' /\ ReadyInv'
    BY <2>1 DEF ReportInv, OffInv, OutcomesInv, ReadyInv
  <2>5. CarriedInv'
    BY <2>1 DEF ReportInv, CarriedInv
  <2>6. QueuedInv'
    BY <2>1, ReportsOf DEF QueuedInv
  <2>7. WorkInv'
    BY <2>1, <2>3 DEF ReportInv, WorkInv, QueuedInv
  <2>8. DenyInv'
    <3>1. \A u \in Threads : pc'[u] = "latching" => pc[u] = "latching"
      BY <2>1
    <3>2. QED
      BY <1>c, <2>1, <2>2, <3>1 DEF ReportInv, DenyInv
  <2>9. CrashInv'
    <3>1. \A d : ~Holds(work, d)
      BY <2>2, HoldsOf
    <3>2. QED
      BY <1>c, <2>1, <2>2, <3>1 DEF ReportInv, CrashInv
  <2>10. InitialInv'
    <3> SUFFICES ASSUME ~crashed, ~scanDone, NEW i \in DOMAIN CheapScan,
                        CrashDue(runtime, CheapScan[i])
                 PROVE  FALSE
      BY <1>c, <2>1 DEF InitialInv
    <3>1. phase = "initial"
      BY <2>1 DEF ReportInv, ReadyInv
    <3>2. PICK h \in Hosts :
            Starting(h) /\ Holds(call[h].qualified, CheapScan[i])
      BY <2>2, <2>3, <3>1, HoldsOf DEF ReportInv, InitialInv
    <3>3. pc[h] = "await"
      BY <2>1, <3>2 DEF SafeInv, SlotInv
    <3>4. call[h].qualified = <<>>
      BY <1>a, <3>3 DEF ReportInv, CarriedInv
    <3>5. QED
      BY <3>2, <3>4, HoldsOf
  <2>11. QED
    BY <2>4, <2>5, <2>6, <2>7, <2>8, <2>9, <2>10 DEF ReportInv
<1>12. CASE WorkerScans
  <2>1. PICK answers \in Environments :
          call' = [call EXCEPT ![Worker] =
                     [NoCall EXCEPT !.runtime = runtime, !.then = "dispatch",
                                    !.outcomes = ScanVector(FullScan, answers)]]
    BY <1>12 DEF WorkerScans
  <2>2. /\ pc[Worker] = "scan" /\ pc'[Worker] = "record"
        /\ \A u \in Threads : u # Worker => pc'[u] = pc[u] /\ call'[u] = call[u]
        /\ UNCHANGED <<running, latched, scanDone, runtime, handles, config,
                       eng, pending, work, phase, ready, crashed>>
    BY <1>a, <1>12, <2>1 DEF WorkerScans, TypeOK
  <2>3. /\ call'[Worker].then = "dispatch" /\ call'[Worker].qualified = <<>>
        /\ call'[Worker].outcomes = ScanVector(FullScan, answers)
    BY <1>a, <2>1 DEF TypeOK, NoCall
  <2>4. Named(call'[Worker].outcomes)
    <3>1. FullScan \in Seq(Detectors)
      BY RuntimeAssumption DEF FullScan
    <3>2. QED
      BY <2>3, <3>1, ScanNamed
  <2>5. /\ work = <<>> /\ call[Worker].qualified = <<>>
        /\ Settled /\ Settled' /\ Scanning' /\ ~InCallback'
    BY <1>a, <1>b, <2>2, <2>3
    DEF ReportInv, WorkInv, CarriedInv, Settled, Scanning, InCallback
  <2>6. OffInv' /\ QueuedInv' /\ ReadyInv'
    BY <1>a, <2>2 DEF ReportInv, OffInv, QueuedInv, ReadyInv
  <2>7. OutcomesInv'
    BY <2>2, <2>3, <2>4 DEF ReportInv, OutcomesInv
  <2>8. CarriedInv'
    BY <2>2, <2>3, ReportsOf DEF ReportInv, CarriedInv
  <2>9. WorkInv'
    BY <2>2, <2>5 DEF ReportInv, WorkInv
  <2>10. DenyInv'
    <3>1. \A u \in Threads :
            pc'[u] = "latching" => pc[u] = "latching" /\ call'[u] = call[u]
      BY <2>2
    <3>2. QED
      BY <1>c, <2>2, <2>5, <3>1 DEF ReportInv, DenyInv
  <2>11. CrashInv'
    <3>1. \A u \in Threads : \A d :
            Holds(call[u].qualified, d) => Holds(call'[u].qualified, d)
      BY <2>2, <2>3, <2>5
    <3>2. QED
      BY <1>c, <2>2, <2>5, <3>1 DEF ReportInv, CrashInv
  <2>12. InitialInv'
    BY <2>5 DEF InitialInv
  <2>13. QED
    BY <2>6, <2>7, <2>8, <2>9, <2>10, <2>11, <2>12 DEF ReportInv
<1>13. CASE WorkerMarks
  <2>1. /\ pc[Worker] = "mark" /\ pc'[Worker] = "take" /\ scanDone'
        /\ \A h \in Hosts :
             pc'[h] = IF pc[h] = "waiting" THEN "woken" ELSE pc[h]
        /\ UNCHANGED <<running, latched, runtime, handles, config, eng,
                       pending, call, work, phase, ready, crashed>>
    BY <1>a, <1>13 DEF WorkerMarks
  <2>2. /\ work = <<>> /\ Settled /\ Settled' /\ ~Scanning' /\ ~InCallback'
    BY <1>a, <1>b, <2>1
    DEF ReportInv, WorkInv, Settled, Scanning, InCallback
  <2>3. \A u \in Threads : \A label \in RecordPc \cup {"spawn", "enqueue"} :
          pc'[u] = label <=> pc[u] = label
    BY <1>a, <2>1 DEF Threads
  <2>4. OffInv' /\ OutcomesInv' /\ QueuedInv' /\ InitialInv'
    BY <2>1 DEF ReportInv, OffInv, OutcomesInv, QueuedInv, InitialInv
  <2>5. CarriedInv'
    BY <2>1, <2>3 DEF ReportInv, CarriedInv
  <2>6. WorkInv'
    BY <2>1, <2>2 DEF ReportInv, WorkInv
  <2>7. DenyInv'
    BY <1>c, <2>1, <2>2, <2>3 DEF ReportInv, DenyInv
  <2>8. CrashInv'
    BY <1>c, <2>1, <2>2 DEF ReportInv, CrashInv
  <2>9. ReadyInv'
    BY <2>1 DEF ReportInv, ReadyInv
  <2>10. QED
    BY <2>4, <2>5, <2>6, <2>7, <2>8, <2>9 DEF ReportInv
<1>14. CASE WorkerUnwinds
  BY <1>14 DEF WorkerUnwinds
<1>15. QED
  BY <1>1, <1>2, <1>3, <1>5, <1>7, <1>8, <1>9, <1>10, <1>11, <1>12, <1>13,
     <1>14 DEF WorkerStep

(***************************************************************************)
(* Builder::start.                                                         *)
(***************************************************************************)

\* Before its state exists, and after it was dropped, a start carries no
\* report, and nobody else does (builder.rs:216-299, lib.rs:172-219).
LEMMA BareReports ==
  ASSUME TypeOK, ReportInv, NEW h \in Hosts,
         pc[Worker] = "off", pc'[Worker] = "off", ~Settled',
         \A g \in Hosts : g # h => pc[g] = "idle" /\ pc'[g] = "idle",
         pc'[h] \notin RecordPc \cup {"spawn", "enqueue", "await"},
         \A t \in Threads : t # h => call'[t] = call[t],
         call'[h] = NoCall \/ (call'[h] = call[h] /\ call[h].qualified = <<>>),
         pending' = pending \/ pending' = [pending EXCEPT ![runtime] = <<>>],
         UNCHANGED <<handles, work, phase, ready>>, runtime' \in Runtimes
  PROVE  ReportInv'
<1> USE DEF RecordPc, HandlePc
<1>a. /\ Hosts \subseteq Threads /\ Worker \in Threads /\ Worker \notin Hosts
      /\ NoCall.qualified = <<>> /\ NoCall.outcomes = <<>>
      /\ NoCall.then = "none"
  BY RuntimeAssumption DEF Threads, NoCall
<1>b. \A t \in Threads : t # h => /\ pc[t] \in {"idle", "off"}
                                  /\ pc'[t] \in {"idle", "off"}
                                  /\ call[t].qualified = <<>>
  BY <1>a DEF ReportInv, CarriedInv, Threads
<1>c. \A t \in Threads :
        /\ call'[t].qualified = <<>>
        /\ pc'[t] \notin RecordPc \cup {"spawn", "enqueue", "await"}
        /\ call'[t] = call[t] \/ call'[t] = NoCall
  BY <1>a, <1>b
<1>d. /\ work = <<>> /\ phase = "initial" /\ ~ready /\ handles = {}
      /\ \A r \in Runtimes : pending[r] = <<>> /\ pending'[r] = <<>>
  BY DEF ReportInv, OffInv, TypeOK
<1>1. OffInv'
  BY <1>a, <1>c, <1>d DEF OffInv
<1>2. OutcomesInv'
  <2>1. Named(NoCall.outcomes)
    BY <1>a DEF Named
  <2>2. QED
    BY <1>a, <1>c, <2>1 DEF ReportInv, OutcomesInv
<1>3. CarriedInv'
  BY <1>c, ReportsOf DEF CarriedInv
<1>4. QueuedInv'
  BY <1>d, ReportsOf DEF QueuedInv
<1>5. WorkInv'
  BY <1>d, ReportsOf DEF WorkInv, InCallback
<1>6. DenyInv' /\ CrashInv' /\ InitialInv'
  BY DEF DenyInv, CrashInv, InitialInv
<1>7. ReadyInv'
  BY <1>d DEF ReadyInv
<1>8. QED
  BY <1>1, <1>2, <1>3, <1>4, <1>5, <1>6, <1>7 DEF ReportInv

\* A step that changes nothing keeps ReportInv.
LEMMA StutterReports ==
  ASSUME ReportInv, UNCHANGED vars
  PROVE  ReportInv'
<1> USE DEF vars, words, objects, worker
<1>1. OffInv' /\ OutcomesInv' /\ CarriedInv' /\ QueuedInv' /\ WorkInv'
  BY DEF ReportInv, OffInv, OutcomesInv, CarriedInv, QueuedInv, WorkInv,
         Scanning, InCallback
<1>2. DenyInv'
  BY DEF ReportInv, DenyInv, Settled, Entry, Qualifies
<1>3. CrashInv'
  BY DEF ReportInv, CrashInv, Settled, CrashDue, Entry
<1>4. ReadyInv'
  BY DEF ReportInv, ReadyInv
<1>5. InitialInv'
  BY DEF ReportInv, InitialInv, Settled, Scanning, CrashDue, Entry, Starting
<1>6. QED
  BY <1>1, <1>2, <1>3, <1>4, <1>5 DEF ReportInv

\* A failed start drops its reports with its state: nothing that a host could
\* see asked for them (builder.rs:339-349, lib.rs:172-219).
LEMMA StartFailsReports ==
  ASSUME TypeOK, CallShape, SafeInv, ReportInv, NEW h \in Hosts, StartFails(h),
         Starting(h), pc[h] # "await", UNCHANGED worker
  PROVE  ReportInv'
<1>a. /\ Hosts \subseteq Threads /\ Worker \in Threads /\ Worker \notin Hosts
  BY RuntimeAssumption DEF Threads
<1>1. /\ running /\ handles = {} /\ pc[Worker] = "off"
      /\ \A g \in Hosts : g # h => pc[g] = "idle"
  BY StarterAlone
<1>2. /\ pc'[h] = "abandon" /\ pc'[Worker] = "off"
      /\ \A g \in Hosts : g # h => pc'[g] = "idle"
      /\ \A t \in Threads : t # h => call'[t] = call[t]
      /\ call'[h] = NoCall
      /\ pending' = [pending EXCEPT ![runtime] = <<>>]
      /\ UNCHANGED <<handles, work, phase, ready, runtime>>
  BY <1>a, <1>1 DEF StartFails, Goto, TypeOK, worker
<1>3. ~Settled' /\ pc'[h] \notin RecordPc \cup {"spawn", "enqueue", "await"}
  BY <1>2 DEF Settled, BarePc, RollbackPc, RecordPc
<1>4. QED
  BY <1>1, <1>2, <1>3, BareReports DEF TypeOK

\* Builder::start hands the reports of the initial scan to the worker, and
\* returns after the worker is done with them (builder.rs:216-349).
LEMMA StartStepReports ==
  ASSUME TypeInv, SafeInv, ReportInv, NEW h \in Hosts,
         StartClaim(h) \/ StartRefused(h) \/ StartStep(h)
  PROVE  ReportInv'
<1> USE DEF words, objects, worker, Goto, BarePc, StartPc, RollbackPc,
            RecordPc, HandlePc
<1>a. /\ Hosts \subseteq Threads /\ Worker \in Threads /\ Worker \notin Hosts
      /\ TypeOK /\ CallShape /\ runtime \in Runtimes
      /\ NoCall.qualified = <<>> /\ NoCall.outcomes = <<>>
      /\ NoCall.then = "none"
  BY RuntimeAssumption DEF Threads, TypeInv, TypeOK, NoCall
<1>1. CASE StartClaim(h)
  <2>1. /\ pc[h] = "idle" /\ ~running /\ running'
        /\ pc' = [pc EXCEPT ![h] = "validate"]
        /\ UNCHANGED <<handles, pending, call, work, phase, ready>>
        /\ runtime' \in Runtimes
    BY <1>1 DEF StartClaim, FreeRuntimes
  <2>2. /\ handles = {} /\ pc[Worker] = "off" /\ \A g \in Hosts : ~Starting(g)
    BY <2>1 DEF SafeInv, SlotInv, OneRuntime, OneStart
  <2>3. \A g \in Hosts : ~Calling(g)
    BY <2>2 DEF SafeInv, SlotInv
  <2>4. \A g \in Hosts : pc[g] = "idle"
    BY <1>a, <2>2, <2>3 DEF SafeInv, ThreadInv, TypeOK, Starting, Calling,
                            WorkerPc
  <2>5. /\ pc'[h] = "validate" /\ pc'[Worker] = "off"
        /\ \A g \in Hosts : g # h => pc'[g] = "idle"
    BY <1>a, <2>1, <2>2, <2>4 DEF TypeOK
  <2>6. ~Settled' /\ call[h].qualified = <<>>
    BY <1>a, <2>1, <2>5 DEF Settled, ReportInv, CarriedInv
  <2>7. QED
    BY <1>a, <2>1, <2>2, <2>4, <2>5, <2>6, BareReports
<1>2. CASE StartRefused(h)
  BY <1>2, StutterReports DEF StartRefused
<1>3. ASSUME NEW label \in {"initialScan", "abandonLatch", "abandonWait",
                            "release", "idle"},
             pc[h] \in BarePc, pc' = [pc EXCEPT ![h] = label],
             label = "idle" => ~running',
             UNCHANGED <<runtime, handles, pending, call, work, phase, ready>>
      PROVE  ReportInv'
  <2>1. /\ handles = {} /\ pc[Worker] = "off"
        /\ \A g \in Hosts : g # h => pc[g] = "idle"
    BY <1>a, <1>3, StarterAlone DEF Starting
  <2>2. /\ pc'[h] = label /\ pc'[Worker] = "off"
        /\ \A g \in Hosts : g # h => pc'[g] = "idle"
    BY <1>a, <1>3, <2>1 DEF TypeOK
  <2>3. ~Settled' /\ call[h].qualified = <<>>
    BY <1>a, <1>3, <2>2 DEF Settled, ReportInv, CarriedInv
  <2>4. QED
    BY <1>a, <1>3, <2>1, <2>2, <2>3, BareReports
<1>4. CASE StartValidate(h)
  <2>1. CASE StartFails(h) /\ UNCHANGED worker
    BY <1>a, <1>4, <2>1, StartFailsReports DEF StartValidate, Starting
  <2>2. CASE /\ pc' = [pc EXCEPT ![h] = "initialScan"]
             /\ UNCHANGED <<runtime, handles, pending, call, work, phase,
                            ready>>
    BY <1>3, <1>4, <2>2 DEF StartValidate
  <2>3. QED
    BY <1>4, <2>1, <2>2 DEF StartValidate
<1>5. CASE StartBackendFails(h)
  BY <1>a, <1>5, StartFailsReports DEF StartBackendFails, Starting
<1>6. CASE StartScan(h)
  <2>1. CASE StartFails(h)
    BY <1>a, <1>6, <2>1, StartFailsReports DEF StartScan, Starting
  <2>2. CASE ~StartFails(h)
    <3>1. PICK answers \in Environments :
            /\ eng' = [eng EXCEPT ![runtime] = NewState]
            /\ pending' = [pending EXCEPT ![runtime] = <<>>]
            /\ call' = [call EXCEPT ![h] =
                          [NoCall EXCEPT !.runtime = runtime, !.then = "spawn",
                             !.outcomes = ScanVector(CheapScan, answers)]]
            /\ pc' = [pc EXCEPT ![h] = "record"]
            /\ UNCHANGED <<running, latched, scanDone, runtime, handles,
                           config, work, phase, ready, crashed>>
      BY <1>6, <2>2 DEF StartScan
    <3>2. pc[h] = "initialScan" /\ Starting(h)
      BY <1>6 DEF StartScan, Starting
    <3>3. /\ running /\ handles = {} /\ pc[Worker] = "off"
          /\ \A g \in Hosts : g # h => pc[g] = "idle"
      BY <1>a, <3>2, StarterAlone
    <3>4. /\ pc'[h] = "record" /\ pc'[Worker] = "off"
          /\ \A g \in Hosts : g # h => pc'[g] = "idle"
          /\ \A t \in Threads : t # h => call'[t] = call[t] /\ pc'[t] = pc[t]
          /\ call'[h].then = "spawn" /\ call'[h].qualified = <<>>
          /\ call'[h].outcomes = ScanVector(CheapScan, answers)
          /\ eng'[runtime] = NewState
          /\ \A r \in Runtimes : pending'[r] = <<>>
      BY <1>a, <3>1, <3>3 DEF TypeOK, NoCall, ReportInv, OffInv
    <3>5. Named(call'[h].outcomes)
      BY <3>4, ScanNamed, RuntimeAssumption
    <3>6. /\ eng'[runtime].latched = {}
          /\ \A d \in Detectors : ~Qualifies(runtime, d)' /\ ~CrashDue(runtime, d)'
      BY <3>1, <3>4 DEF NewState, NewSlot, Qualifies, CrashDue
    <3>7. \A t \in Threads : pc'[t] # "latching" /\ pc'[t] # "enqueue"
      BY <3>3, <3>4 DEF Threads
    <3>8. /\ work = <<>> /\ phase = "initial" /\ ~ready
      BY <3>3 DEF ReportInv, OffInv
    <3>9. OffInv' /\ ReadyInv' /\ QueuedInv'
      BY <1>a, <3>1, <3>3, <3>4, <3>8, ReportsOf DEF OffInv, ReadyInv, QueuedInv
    <3>10. OutcomesInv'
      BY <3>4, <3>5 DEF ReportInv, OutcomesInv
    <3>11. CarriedInv'
      BY <3>1, <3>4, <3>7, ReportsOf DEF ReportInv, CarriedInv
    <3>12. WorkInv'
      BY <3>1, <3>4, <3>8, ReportsOf DEF WorkInv, InCallback
    <3>13. DenyInv'
      BY <3>1, <3>6, <3>7 DEF DenyInv
    <3>14. CrashInv'
      BY <3>1, <3>6 DEF CrashInv
    <3>15. InitialInv'
      <4>1. \A i \in DOMAIN CheapScan : CheapScan[i] \in Detectors
        BY RuntimeAssumption
      <4>2. QED
        BY <3>1, <3>6, <4>1 DEF InitialInv
    <3>16. QED
      BY <3>9, <3>10, <3>11, <3>12, <3>13, <3>14, <3>15 DEF ReportInv
  <2>3. QED
    BY <2>1, <2>2
<1>7. CASE StartSpawn(h)
  <2>1. /\ pc[h] = "spawn" /\ Starting(h)
        /\ work' = call[h].qualified /\ phase' = "initial" /\ ~ready'
        /\ UNCHANGED <<running, latched, scanDone, runtime, handles, config,
                       eng, pending, crashed>>
    BY <1>7 DEF StartSpawn, Starting
  <2>2. /\ running /\ handles = {} /\ pc[Worker] = "off"
        /\ \A g \in Hosts : g # h => pc[g] = "idle"
    BY <1>a, <2>1, StarterAlone
  <2>3. /\ pc'[h] = "await" /\ pc'[Worker] = "dispatch"
        /\ \A g \in Hosts : g # h => pc'[g] = "idle"
        /\ \A t \in Threads : t # h => call'[t] = call[t]
        /\ call'[h] = NoCall
    BY <1>a, <1>7, <2>2 DEF StartSpawn, TypeOK
  <2>4. work = <<>> /\ phase = "initial"
    BY <2>2 DEF ReportInv, OffInv
  <2>5. /\ Settled /\ Settled' /\ ~Scanning /\ ~Scanning' /\ ~InCallback'
        /\ \A g \in Hosts : Starting(g) => g = h
    BY <1>a, <2>1, <2>2, <2>3
    DEF Settled, Scanning, InCallback, Starting
  <2>6. \A d : /\ Entry(runtime, d)' = Entry(runtime, d)
               /\ Qualifies(runtime, d)' <=> Qualifies(runtime, d)
               /\ CrashDue(runtime, d)' <=> CrashDue(runtime, d)
    BY <2>1, ShowsKept
  <2>7. \A t \in Threads : /\ pc'[t] \in {"await", "idle", "dispatch"}
                           /\ t # h => call[t].qualified = <<>>
                           /\ call'[t].qualified = <<>>
    BY <1>a, <2>2, <2>3 DEF Threads, ReportInv, CarriedInv
  <2>8. OffInv' /\ ReadyInv' /\ QueuedInv'
    BY <2>1, <2>3 DEF ReportInv, OffInv, ReadyInv, QueuedInv
  <2>9. OutcomesInv'
    <3>1. Named(NoCall.outcomes)
      BY <1>a DEF Named
    <3>2. QED
      BY <1>a, <2>3, <3>1 DEF ReportInv, OutcomesInv
  <2>10. CarriedInv'
    BY <2>7, ReportsOf DEF CarriedInv
  <2>11. WorkInv'
    BY <1>a, <2>1, <2>3, <2>5 DEF ReportInv, WorkInv, CarriedInv
  <2>12. DenyInv'
    BY <2>1, <2>5, <2>6, <2>7 DEF ReportInv, DenyInv
  <2>13. CrashInv'
    <3> SUFFICES ASSUME ~crashed, NEW d \in Detectors, CrashDue(runtime, d),
                        ~Holds(pending[runtime], d)
                 PROVE  Holds(work', d)
      BY <2>1, <2>6 DEF CrashInv
    <3>1. PICK t \in Threads : Holds(call[t].qualified, d)
      BY <2>4, <2>5, HoldsOf DEF ReportInv, CrashInv
    <3>2. t = h
      BY <2>7, <3>1, HoldsOf
    <3>3. QED
      BY <2>1, <3>1, <3>2
  <2>14. InitialInv'
    <3> SUFFICES ASSUME ~crashed, ~scanDone, NEW i \in DOMAIN CheapScan,
                        CrashDue(runtime, CheapScan[i])
                 PROVE  Holds(work', CheapScan[i])
      BY <2>1, <2>6 DEF InitialInv
    <3>1. \E g \in Hosts : Starting(g) /\ Holds(call[g].qualified, CheapScan[i])
      BY <2>4, <2>5, HoldsOf DEF ReportInv, InitialInv
    <3>2. QED
      BY <2>1, <2>5, <3>1
  <2>15. QED
    BY <2>8, <2>9, <2>10, <2>11, <2>12, <2>13, <2>14 DEF ReportInv
<1>8. CASE StartSpawnFails(h)
  BY <1>a, <1>8, StartFailsReports DEF StartSpawnFails, Starting
<1>9. CASE StartReturns(h)
  <2>1. /\ pc[h] = "await" /\ ready /\ pc' = [pc EXCEPT ![h] = "idle"]
        /\ UNCHANGED <<running, latched, scanDone, runtime, config, eng,
                       pending, call, work, phase, ready, crashed>>
    BY <1>9 DEF StartReturns
  <2>2. pc'[h] = "idle" /\ \A t \in Threads : t # h => pc'[t] = pc[t]
    BY <1>a, <2>1 DEF TypeOK
  <2>3. OffInv' /\ call[h].qualified = <<>>
    BY <1>a, <2>1, <2>2 DEF ReportInv, OffInv, CarriedInv
  <2>4. /\ Scanning' <=> Scanning
        /\ InCallback' <=> InCallback
        /\ \A g \in Hosts : Starting(g) => Starting(g)' \/ g = h
    BY <1>a, <2>1, <2>2 DEF Scanning, InCallback, Starting
  <2>5. InCallback' => Head(work).action = "Callback"
    BY <2>4 DEF ReportInv, WorkInv
  <2>6. QED
    BY <1>a, <2>1, <2>3, <2>4, <2>5, PcMove
<1>10. CASE StartWorkerStopped(h)
  BY <1>10 DEF StartWorkerStopped, SafeInv, ThreadInv
<1>11. CASE AbandonDeny(h) \/ AbandonLatch(h) \/ AbandonWait(h)
             \/ AbandonRelease(h)
  BY <1>3, <1>11 DEF AbandonDeny, AbandonLatch, AbandonWait, AbandonRelease
<1>12. QED
  BY <1>1, <1>2, <1>4, <1>5, <1>6, <1>7, <1>8, <1>9, <1>10, <1>11
  DEF StartStep

(***************************************************************************)
(* The theorems.                                                           *)
(***************************************************************************)

\* Every step keeps ReportInv (builder.rs:216-349, handle.rs:88-180,
\* worker.rs:74-317, pending.rs:72-84), when no panic escapes the worker.
LEMMA NextReports ==
  ASSUME TypeInv, SafeInv, ReportInv, ~Unwinds, [Next]_vars
  PROVE  ReportInv'
<1>1. ASSUME NEW h \in Hosts, StartClaim(h) \/ StartRefused(h) \/ StartStep(h)
      PROVE  ReportInv'
  BY <1>1, StartStepReports
<1>2. CASE WorkerStep
  BY <1>2, WorkerStepReports
<1>3. ASSUME NEW t \in Threads, HandleCall(t) \/ HandleStep(t)
      PROVE  ReportInv'
  BY <1>3, HandleStepReports
<1>4. ASSUME NEW t \in Threads, RecordStep(t)
      PROVE  ReportInv'
  BY <1>4, RecordStepReports
<1>5. CASE UNCHANGED vars
  BY <1>5, StutterReports
<1>6. QED
  BY <1>1, <1>2, <1>3, <1>4, <1>5 DEF Next, Aborted

\* A finding that asks for a response is answered, or its report is on its way
\* to the worker, in every reachable state (worker.rs:64-317,
\* pending.rs:72-84), when no panic escapes the worker.
THEOREM ReportInvariance ==
  ASSUME ~Unwinds
  PROVE  Spec => []ReportInv
<1>1. Init => ReportInv
  <2> SUFFICES ASSUME Init PROVE ReportInv
    OBVIOUS
  <2>1. /\ pc[Worker] = "off" /\ \A h \in Hosts : pc[h] = "idle"
        /\ \A t \in Threads : pc[t] \in {"off", "idle"}
        /\ \A t \in Threads : /\ call[t].qualified = <<>>
                              /\ call[t].outcomes = <<>>
                              /\ call[t].then = "none"
        /\ runtime \in Runtimes /\ pending[runtime] = <<>>
    BY RuntimeAssumption DEF Init, Threads, NoCall, AnyRuntime
  <2>2. OffInv
    BY <2>1 DEF Init, OffInv
  <2>3. OutcomesInv
    BY <2>1 DEF OutcomesInv, Named
  <2>4. CarriedInv /\ QueuedInv
    BY <2>1, ReportsOf DEF CarriedInv, QueuedInv
  <2>5. WorkInv
    BY <2>1, ReportsOf DEF Init, WorkInv, InCallback, RecordPc, HandlePc
  <2>6. DenyInv /\ CrashInv /\ InitialInv
    BY DEF Init, DenyInv, CrashInv, InitialInv, Settled
  <2>7. ReadyInv
    BY <2>1 DEF Init, ReadyInv
  <2>8. QED
    BY <2>2, <2>3, <2>4, <2>5, <2>6, <2>7 DEF ReportInv
<1>2. IInv => SafeInv
  BY DEF IInv, SafeInv
<1>3. TypeInv /\ SafeInv /\ ReportInv /\ [Next]_vars => ReportInv'
  BY NextReports
<1>4. QED
  BY <1>1, <1>2, <1>3, TypeInvariance, Invariance, PTL DEF Spec

\* A host can reach only the runtime of the start that made its state
\* (builder.rs:330-338, handle.rs:59-66).
LEMMA ReachedSettled ==
  ASSUME IInv, NEW r \in handles
  PROVE  r = runtime /\ Settled
<1>1. /\ running /\ r = runtime
      /\ \A h \in Hosts : Starting(h) => pc[h] = "await"
  BY DEF IInv, SlotInv, OneRuntime
<1>2. QED
  BY <1>1 DEF Settled, Starting, BarePc, StartPc, RollbackPc

\* A snapshot explains every denial (state.rs:112-116): the host denied the
\* category, or a detector of it still shows the finding that did.
THEOREM DenialExplained ==
  ASSUME ~Unwinds
  PROVE  Spec => []LatchExplained
<1>1. IInv /\ ReportInv => LatchExplained
  BY ReachedSettled DEF ReportInv, DenyInv, LatchExplained
<1>2. QED
  BY <1>1, Invariance, ReportInvariance, PTL

\* No qualifying finding of a Deny category is shown without its latch
\* (worker.rs:64-69).
THEOREM DenialEffective ==
  ASSUME ~Unwinds
  PROVE  Spec => []DenyTakesEffect
<1>1. IInv /\ ReportInv => DenyTakesEffect
  BY ReachedSettled DEF ReportInv, DenyInv, DenyTakesEffect
<1>2. QED
  BY <1>1, Invariance, ReportInvariance, PTL

\* A Crash is never lost between the slot that shows its finding and the abort
\* (worker.rs:266-287, pending.rs:72-84).
THEOREM CrashKept ==
  ASSUME ~Unwinds
  PROVE  Spec => []CrashNeverLost
<1>1. IInv /\ ReportInv => CrashNeverLost
  BY ReachedSettled DEF ReportInv, CrashInv, CrashNeverLost
<1>2. QED
  BY <1>1, Invariance, ReportInvariance, PTL

\* "A Crash stops the process, so start() does not return" (ADR-0009): a start
\* that returned left no due Crash of its initial scan behind.
THEOREM InitialCrashStops ==
  ASSUME ~Unwinds
  PROVE  Spec => []InitialCrashStopsStart
<1>1. IInv /\ ReportInv => InitialCrashStopsStart
  <2> SUFFICES ASSUME IInv, ReportInv, ~crashed, handles # {},
                      \A h \in Hosts : ~Starting(h), phase # "scan",
                      ~scanDone, pc[Worker] \notin RecordPc,
                      NEW i \in DOMAIN CheapScan,
                      CrashDue(runtime, CheapScan[i])
               PROVE  FALSE
    BY DEF InitialCrashStopsStart
  <2>1. Settled /\ ~Scanning
    BY ReachedSettled DEF Scanning
  <2>2. phase = "initial" /\ Holds(work, CheapScan[i])
    BY <2>1 DEF ReportInv, InitialInv
  <2>3. \A h \in Hosts : pc[h] # "await"
    BY DEF Starting, StartPc
  <2>4. pc[Worker] = "take"
    BY <2>2, <2>3 DEF ReportInv, OffInv, ReadyInv
  <2>5. work = <<>>
    BY <2>4 DEF ReportInv, WorkInv
  <2>6. QED
    BY <2>2, <2>5, HoldsOf
<1>2. QED
  BY <1>1, Invariance, ReportInvariance, PTL
=============================================================================

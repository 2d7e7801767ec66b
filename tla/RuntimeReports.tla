--------------------------- MODULE RuntimeReports ---------------------------
(***************************************************************************)
(* The inductive invariant behind the response properties of Runtime, for  *)
(* a worker that no panic escapes (~Unwinds): where a report can be on its *)
(* way from record() to its action, and what it says there. MCRuntime      *)
(* checks it with TLC, RuntimeReportProofs proves it.                      *)
(***************************************************************************)
EXTENDS RuntimeInvariant

\* The start that holds the slot has made its state and its queue.
Settled == running /\ \A h \in Hosts : pc[h] \notin BarePc

\* The worker is recording a full scan.
Scanning == pc[Worker] \in RecordPc /\ call[Worker].then = "dispatch"

\* Each report carries what the policy makes of its finding.
Answers(policy, reports) ==
  \A i \in DOMAIN reports :
    LET finding == reports[i].finding
        action == policy[CategoryOf[finding.detector]].action
    IN  reports[i].action = IF action = "Crash" /\ finding.health
                            THEN "Report" ELSE action

\* Each report is of the host, about its own environment.
FromHost(reports) ==
  \A i \in DOMAIN reports :
    /\ reports[i].finding.detector = HostReport
    /\ ~reports[i].finding.health

\* Each outcome to record is of the detector that it names, and in a call of
\* the host it is an observation of the host.
Named(outcomes) ==
  \A i \in DOMAIN outcomes :
    IsFinding(outcomes[i].outcome) =>
      outcomes[i].outcome.finding.detector = outcomes[i].detector

Observations(outcomes) ==
  \A i \in DOMAIN outcomes :
    /\ IsFinding(outcomes[i].outcome) /\ outcomes[i].detector = HostReport
    /\ ~outcomes[i].outcome.finding.health

\* Before the worker runs nobody has a handle, and nothing waits for it.
OffInv ==
  pc[Worker] = "off" =>
    /\ work = <<>> /\ phase = "initial" /\ ~ready
    /\ handles = {} /\ (\A r \in Runtimes : pending[r] = <<>>)
    /\ \A h \in Hosts : pc[h] # "await"

\* A thread records what its detectors found, each under its own name, and a
\* host only what it observed.
OutcomesInv ==
  \A t \in Threads :
    /\ Named(call[t].outcomes)
    /\ call[t].then = "enqueue" => Observations(call[t].outcomes)

\* Only a thread inside record(), or between record() and what comes after,
\* carries reports, each with the action of its policy entry.
CarriedInv ==
  \A t \in Threads :
    /\ pc[t] \notin RecordPc \cup {"spawn", "enqueue"} =>
         call[t].qualified = <<>>
    /\ pc[t] = "enqueue" => call[t].then = "enqueue"
    /\ Answers(config[runtime].policy, call[t].qualified)
    /\ call[t].then = "enqueue" => FromHost(call[t].qualified)

\* The queue holds reports of the host.
QueuedInv ==
  /\ Answers(config[runtime].policy, pending[runtime])
  /\ FromHost(pending[runtime])

\* The worker finishes one dispatch before it takes or scans again, and is in
\* the callback only for a report that asks for it.
WorkInv ==
  /\ pc[Worker] \in {"take", "scan", "mark"} \/ Scanning => work = <<>>
  /\ InCallback => Head(work).action = "Callback"
  /\ Answers(config[runtime].policy, work)

\* A latch is explained, a finding that asks for one has it, and a latch under
\* way is of the finding that is being recorded.
DenyInv ==
  Settled =>
    /\ \A category \in eng[runtime].latched :
         \/ category \in eng[runtime].hostLatched
         \/ \E d \in Detectors : /\ CategoryOf[d] = category
                                 /\ Entry(runtime, d).action = "Deny"
                                 /\ Qualifies(runtime, d)
    /\ \A d \in Detectors :
         Entry(runtime, d).action = "Deny" /\ Qualifies(runtime, d)
           => CategoryOf[d] \in latched
    /\ \A t \in Threads : pc[t] = "latching" =>
         \E d \in Detectors : /\ d = Head(call[t].outcomes).detector
                              /\ call[t].category = {CategoryOf[d]}
                              /\ Entry(runtime, d).action = "Deny"
                              /\ Qualifies(runtime, d)

\* The report of a due Crash is on its way.
CrashInv ==
  Settled =>
    \A d \in Detectors : CrashDue(runtime, d) =>
      \/ crashed
      \/ Holds(work, d)
      \/ Holds(pending[runtime], d)
      \/ \E t \in Threads : Holds(call[t].qualified, d)

\* Readiness follows the initial actions, and the first take follows it.
ReadyInv ==
  /\ phase = "initial" /\ ready => pc[Worker] = "take"
  /\ phase = "initial" /\ ~ready /\ pc[Worker] # "off" =>
       \E h \in Hosts : pc[h] = "await"
  /\ pc[Worker] = "take" => phase = "initial" \/ scanDone

\* Until the first full scan is recorded, the report of a due Crash that the
\* initial scan found is with the start or among the initial actions.
InitialInv ==
  Settled /\ ~crashed /\ phase # "scan" /\ ~scanDone /\ ~Scanning =>
    \A i \in DOMAIN CheapScan :
      LET d == CheapScan[i]
      IN  CrashDue(runtime, d) =>
            \/ phase = "initial" /\ Holds(work, d)
            \/ \E h \in Hosts : Starting(h) /\ Holds(call[h].qualified, d)

\* A finding that asks for a response is answered, or its report is on its way
\* to the worker.
ReportInv ==
  /\ OffInv /\ OutcomesInv /\ CarriedInv /\ QueuedInv /\ WorkInv
  /\ DenyInv /\ CrashInv /\ ReadyInv /\ InitialInv
=============================================================================

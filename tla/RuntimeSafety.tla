---------------------------- MODULE RuntimeSafety ----------------------------
(***************************************************************************)
(* Proofs about Runtime, for any hosts, detectors, policies and probe      *)
(* answers: type correctness of every worker, and the safety of the start  *)
(* protocol and of the denial latch when no panic escapes the worker. IInv *)
(* is inductive; LatchesAgree and the other properties follow from it.     *)
(***************************************************************************)
EXTENDS RuntimeInvariant, TLAPS

(***************************************************************************)
(* The operators keep their types.                                         *)
(***************************************************************************)

\* Slots and states of a runtime start in their types (state.rs:14-25, 75-87).
LEMMA NewStateType == NewSlot \in Slot /\ NewState \in State
<1>1. NewSlot \in Slot
  BY OccurrencesAssumption DEF NewSlot, Slot, NotRun, Outcome
<1>2. QED
  BY <1>1 DEF NewState, State, CategorySet

\* Recording an outcome keeps the slot a slot (state.rs:27-43).
LEMMA SlotRecordType ==
  ASSUME NEW slot \in Slot, NEW outcome \in Outcome
  PROVE  SlotRecord(slot, outcome) \in Slot
<1>1. CASE ~IsFinding(outcome)
  BY <1>1 DEF SlotRecord, Slot
<1>2. CASE IsFinding(outcome)
  <2>1. outcome.finding \in Finding
    BY <1>2 DEF IsFinding, Outcome
  <2>2. outcome.finding.at \in Nat
    BY <2>1 DEF Finding
  <2>3. (IF slot.occurrences < MaxOccurrences
         THEN slot.occurrences + 1 ELSE slot.occurrences)
           \in 0 .. MaxOccurrences
    BY OccurrencesAssumption DEF Slot
  <2>4. QED
    BY <1>2, <2>1, <2>2, <2>3 DEF SlotRecord, Slot
<1>3. QED
  BY <1>1, <1>2

\* State updates keep the state a state (state.rs:93-117).
LEMMA StateOpsType ==
  ASSUME NEW state \in State
  PROVE  /\ \A d \in Detectors, outcome \in Outcome :
              StateRecord(state, d, outcome) \in State
         /\ \A category \in Categories :
              /\ StateLatch(state, category) \in State
              /\ StateLatchByHost(state, category) \in State
<1>1. ASSUME NEW d \in Detectors, NEW outcome \in Outcome
      PROVE  StateRecord(state, d, outcome) \in State
  <2>1. state.slots[d] \in Slot
    BY DEF State
  <2>2. SlotRecord(state.slots[d], outcome) \in Slot
    BY <2>1, SlotRecordType
  <2>3. QED
    BY <2>2 DEF StateRecord, State
<1>2. ASSUME NEW category \in Categories
      PROVE  /\ StateLatch(state, category) \in State
             /\ StateLatchByHost(state, category) \in State
  BY DEF StateLatch, StateLatchByHost, State, CategorySet
<1>3. QED
  BY <1>1, <1>2

\* A scan yields one typed outcome per detector, in order (detect lib.rs:137-192).
LEMMA ScanVectorType ==
  ASSUME NEW detectors \in Seq(Detectors), NEW answers \in Environments
  PROVE  ScanVector(detectors, answers) \in Seq(Observed)
<1>1. answers \in [Detectors -> Outcome]
  BY RuntimeAssumption
<1>2. \A i \in 1 .. Len(detectors) :
        [detector |-> detectors[i], outcome |-> answers[detectors[i]]]
          \in Observed
  BY <1>1 DEF Observed
<1>3. QED
  BY <1>2 DEF ScanVector

\* The queue keeps its type and its bound (pending.rs:42-49, 77-84).
LEMMA PendingAddType ==
  ASSUME NEW queue \in Seq(Report), NEW qualified \in Seq(Report),
         Len(queue) <= MOST_REPORTS
  PROVE  /\ PendingAdd(queue, qualified) \in Seq(Report)
         /\ Len(PendingAdd(queue, qualified)) <= MOST_REPORTS
<1> DEFINE n == IF Len(qualified) <= MOST_REPORTS - Len(queue)
                THEN Len(qualified) ELSE MOST_REPORTS - Len(queue)
<1>1. n \in 0 .. Len(qualified) /\ n <= MOST_REPORTS - Len(queue)
  BY MostReportsAssumption
<1>2. SubSeq(qualified, 1, n) \in Seq(Report) /\ Len(SubSeq(qualified, 1, n)) = n
  BY <1>1
<1>3. QED
  BY <1>1, <1>2, MostReportsAssumption DEF PendingAdd

\* A report carries a finding that qualified (policy.rs:85-95).
LEMMA QualifyingActionType ==
  ASSUME NEW policy \in Policy, NEW finding \in Finding
  PROVE  \/ QualifyingAction(policy, finding) = {}
         \/ \E action \in Actions :
              QualifyingAction(policy, finding) = {action}
<1>1. CategoryOf[finding.detector] \in Categories
  BY DetectorAssumption DEF Finding
<1>2. policy[CategoryOf[finding.detector]].action \in Actions
  BY <1>1 DEF Policy
<1>3. QED
  BY <1>2 DEF QualifyingAction, Actions

\* A thread outside every call, and the arbitrary runtime and configuration
\* that it carries, are in their types (builder.rs:216-228).
LEMMA NoCallType == NoCall \in Call /\ AnyRuntime \in Runtimes /\ AnyConfig \in Configs
<1>1. AnyRuntime \in Runtimes /\ AnyConfig \in Configs
  BY RuntimeAssumption DEF AnyRuntime, AnyConfig
<1>2. QED
  BY <1>1 DEF NoCall, Call, CategorySet

(***************************************************************************)
(* Type correctness, whatever the worker does. TypeOK alone is not         *)
(* inductive: a step that takes the head of a sequence, or that goes on    *)
(* with the rest of a call, needs CallShape.                               *)
(***************************************************************************)

TypeInv == TypeOK /\ CallShape

\* What the type of a thread's call gives each step of it (worker.rs:74-113).
LEMMA CallType ==
  ASSUME TypeOK, NEW t \in Threads
  PROVE  /\ call[t] \in Call
         /\ call[t].runtime \in Runtimes
         /\ call[t].outcomes \in Seq(Observed)
         /\ call[t].qualified \in Seq(Report)
         /\ call[t].category \subseteq Categories
         /\ eng[call[t].runtime] \in State
         /\ config[call[t].runtime].policy \in Policy
BY RuntimeAssumption DEF TypeOK, Call, CategorySet, Config

\* The report of a qualifying outcome is a report (worker.rs:88-98).
LEMMA ReportType ==
  ASSUME NEW observed \in Observed, NEW policy \in Policy,
         IsFinding(observed.outcome),
         NEW action, action = QualifyingAction(policy, observed.outcome.finding),
         action # {}
  PROVE  [finding |-> observed.outcome.finding,
          action |-> CHOOSE a \in action : TRUE] \in Report
<1>1. observed.outcome.finding \in Finding
  BY DEF IsFinding, Outcome, Observed
<1>2. PICK a \in Actions : action = {a}
  BY <1>1, QualifyingActionType
<1>3. (CHOOSE b \in action : TRUE) \in Actions
  BY <1>2
<1>4. QED
  BY <1>1, <1>3 DEF Report

\* Context::record keeps TypeInv (worker.rs:74-113).
LEMMA RecordStepType ==
  ASSUME TypeInv, NEW t \in Threads, RecordStep(t)
  PROVE  TypeInv'
<1> USE DEF StartPc, RecordPc, HandlePc, WorkerPc, RollbackPc, Goto, words,
            worker, objects
<1>a. TypeOK /\ CallShape
  BY DEF TypeInv
<1>1. CASE RecordLock(t)
  <2>1. TypeOK'
    BY <1>a, <1>1, CallType DEF TypeOK, RecordLock
  <2>2. CallShape'
    BY <1>a, <1>1 DEF TypeOK, RecordLock, CallShape, InCallback
  <2>3. QED
    BY <2>1, <2>2 DEF TypeInv
<1>2. CASE RecordOutcome(t)
  <2> DEFINE r == call[t].runtime
             observed == Head(call[t].outcomes)
             action == IF IsFinding(observed.outcome)
                       THEN QualifyingAction(config[r].policy,
                                             observed.outcome.finding)
                       ELSE {}
  <2>1. observed \in Observed /\ Tail(call[t].outcomes) \in Seq(Observed)
    BY <1>a, <1>2, CallType DEF RecordOutcome
  <2>2. /\ observed.detector \in Detectors
        /\ observed.outcome \in Outcome
        /\ CategoryOf[observed.detector] \in Categories
    BY <2>1, DetectorAssumption DEF Observed
  <2>3. StateRecord(eng[r], observed.detector, observed.outcome) \in State
    BY <1>a, <2>2, CallType, StateOpsType
  <2>4. eng' \in [Runtimes -> State]
    BY <1>a, <1>2, <2>3, CallType DEF TypeOK, RecordOutcome
  <2>5. CASE action = {"Deny"}
    <3>1. IsFinding(observed.outcome)
      BY <2>5
    <3>2. /\ latched' = latched \cup {CategoryOf[observed.detector]}
          /\ call' = [call EXCEPT ![t].category =
                                    {CategoryOf[observed.detector]}]
          /\ pc' = [pc EXCEPT ![t] = "latching"]
      BY <1>2, <2>5 DEF RecordOutcome
    <3>3. call' \in [Threads -> Call] /\ latched' \in CategorySet
      BY <1>a, <2>2, <3>2, CallType, ZenonT(60) DEF TypeOK, Call, CategorySet
    <3>4. TypeOK'
      BY <1>a, <1>2, <2>4, <3>2, <3>3 DEF TypeOK, RecordOutcome
    <3>5. CallShape'
      BY <1>a, <1>2, <3>1, <3>2 DEF TypeOK, RecordOutcome, CallShape, InCallback
    <3>6. QED
      BY <3>4, <3>5 DEF TypeInv
  <2>6. CASE action # {"Deny"}
    <3> DEFINE report == [finding |-> observed.outcome.finding,
                          action |-> CHOOSE a \in action : TRUE]
               kept == IF action = {} THEN call[t].qualified
                       ELSE Append(call[t].qualified, report)
    <3>1. kept \in Seq(Report)
      <4>1. CASE action = {}
        BY <1>a, <4>1, CallType
      <4>2. CASE action # {}
        <5>1. IsFinding(observed.outcome)
          BY <4>2
        <5>2. action = QualifyingAction(config[r].policy,
                                        observed.outcome.finding)
          BY <5>1
        <5>3. report \in Report
          BY <1>a, <2>1, <4>2, <5>1, <5>2, CallType, ReportType
        <5>4. QED
          BY <1>a, <4>2, <5>3, CallType
      <4>3. QED
        BY <4>1, <4>2
    <3>2. /\ call' = [call EXCEPT ![t].outcomes = Tail(@),
                                  ![t].qualified = kept]
          /\ latched' = latched /\ pc' = pc
      BY <1>2, <2>6 DEF RecordOutcome
    <3> HIDE DEF kept
    <3>3. call' \in [Threads -> Call]
      BY <1>a, <2>1, <3>1, <3>2, ZenonT(60) DEF TypeOK, Call
    <3>4. TypeOK'
      BY <1>a, <1>2, <2>4, <3>2, <3>3 DEF TypeOK, RecordOutcome
    <3>5. \A u \in Threads : /\ call'[u].then = call[u].then
                             /\ u # t => call'[u] = call[u]
      BY <1>a, <3>2 DEF TypeOK, Call
    <3>6. pc[t] = "recording" /\ UNCHANGED <<pc, work>>
      BY <1>2, <3>2 DEF RecordOutcome
    <3>7. CallShape'
      BY <1>a, <3>5, <3>6 DEF CallShape, InCallback, Threads
    <3>8. QED
      BY <3>4, <3>7 DEF TypeInv
  <2>7. QED
    BY <2>5, <2>6
<1>3. CASE RecordLatch(t)
  <2> DEFINE report == [finding |-> Head(call[t].outcomes).outcome.finding,
                        action |-> "Deny"]
  <2>1. PICK category \in call[t].category :
          eng' = [eng EXCEPT ![call[t].runtime] = StateLatch(@, category)]
    BY <1>3 DEF RecordLatch
  <2>2. eng' \in [Runtimes -> State]
    BY <1>a, <2>1, CallType, StateOpsType DEF TypeOK
  <2>3. /\ Tail(call[t].outcomes) \in Seq(Observed)
        /\ Head(call[t].outcomes) \in Observed
        /\ IsFinding(Head(call[t].outcomes).outcome)
    BY <1>a, <1>3, CallType DEF RecordLatch, CallShape
  <2>4. report \in Report
    BY <2>3 DEF Report, Actions, IsFinding, Observed, Outcome
  <2>5. call' \in [Threads -> Call]
    BY <1>a, <1>3, <2>3, <2>4, SMTT(30) DEF TypeOK, RecordLatch, Call, CategorySet
  <2>6. TypeOK'
    BY <1>a, <1>3, <2>2, <2>5 DEF TypeOK, RecordLatch
  <2>7. \A u \in Threads : /\ call'[u].then = call[u].then
                           /\ u # t => call'[u] = call[u]
    BY <1>a, <1>3 DEF TypeOK, RecordLatch, Call
  <2>8. /\ pc[t] = "latching"
        /\ pc' = [pc EXCEPT ![t] = "recording"]
        /\ work' = work
    BY <1>3 DEF RecordLatch
  <2>9. CallShape'
    BY <1>a, <2>7, <2>8 DEF TypeOK, CallShape, InCallback, Threads
  <2>10. QED
    BY <2>6, <2>9 DEF TypeInv
<1>4. CASE RecordUnlock(t)
  <2>1. call[t].then \in {"spawn", "enqueue", "dispatch"}
    BY <1>a, <1>4 DEF CallShape, RecordUnlock, Threads
  <2>2. TypeOK'
    BY <1>a, <1>4, <2>1, CallType, NoCallType, ZenonT(60) DEF TypeOK, RecordUnlock
  <2>3. CallShape'
    BY <1>a, <1>4, <2>1, RuntimeAssumption
    DEF TypeOK, RecordUnlock, CallShape, InCallback, Threads
  <2>4. QED
    BY <2>2, <2>3 DEF TypeInv
<1>5. QED
  BY <1>1, <1>2, <1>3, <1>4 DEF RecordStep

\* A failing start drops its locals and its runtime in their types.
LEMMA StartFailsType ==
  ASSUME TypeInv, NEW h \in Hosts, StartFails(h),
         pc[h] \notin RecordPc, UNCHANGED worker, denyUntil' \in BOOLEAN
  PROVE  TypeInv'
<1> USE DEF StartPc, RecordPc, HandlePc, WorkerPc, RollbackPc, Goto, words,
            worker, objects
<1>a. TypeOK /\ CallShape
  BY DEF TypeInv
<1>1. TypeOK'
  <2>1. /\ config' \in [Runtimes -> Configs]
        /\ eng' \in [Runtimes -> State]
        /\ pending' \in [Runtimes -> Seq(Report)]
        /\ \A r \in Runtimes : Len(pending'[r]) <= MOST_REPORTS
    <3>1. CASE runtime \in handles
      BY <1>a, <3>1 DEF TypeOK, StartFails
    <3>2. CASE runtime \notin handles
      <4>1. /\ config' = [config EXCEPT ![runtime] = AnyConfig]
            /\ eng' = [eng EXCEPT ![runtime] = NewState]
            /\ pending' = [pending EXCEPT ![runtime] = <<>>]
        BY <3>2 DEF StartFails
      <4>2. config' \in [Runtimes -> Configs] /\ eng' \in [Runtimes -> State]
        BY <1>a, <4>1, NoCallType, NewStateType DEF TypeOK
      <4>3. <<>> \in Seq(Report) /\ Len(<<>>) <= MOST_REPORTS
        BY MostReportsAssumption
      <4>4. QED
        BY <1>a, <4>1, <4>2, <4>3 DEF TypeOK
    <3>3. QED
      BY <3>1, <3>2
  <2>3. pc' = [pc EXCEPT ![h] = "abandon"] /\ h \in Threads
    BY DEF StartFails, Threads
  <2>4. call' \in [Threads -> Call]
    BY <1>a, NoCallType DEF TypeOK, StartFails
  <2>5. QED
    BY <1>a, <2>1, <2>3, <2>4 DEF TypeOK, StartFails
<1>2. CallShape'
  BY <1>a, RuntimeAssumption
  DEF TypeOK, StartFails, CallShape, InCallback, Threads
<1>3. QED
  BY <1>1, <1>2 DEF TypeInv

\* Builder::start and its rollback keep TypeInv.
LEMMA StartStepType ==
  ASSUME TypeInv, NEW h \in Hosts,
         StartClaim(h) \/ StartRefused(h) \/ StartStep(h)
  PROVE  TypeInv'
<1> USE DEF StartPc, RecordPc, HandlePc, WorkerPc, RollbackPc, Goto, words,
            worker, objects
<1>a. TypeOK /\ CallShape
  BY DEF TypeInv
<1>1. CASE StartClaim(h)
  <2>1. TypeOK'
    BY <1>a, <1>1 DEF TypeOK, StartClaim, Threads, FreeRuntimes
  <2>2. CallShape'
    BY <1>a, <1>1, RuntimeAssumption
    DEF TypeOK, StartClaim, CallShape, InCallback, Threads
  <2>3. QED
    BY <2>1, <2>2 DEF TypeInv
<1>2. CASE StartSpawn(h)
  <2>1. TypeOK'
    BY <1>a, <1>2, CallType, NoCallType DEF TypeOK, StartSpawn, Threads
  <2>2. CallShape'
    BY <1>a, <1>2, RuntimeAssumption
    DEF TypeOK, StartSpawn, CallShape, InCallback, Threads
  <2>3. QED
    BY <2>1, <2>2 DEF TypeInv
<1>3. CASE StartReturns(h)
  <2>1. TypeOK'
    BY <1>a, <1>3 DEF TypeOK, StartReturns, Threads
  <2>2. CallShape'
    BY <1>a, <1>3, RuntimeAssumption
    DEF TypeOK, StartReturns, CallShape, InCallback, Threads
  <2>3. QED
    BY <2>1, <2>2 DEF TypeInv
<1>4. CASE AbandonDeny(h)
  <2>1. TypeOK'
    BY <1>a, <1>4 DEF TypeOK, AbandonDeny, Threads
  <2>2. CallShape'
    BY <1>a, <1>4, RuntimeAssumption
    DEF TypeOK, AbandonDeny, CallShape, InCallback, Threads
  <2>3. QED
    BY <2>1, <2>2 DEF TypeInv
<1>5. CASE AbandonLatch(h)
  <2>1. TypeOK'
    BY <1>a, <1>5 DEF TypeOK, AbandonLatch, Threads, CategorySet
  <2>2. CallShape'
    BY <1>a, <1>5, RuntimeAssumption
    DEF TypeOK, AbandonLatch, CallShape, InCallback, Threads
  <2>3. QED
    BY <2>1, <2>2 DEF TypeInv
<1>6. CASE AbandonWait(h)
  <2>1. TypeOK'
    BY <1>a, <1>6 DEF TypeOK, AbandonWait, Threads
  <2>2. CallShape'
    BY <1>a, <1>6, RuntimeAssumption
    DEF TypeOK, AbandonWait, CallShape, InCallback, Threads
  <2>3. QED
    BY <2>1, <2>2 DEF TypeInv
<1>7. CASE AbandonRelease(h)
  <2>1. TypeOK'
    BY <1>a, <1>7 DEF TypeOK, AbandonRelease, Threads
  <2>2. CallShape'
    BY <1>a, <1>7, RuntimeAssumption
    DEF TypeOK, AbandonRelease, CallShape, InCallback, Threads
  <2>3. QED
    BY <2>1, <2>2 DEF TypeInv
<1>8. CASE StartRefused(h)
  BY <1>a, <1>8 DEF TypeInv, TypeOK, CallShape, InCallback, StartRefused, vars
<1>9. CASE StartBackendFails(h)
  BY <1>a, <1>9, StartFailsType DEF StartBackendFails, TypeOK
<1>10. CASE StartSpawnFails(h)
  BY <1>a, <1>10, StartFailsType DEF StartSpawnFails, TypeOK
<1>11. CASE StartWorkerStopped(h)
  BY <1>a, <1>11, StartFailsType DEF StartWorkerStopped, TypeOK
<1>12. CASE StartValidate(h)
  <2>1. CASE ConfigError(config[runtime])
    BY <1>a, <1>12, <2>1, StartFailsType DEF StartValidate, TypeOK
  <2>2. CASE ~ConfigError(config[runtime])
    <3>a. config[runtime].denyUntil \in BOOLEAN
      BY <1>a, RuntimeAssumption DEF TypeOK, Config
    <3>1. TypeOK'
      BY <1>a, <1>12, <2>2, <3>a DEF TypeOK, StartValidate, Threads
    <3>2. CallShape'
      BY <1>a, <1>12, <2>2, RuntimeAssumption
      DEF TypeOK, StartValidate, CallShape, InCallback, Threads
    <3>3. QED
      BY <3>1, <3>2 DEF TypeInv
  <2>3. QED
    BY <2>1, <2>2
<1>13. CASE StartScan(h)
  <2>1. PICK answers \in Environments :
          IF MissingCoverage(config[runtime].required,
                             ScanVector(CheapScan, answers)) # {}
          THEN StartFails(h)
          ELSE /\ eng' = [eng EXCEPT ![runtime] = NewState]
               /\ pending' = [pending EXCEPT ![runtime] = <<>>]
               /\ call' = [call EXCEPT ![h] =
                             [NoCall EXCEPT !.runtime = runtime,
                                            !.then = "spawn",
                                            !.outcomes =
                                              ScanVector(CheapScan, answers)]]
               /\ pc' = [pc EXCEPT ![h] = "record"]
               /\ UNCHANGED <<running, latched, scanDone, waitDone, runtime,
                              handles, config, lock, crashed>>
    BY <1>13 DEF StartScan
  <2>2. pc[h] = "initialScan" /\ UNCHANGED <<denyUntil, work, phase, ready>>
    BY <1>13 DEF StartScan
  <2>3. CASE StartFails(h)
    BY <1>a, <2>2, <2>3, StartFailsType DEF TypeOK
  <2>4. CASE ~StartFails(h)
    <3> DEFINE outcomes == ScanVector(CheapScan, answers)
    <3>1. outcomes \in Seq(Observed)
      BY RuntimeAssumption, ScanVectorType
    <3> HIDE DEF outcomes
    <3>2. /\ eng' = [eng EXCEPT ![runtime] = NewState]
          /\ pending' = [pending EXCEPT ![runtime] = <<>>]
          /\ call' = [call EXCEPT ![h] =
                        [NoCall EXCEPT !.runtime = runtime, !.then = "spawn",
                                       !.outcomes = outcomes]]
          /\ pc' = [pc EXCEPT ![h] = "record"]
          /\ UNCHANGED <<running, latched, scanDone, waitDone, runtime,
                         handles, config, lock, crashed>>
      BY <2>1, <2>4 DEF outcomes
    <3>3. [NoCall EXCEPT !.runtime = runtime, !.then = "spawn",
                         !.outcomes = outcomes] \in Call
      BY <1>a, <3>1, NoCallType DEF TypeOK, Call
    <3>4. TypeOK'
      BY <1>a, <2>2, <3>2, <3>3, NewStateType, MostReportsAssumption
      DEF TypeOK, Threads
    <3>5. CallShape'
      BY <1>a, <2>2, <3>2, RuntimeAssumption
      DEF TypeOK, CallShape, InCallback, Threads, NoCall
    <3>6. QED
      BY <3>4, <3>5 DEF TypeInv
  <2>5. QED
    BY <2>3, <2>4
<1>14. QED
  BY <1>1, <1>2, <1>3, <1>4, <1>5, <1>6, <1>7, <1>8, <1>9, <1>10, <1>11, <1>12, <1>13 DEF StartStep

\* Worker::run keeps TypeInv.
LEMMA WorkerStepType ==
  ASSUME TypeInv, WorkerStep
  PROVE  TypeInv'
<1> USE DEF StartPc, RecordPc, HandlePc, WorkerPc, RollbackPc, Goto, words,
            worker, objects
<1>a. TypeOK /\ CallShape
  BY DEF TypeInv
<1>b. Worker \in Threads
  BY DEF Threads
<1>1. CASE DispatchNothing
  <2>1. TypeOK'
    BY <1>a, <1>1, <1>b DEF TypeOK, DispatchNothing
  <2>2. CallShape'
    BY <1>a, <1>1, RuntimeAssumption
    DEF TypeOK, DispatchNothing, CallShape, InCallback, Threads
  <2>3. QED
    BY <2>1, <2>2 DEF TypeInv
<1>2. CASE DispatchCallback
  <2>1. TypeOK'
    BY <1>a, <1>2, <1>b DEF TypeOK, DispatchCallback
  <2>2. CallShape'
    BY <1>a, <1>2, RuntimeAssumption
    DEF TypeOK, DispatchCallback, CallShape, InCallback, Threads
  <2>3. QED
    BY <2>1, <2>2 DEF TypeInv
<1>3. CASE DispatchCrash
  <2>1. TypeOK'
    BY <1>a, <1>3, <1>b DEF TypeOK, DispatchCrash
  <2>2. CallShape'
    BY <1>a, <1>3, RuntimeAssumption
    DEF TypeOK, DispatchCrash, CallShape, InCallback, Threads
  <2>3. QED
    BY <2>1, <2>2 DEF TypeInv
<1>4. CASE DispatchDone
  <2>1. TypeOK'
    BY <1>a, <1>4, <1>b DEF TypeOK, DispatchDone
  <2>2. CallShape'
    BY <1>a, <1>4, RuntimeAssumption
    DEF TypeOK, DispatchDone, CallShape, InCallback, Threads
  <2>3. QED
    BY <2>1, <2>2 DEF TypeInv
<1>5. CASE CallbackReturns
  <2>1. TypeOK'
    BY <1>a, <1>5, <1>b DEF TypeOK, CallbackReturns, CallShape, InCallback
  <2>2. CallShape'
    BY <1>a, <1>5, RuntimeAssumption
    DEF TypeOK, CallbackReturns, CallShape, InCallback, Threads
  <2>3. QED
    BY <2>1, <2>2 DEF TypeInv
<1>6. CASE CallbackShares
  <2>1. TypeOK'
    BY <1>a, <1>6, <1>b DEF TypeOK, CallbackShares
  <2>2. CallShape'
    BY <1>a, <1>6, RuntimeAssumption
    DEF TypeOK, CallbackShares, CallShape, InCallback, Threads
  <2>3. QED
    BY <2>1, <2>2 DEF TypeInv
<1>7. CASE CallbackPanics
  <2>1. TypeOK'
    BY <1>a, <1>7, <1>b DEF TypeOK, CallbackPanics
  <2>2. CallShape'
    BY <1>a, <1>7, RuntimeAssumption
    DEF TypeOK, CallbackPanics, CallShape, InCallback, Threads
  <2>3. QED
    BY <2>1, <2>2 DEF TypeInv
<1>8. CASE WorkerUnwinds
  <2>1. TypeOK'
    BY <1>a, <1>8, <1>b DEF TypeOK, WorkerUnwinds
  <2>2. CallShape'
    BY <1>a, <1>8, RuntimeAssumption
    DEF TypeOK, WorkerUnwinds, CallShape, InCallback, Threads
  <2>3. QED
    BY <2>1, <2>2 DEF TypeInv
<1>9. CASE WorkerTakes
  <2>1. TypeOK'
    BY <1>a, <1>9, <1>b, MostReportsAssumption DEF TypeOK, WorkerTakes
  <2>2. CallShape'
    BY <1>a, <1>9, RuntimeAssumption
    DEF TypeOK, WorkerTakes, CallShape, InCallback, Threads
  <2>3. QED
    BY <2>1, <2>2 DEF TypeInv
<1>10. CASE WorkerMarks
  <2>1. TypeOK'
    BY <1>a, <1>10, <1>b DEF TypeOK, WorkerMarks
  <2>2. CallShape'
    BY <1>a, <1>10, RuntimeAssumption
    DEF TypeOK, WorkerMarks, CallShape, InCallback, Threads
  <2>3. QED
    BY <2>1, <2>2 DEF TypeInv
<1>11. CASE RecordHealth
  <2> DEFINE detector == Head(work).finding.detector
  <2>1. work # <<>> /\ Head(work) \in Report /\ Tail(work) \in Seq(Report)
    BY <1>a, <1>11 DEF RecordHealth, CallShape, InCallback, TypeOK
  <2>2. detector \in Detectors
    BY <2>1 DEF Report, Finding
  <2> HIDE DEF detector
  <2>3. PICK now \in Clock :
          eng' = [eng EXCEPT ![runtime] = StateRecord(@, detector,
                    Found([detector |-> detector, strength |-> Low,
                           health |-> TRUE, at |-> now]))]
    BY <1>11 DEF RecordHealth, detector
  <2>4. Found([detector |-> detector, strength |-> Low, health |-> TRUE,
               at |-> now]) \in Outcome
    BY <2>2, RuntimeAssumption
    DEF Found, Outcome, Finding, SignalStrength, Low, High
  <2>5. eng' \in [Runtimes -> State]
    BY <1>a, <2>2, <2>3, <2>4, StateOpsType DEF TypeOK
  <2>6. TypeOK'
    BY <1>a, <1>b, <1>11, <2>1, <2>5 DEF TypeOK, RecordHealth
  <2>7. CallShape'
    BY <1>a, <1>b, <1>11, RuntimeAssumption
    DEF TypeOK, RecordHealth, CallShape, InCallback, Threads
  <2>8. QED
    BY <2>6, <2>7 DEF TypeInv
<1>12. CASE WorkerScans
  <2>1. PICK answers \in Environments :
          call' = [call EXCEPT ![Worker] =
                     [NoCall EXCEPT !.runtime = runtime, !.then = "dispatch",
                        !.outcomes = ScanVector(FullScan, answers)]]
    BY <1>12 DEF WorkerScans
  <2> DEFINE outcomes == ScanVector(FullScan, answers)
  <2>a. FullScan \in Seq(Detectors)
    BY RuntimeAssumption DEF FullScan
  <2>2. outcomes \in Seq(Observed)
    BY <2>a, ScanVectorType
  <2> HIDE DEF outcomes
  <2>3. [NoCall EXCEPT !.runtime = runtime, !.then = "dispatch",
                       !.outcomes = outcomes] \in Call
    BY <1>a, <2>2, NoCallType DEF TypeOK, Call
  <2>4. call' = [call EXCEPT ![Worker] =
                   [NoCall EXCEPT !.runtime = runtime, !.then = "dispatch",
                                  !.outcomes = outcomes]]
    BY <2>1 DEF outcomes
  <2>5. TypeOK'
    BY <1>a, <1>b, <1>12, <2>3, <2>4 DEF TypeOK, WorkerScans
  <2>6. CallShape'
    BY <1>a, <1>b, <1>12, <2>4, RuntimeAssumption
    DEF TypeOK, WorkerScans, CallShape, InCallback, Threads, NoCall
  <2>7. QED
    BY <2>5, <2>6 DEF TypeInv
<1>13. QED
  BY <1>1, <1>2, <1>3, <1>4, <1>5, <1>6, <1>7, <1>8, <1>9, <1>10, <1>11, <1>12 DEF WorkerStep

\* Calls through a handle keep TypeInv.
LEMMA HandleStepType ==
  ASSUME TypeInv, NEW t \in Threads, HandleCall(t) \/ HandleStep(t)
  PROVE  TypeInv'
<1> USE DEF StartPc, RecordPc, HandlePc, WorkerPc, RollbackPc, Goto, words,
            worker, objects
<1>a. TypeOK /\ CallShape
  BY DEF TypeInv
<1>1. ASSUME NEW r \in Runtimes, EnsureLatched(t, r) PROVE TypeInv'
  <2>1. TypeOK'
    BY <1>a, <1>1 DEF TypeOK, EnsureLatched, Home, Return
  <2>2. CallShape'
    BY <1>a, <1>1, RuntimeAssumption
    DEF TypeOK, EnsureLatched, Home, Return, CanCall, NoCall, CallShape, InCallback, Threads
  <2>3. QED
    BY <2>1, <2>2 DEF TypeInv
<1>2. ASSUME NEW r \in Runtimes, NEW category \in Categories, DenyWord(t, r, category) PROVE TypeInv'
  <2>1. TypeOK'
    BY <1>a, <1>2, NoCallType DEF TypeOK, DenyWord, Home, Return, Call, CategorySet
  <2>2. CallShape'
    BY <1>a, <1>2, RuntimeAssumption
    DEF TypeOK, DenyWord, Home, Return, CanCall, NoCall, CallShape, InCallback, Threads
  <2>3. QED
    BY <2>1, <2>2 DEF TypeInv
<1>3. ASSUME NEW r \in Runtimes, WaitCall(t, r) PROVE TypeInv'
  <2>1. TypeOK'
    BY <1>a, <1>3 DEF TypeOK, WaitCall, Home, Return
  <2>2. CallShape'
    BY <1>a, <1>3, RuntimeAssumption
    DEF TypeOK, WaitCall, Home, Return, CanCall, NoCall, CallShape, InCallback, Threads
  <2>3. QED
    BY <2>1, <2>2 DEF TypeInv
<1>4. CASE EnsureDenyUntil(t)
  <2>1. TypeOK'
    BY <1>a, <1>4 DEF TypeOK, EnsureDenyUntil, Home, Return
  <2>2. CallShape'
    BY <1>a, <1>4, RuntimeAssumption
    DEF TypeOK, EnsureDenyUntil, Home, Return, CanCall, NoCall, CallShape, InCallback, Threads
  <2>3. QED
    BY <2>1, <2>2 DEF TypeInv
<1>5. CASE EnsureScanDone(t)
  <2>1. TypeOK'
    BY <1>a, <1>5 DEF TypeOK, EnsureScanDone, Home, Return
  <2>2. CallShape'
    BY <1>a, <1>5, RuntimeAssumption
    DEF TypeOK, EnsureScanDone, Home, Return, CanCall, NoCall, CallShape, InCallback, Threads
  <2>3. QED
    BY <2>1, <2>2 DEF TypeInv
<1>6. CASE WaitCheck(t)
  <2>1. TypeOK'
    BY <1>a, <1>6 DEF TypeOK, WaitCheck, Home, Return
  <2>2. CallShape'
    BY <1>a, <1>6, RuntimeAssumption
    DEF TypeOK, WaitCheck, Home, Return, CanCall, NoCall, CallShape, InCallback, Threads
  <2>3. QED
    BY <2>1, <2>2 DEF TypeInv
<1>7. CASE WaitExpires(t)
  <2>1. TypeOK'
    BY <1>a, <1>7 DEF TypeOK, WaitExpires, Home, Return
  <2>2. CallShape'
    BY <1>a, <1>7, RuntimeAssumption
    DEF TypeOK, WaitExpires, Home, Return, CanCall, NoCall, CallShape, InCallback, Threads
  <2>3. QED
    BY <2>1, <2>2 DEF TypeInv
<1>8. ASSUME NEW r \in Runtimes, ReportUiAbuse(t, r) PROVE TypeInv'
  <2>1. PICK finding \in HostObservations :
          call' = [call EXCEPT ![t] =
                     [NoCall EXCEPT !.runtime = r, !.then = "enqueue",
                        !.outcomes = <<[detector |-> HostReport,
                                        outcome |-> Found(finding)]>>]]
    BY <1>8 DEF ReportUiAbuse
  <2> DEFINE outcomes == <<[detector |-> HostReport, outcome |-> Found(finding)]>>
  <2>2. [detector |-> HostReport, outcome |-> Found(finding)] \in Observed
    BY RuntimeAssumption DEF Observed, Outcome, Found
  <2>3. outcomes \in Seq(Observed)
    BY <2>2
  <2> HIDE DEF outcomes
  <2>4. [NoCall EXCEPT !.runtime = r, !.then = "enqueue",
                       !.outcomes = outcomes] \in Call
    BY <2>3, NoCallType DEF Call
  <2>5. call' = [call EXCEPT ![t] =
                   [NoCall EXCEPT !.runtime = r, !.then = "enqueue",
                                  !.outcomes = outcomes]]
    BY <2>1 DEF outcomes
  <2>6. TypeOK'
    BY <1>a, <1>8, <2>4, <2>5 DEF TypeOK, ReportUiAbuse
  <2>7. CallShape'
    BY <1>a, <1>8, <2>5, RuntimeAssumption
    DEF TypeOK, ReportUiAbuse, CanCall, Home, CallShape, InCallback, Threads,
        NoCall
  <2>8. QED
    BY <2>6, <2>7 DEF TypeInv
<1>9. CASE ReportQueue(t)
  <2> DEFINE r == call[t].runtime
  <2>1. pending[r] \in Seq(Report) /\ Len(pending[r]) <= MOST_REPORTS
    BY <1>a, CallType DEF TypeOK
  <2>2. /\ PendingAdd(pending[r], call[t].qualified) \in Seq(Report)
        /\ Len(PendingAdd(pending[r], call[t].qualified)) <= MOST_REPORTS
    BY <1>a, <2>1, CallType, PendingAddType
  <2>3. TypeOK'
    BY <1>a, <1>9, <2>2, CallType, NoCallType
    DEF TypeOK, ReportQueue, Return, Home
  <2>4. CallShape'
    BY <1>a, <1>9, RuntimeAssumption
    DEF TypeOK, ReportQueue, Return, Home, CallShape, InCallback, Threads
  <2>5. QED
    BY <2>3, <2>4 DEF TypeInv
<1>10. CASE DenyState(t)
  <2>1. PICK category \in call[t].category :
          eng' = [eng EXCEPT ![call[t].runtime] =
                                StateLatchByHost(@, category)]
    BY <1>10 DEF DenyState
  <2>2. eng' \in [Runtimes -> State]
    BY <1>a, <2>1, CallType, StateOpsType DEF TypeOK
  <2>3. TypeOK'
    BY <1>a, <1>10, <2>2, CallType, NoCallType
    DEF TypeOK, DenyState, Return, Home
  <2>4. CallShape'
    BY <1>a, <1>10, RuntimeAssumption
    DEF TypeOK, DenyState, Return, Home, CallShape, InCallback, Threads
  <2>5. QED
    BY <2>3, <2>4 DEF TypeInv
<1>11. QED
  BY <1>1, <1>2, <1>3, <1>4, <1>5, <1>6, <1>7, <1>8, <1>9, <1>10 DEF HandleCall, HandleStep

\* Every variable of the runtime keeps its type, and no step takes the head
\* of an empty sequence (worker.rs:186-317,
\* builder.rs:216-332, handle.rs:88-238), whether or not a panic can escape
\* the worker.
LEMMA TypeInvariance == Spec => []TypeInv
<1>1. Init => TypeInv
  <2> SUFFICES ASSUME Init PROVE TypeInv
    OBVIOUS
  <2>1. pc \in [Threads -> {"off", "idle"}] /\ pc[Worker] = "off"
    BY DEF Init, Threads
  <2>2. <<>> \in Seq(Report) /\ Len(<<>>) <= MOST_REPORTS
    BY MostReportsAssumption
  <2>3. TypeOK
    BY <2>1, <2>2, NewStateType, NoCallType
    DEF Init, TypeOK, CategorySet, WorkerPc
  <2>4. CallShape
    BY <2>1 DEF CallShape, InCallback, RecordPc, HandlePc, Threads
  <2>5. QED
    BY <2>3, <2>4 DEF TypeInv
<1>2. TypeInv /\ [Next]_vars => TypeInv'
  <2> SUFFICES ASSUME TypeInv, [Next]_vars PROVE TypeInv'
    OBVIOUS
  <2>1. ASSUME NEW h \in Hosts, StartClaim(h) \/ StartRefused(h) \/ StartStep(h)
        PROVE  TypeInv'
    BY <2>1, StartStepType
  <2>2. CASE WorkerStep
    BY <2>2, WorkerStepType
  <2>3. ASSUME NEW t \in Threads, HandleCall(t) \/ HandleStep(t)
        PROVE  TypeInv'
    BY <2>3, HandleStepType
  <2>4. ASSUME NEW t \in Threads, RecordStep(t)
        PROVE  TypeInv'
    BY <2>4, RecordStepType
  <2>5. CASE UNCHANGED vars
    BY <2>5 DEF TypeInv, TypeOK, CallShape, InCallback, vars, words, objects,
                worker
  <2>6. QED
    BY <2>1, <2>2, <2>3, <2>4, <2>5 DEF Next, Aborted
<1>3. QED
  BY <1>1, <1>2, PTL DEF Spec

\* Every variable of the runtime keeps its type and the queue its bound
\* (worker.rs:186-317, builder.rs:216-332, handle.rs:88-238), whether or not a
\* panic can escape the worker.
THEOREM TypeCorrect == Spec => []TypeOK
<1>1. TypeInv => TypeOK
  BY DEF TypeInv
<1>2. QED
  BY <1>1, TypeInvariance, PTL
-----------------------------------------------------------------------------

\* IInv without the shape of a call, which TypeInv has.
SafeInv ==
  ThreadInv /\ SlotInv /\ LockInv /\ CategoryInv /\ WordInv /\ CoverageInv

\* Where a host, and where the worker, holds no lock, records nothing and has
\* nothing to queue.
QuietHostPc == {"idle"} \cup (HandlePc \ {"denying", "enqueue"})
QuietWorkerPc ==
  {"dispatch", "callback", "health", "take", "scan", "mark"}
    \cup (HandlePc \ {"denying", "enqueue"})

(***************************************************************************)
(* Who can be active beside whom.                                          *)
(***************************************************************************)

\* A thread that calls through a handle, that records, or that works for a
\* runtime, runs beside no start before its spawn and beside no rollback
\* (builder.rs:294-329): the runtime holds the slot.
LEMMA ActiveAlone ==
  ASSUME TypeOK, CallShape, SafeInv, NEW t \in Threads,
         \/ pc[t] \in RecordPc \cup HandlePc
         \/ t = Worker /\ pc[t] # "off"
  PROVE  running /\ \A h \in Hosts : pc[h] \notin BarePc
<1> USE DEF BarePc, StartPc, RollbackPc, RecordPc, HandlePc
<1>1. CASE t = Worker
  <2>1. pc[Worker] # "off"
    BY <1>1
  <2>2. running /\ \A h \in Hosts : Starting(h) => pc[h] = "await"
    BY <2>1 DEF SafeInv, SlotInv
  <2>3. QED
    BY <2>2 DEF Starting
<1>2. CASE t \in Hosts /\ Calling(t)
  <2>1. handles # {}
    BY <1>2 DEF SafeInv, SlotInv
  <2>2. running /\ \A h \in Hosts : Starting(h) => pc[h] = "await"
    BY <2>1 DEF SafeInv, SlotInv, OneRuntime
  <2>3. QED
    BY <2>2 DEF Starting
<1>3. CASE t \in Hosts /\ ~Calling(t) /\ t # Worker
  <2>1. pc[t] \in RecordPc /\ call[t].then = "spawn"
    BY <1>3 DEF Calling
  <2>2. Starting(t)
    BY <2>1 DEF Starting
  <2>3. ASSUME NEW h \in Hosts PROVE pc[h] \notin BarePc
    <3>1. Starting(h) => h = t
      BY <1>3, <2>2 DEF SafeInv, SlotInv, OneStart
    <3>2. QED
      BY <2>1, <3>1 DEF Starting
  <2>4. QED
    BY <1>3, <2>2, <2>3 DEF SafeInv, SlotInv, OneStart
<1>4. QED
  BY <1>1, <1>2, <1>3 DEF Threads

\* A call goes to the runtime that holds the slot (handle.rs:59-66).
LEMMA CallerAlone ==
  ASSUME TypeOK, CallShape, SafeInv, NEW t \in Threads, NEW r \in Runtimes,
         CanCall(t, r)
  PROVE  /\ running /\ r = runtime
         /\ \A h \in Hosts : pc[h] \notin BarePc
         /\ t # Worker => handles # {}
<1> USE DEF BarePc, StartPc, RollbackPc, RecordPc, HandlePc
<1>1. CASE t = Worker
  <2>1. pc[Worker] = "callback" /\ r = runtime
    BY <1>1 DEF CanCall, Home
  <2>2. QED
    BY <1>1, <2>1, ActiveAlone
<1>2. CASE t # Worker
  <2>1. r \in handles
    BY <1>2 DEF CanCall
  <2>2. /\ running /\ handles = {runtime}
        /\ \A h \in Hosts : Starting(h) => pc[h] = "await"
    BY <2>1 DEF SafeInv, SlotInv, OneRuntime
  <2>3. QED
    BY <2>1, <2>2 DEF Starting
<1>3. QED
  BY <1>1, <1>2

\* A start before its wait is alone (builder.rs:230-329): no handle exists, no
\* worker runs, and no other thread is inside a call or a start.
LEMMA StarterAlone ==
  ASSUME TypeOK, CallShape, SafeInv, NEW h \in Hosts, Starting(h),
         pc[h] # "await"
  PROVE  /\ running /\ handles = {} /\ pc[Worker] = "off"
         /\ \A g \in Hosts : g # h => pc[g] = "idle"
<1>1. running /\ \A g \in Hosts : Starting(g) => g = h
  BY DEF SafeInv, SlotInv, OneStart
<1>2. handles = {}
  BY DEF SafeInv, SlotInv, OneRuntime
<1>3. pc[Worker] = "off"
  BY DEF SafeInv, SlotInv
<1>4. ASSUME NEW g \in Hosts, g # h PROVE pc[g] = "idle"
  <2>1. ~Starting(g) /\ ~Calling(g)
    BY <1>1, <1>2, <1>4 DEF SafeInv, SlotInv
  <2>2. pc[g] \notin WorkerPc
    BY DEF SafeInv, ThreadInv
  <2>3. pc[g] \in {"idle"} \cup StartPc \cup RecordPc \cup HandlePc \cup WorkerPc
    BY DEF TypeOK, Threads
  <2>4. QED
    BY <2>1, <2>2, <2>3 DEF Starting, Calling
<1>5. QED
  BY <1>1, <1>2, <1>3, <1>4

(***************************************************************************)
(* Steps that move one thread between quiet places.                        *)
(***************************************************************************)

\* A step that moves one thread between quiet places, and changes no word, no
\* handle, no lock, no call and no latch, keeps SafeInv. It stands for the
\* reads of a handle and for most of the worker's loop (handle.rs:88-97,
\* worker.rs:186-317).
LEMMA QuietMove ==
  ASSUME TypeOK, CallShape, SafeInv, NEW t \in Threads, NEW label,
         pc' = [pc EXCEPT ![t] = label],
         UNCHANGED <<words, runtime, handles, lock, call>>,
         \A r \in Runtimes : eng'[r].latched = eng[r].latched,
         \/ /\ t \in Hosts
            /\ pc[t] \in QuietHostPc /\ label \in QuietHostPc
            /\ label # "idle" => handles # {}
         \/ /\ t = Worker
            /\ pc[t] \in QuietWorkerPc /\ label \in QuietWorkerPc
  PROVE  SafeInv'
<1> USE DEF BarePc, StartPc, RollbackPc, RecordPc, HandlePc, WorkerPc, words,
            QuietHostPc, QuietWorkerPc, LockedPc
<1>1. /\ \A u \in Threads : u # t => pc'[u] = pc[u]
      /\ pc'[t] = label
      /\ Hosts \subseteq Threads /\ Worker \in Threads /\ Worker \notin Hosts
  BY RuntimeAssumption DEF TypeOK, Threads
<1>2. \A h \in Hosts : /\ Starting(h)' <=> Starting(h)
                       /\ Starting(h) => pc'[h] = pc[h]
                       /\ pc'[h] \in BarePc <=> pc[h] \in BarePc
  BY <1>1 DEF Starting
<1>3. ThreadInv'
  BY <1>1 DEF SafeInv, ThreadInv
<1>4. SlotInv'
  <2>1. OneStart'
    BY <1>2 DEF SafeInv, SlotInv, OneStart
  <2>2. OneRuntime'
    BY <1>2 DEF SafeInv, SlotInv, OneRuntime
  <2>3. \A h \in Hosts : Calling(h)' => handles' # {}
    BY <1>1 DEF SafeInv, SlotInv, Calling
  <2>4. pc'[Worker] # "off" =>
          running' /\ \A h \in Hosts : Starting(h)' => pc'[h] = "await"
    BY <1>1, <1>2 DEF SafeInv, SlotInv
  <2>5. \A u \in Threads :
          pc'[u] \in RecordPc \cup {"denying", "enqueue"} =>
            call'[u].runtime = runtime'
    BY <1>1 DEF SafeInv, SlotInv
  <2>6. QED
    BY <2>1, <2>2, <2>3, <2>4, <2>5 DEF SlotInv
<1>5. LockInv'
  BY <1>1 DEF SafeInv, LockInv, TypeOK
<1>6. CategoryInv'
  BY <1>1 DEF SafeInv, CategoryInv
<1>7. WordInv'
  BY <1>1, <1>2 DEF SafeInv, WordInv, TypeOK
<1>8. CoverageInv'
  BY <1>1, <1>2 DEF SafeInv, CoverageInv
<1>9. QED
  BY <1>3, <1>4, <1>5, <1>6, <1>7, <1>8 DEF SafeInv

(***************************************************************************)
(* The state lock.                                                         *)
(***************************************************************************)

\* A step that enters and leaves no critical section keeps LockInv.
LEMMA LockKept ==
  ASSUME TypeOK, LockInv, lock' = lock,
         \A u \in Threads :
           /\ pc'[u] \in LockedPc <=> pc[u] \in LockedPc
           /\ pc[u] \in LockedPc => call'[u].runtime = call[u].runtime
  PROVE  LockInv'
<1>1. ASSUME NEW r \in Runtimes, lock[r] # NoThread
      PROVE  pc'[lock[r]] \in LockedPc /\ call'[lock[r]].runtime = r
  <2>1. lock[r] \in Threads
    BY <1>1 DEF TypeOK
  <2>2. QED
    BY <1>1, <2>1 DEF LockInv
<1>2. \A u \in Threads : pc'[u] \in LockedPc => lock[call'[u].runtime] = u
  BY DEF LockInv
<1>3. QED
  BY <1>1, <1>2 DEF LockInv

\* Taking a free lock keeps LockInv (worker.rs:82, handle.rs:119-123).
LEMMA LockTaken ==
  ASSUME TypeOK, LockInv, NEW t \in Threads, NEW r \in Runtimes,
         lock[r] = NoThread, lock' = [lock EXCEPT ![r] = t],
         pc[t] \notin LockedPc, pc'[t] \in LockedPc, call'[t].runtime = r,
         \A u \in Threads : u # t => pc'[u] = pc[u] /\ call'[u] = call[u]
  PROVE  LockInv'
<1>1. \A s \in Runtimes : s # r => lock'[s] = lock[s]
  BY DEF TypeOK
<1>2. lock'[r] = t
  BY DEF TypeOK
<1>3. ASSUME NEW u \in Threads, pc'[u] \in LockedPc
      PROVE  lock'[call'[u].runtime] = u
  <2>1. CASE u = t
    BY <1>2, <2>1
  <2>2. CASE u # t
    <3>1. pc[u] \in LockedPc /\ call'[u].runtime = call[u].runtime
      BY <1>3, <2>2
    <3>2. lock[call[u].runtime] = u /\ call[u].runtime \in Runtimes
      BY <3>1, CallType DEF LockInv
    <3>3. call[u].runtime # r
      BY <3>2, RuntimeAssumption
    <3>4. QED
      BY <1>1, <3>1, <3>2, <3>3
  <2>3. QED
    BY <2>1, <2>2
<1>4. ASSUME NEW s \in Runtimes, lock'[s] # NoThread
      PROVE  pc'[lock'[s]] \in LockedPc /\ call'[lock'[s]].runtime = s
  <2>1. CASE s = r
    BY <1>2, <2>1
  <2>2. CASE s # r
    <3>1. lock'[s] = lock[s] /\ lock[s] \in Threads
      BY <1>1, <1>4, <2>2 DEF TypeOK
    <3>2. pc[lock[s]] \in LockedPc /\ call[lock[s]].runtime = s
      BY <1>4, <3>1 DEF LockInv
    <3>3. QED
      BY <3>1, <3>2
  <2>3. QED
    BY <2>1, <2>2
<1>5. QED
  BY <1>3, <1>4 DEF LockInv

\* Releasing a lock keeps LockInv (worker.rs:110, handle.rs:128).
LEMMA LockReleased ==
  ASSUME TypeOK, LockInv, NEW t \in Threads,
         pc[t] \in LockedPc,
         lock' = [lock EXCEPT ![call[t].runtime] = NoThread],
         pc'[t] \notin LockedPc,
         \A u \in Threads : u # t => pc'[u] = pc[u] /\ call'[u] = call[u]
  PROVE  LockInv'
<1> DEFINE r == call[t].runtime
<1>0. r \in Runtimes /\ lock[r] = t
  BY CallType DEF LockInv
<1> HIDE DEF r
<1>1. lock' = [lock EXCEPT ![r] = NoThread]
  BY DEF r
<1>2. (\A s \in Runtimes : s # r => lock'[s] = lock[s]) /\ lock'[r] = NoThread
  BY <1>0, <1>1 DEF TypeOK
<1>3. ASSUME NEW u \in Threads, pc'[u] \in LockedPc
      PROVE  lock'[call'[u].runtime] = u
  <2>1. u # t /\ pc[u] \in LockedPc /\ call'[u].runtime = call[u].runtime
    BY <1>3
  <2>2. lock[call[u].runtime] = u /\ call[u].runtime \in Runtimes
    BY <2>1, CallType DEF LockInv
  <2>3. QED
    BY <1>0, <1>2, <2>1, <2>2
<1>4. ASSUME NEW s \in Runtimes, lock'[s] # NoThread
      PROVE  pc'[lock'[s]] \in LockedPc /\ call'[lock'[s]].runtime = s
  <2>1. s # r /\ lock'[s] = lock[s] /\ lock[s] \in Threads
    BY <1>2, <1>4 DEF TypeOK
  <2>2. pc[lock[s]] \in LockedPc /\ call[lock[s]].runtime = s
    BY <1>4, <2>1 DEF LockInv
  <2>3. lock[s] # t
    BY <2>1, <2>2 DEF r
  <2>4. QED
    BY <2>1, <2>2, <2>3
<1>5. QED
  BY <1>3, <1>4 DEF LockInv

(***************************************************************************)
(* record().                                                               *)
(***************************************************************************)

\* record() keeps the word, the state and the lock together, one outcome at a
\* time (worker.rs:74-113).
LEMMA RecordStepSafe ==
  ASSUME TypeOK, CallShape, SafeInv, NEW t \in Threads, RecordStep(t)
  PROVE  SafeInv'
<1> USE DEF BarePc, StartPc, RollbackPc, RecordPc, HandlePc, WorkerPc,
            LockedPc, words, objects, worker, Goto
<1>a. /\ Hosts \subseteq Threads /\ Worker \in Threads /\ Worker \notin Hosts
      /\ NoThread \notin Threads
  BY RuntimeAssumption DEF Threads
<1>b. pc[t] \in RecordPc
  BY DEF RecordStep, RecordLock, RecordOutcome, RecordLatch, RecordUnlock
<1>c. running /\ \A h \in Hosts : pc[h] \notin BarePc
  BY <1>b, ActiveAlone
<1>d. /\ call[t].runtime = runtime
      /\ runtime \in Runtimes
  BY <1>b DEF SafeInv, SlotInv, TypeOK
<1>e. UNCHANGED <<running, denyUntil, scanDone, waitDone, runtime, handles>>
  BY DEF RecordStep, RecordLock, RecordOutcome, RecordLatch, RecordUnlock
<1>f. \A u \in Threads : u # t => pc'[u] = pc[u] /\ call'[u] = call[u]
  BY ZenonT(60) DEF RecordStep, RecordLock, RecordOutcome, RecordLatch, RecordUnlock,
         TypeOK
<1>1. CASE RecordLock(t)
  <2>1. /\ pc[t] = "record" /\ pc'[t] = "recording"
        /\ lock[runtime] = NoThread /\ lock' = [lock EXCEPT ![runtime] = t]
        /\ call' = call /\ latched' = latched /\ eng' = eng
    BY <1>1, <1>d DEF RecordLock, TypeOK
  <2>2. \A h \in Hosts : /\ Starting(h)' <=> Starting(h)
                         /\ Calling(h)' <=> Calling(h)
                         /\ pc'[h] \notin BarePc
                         /\ pc'[h] = "await" <=> pc[h] = "await"
    BY <1>a, <1>c, <1>f, <2>1 DEF Starting, Calling
  <2>3. ThreadInv'
    BY <1>a, <1>f, <2>1 DEF SafeInv, ThreadInv
  <2>4. SlotInv'
    BY <1>a, <1>e, <1>f, <2>1, <2>2
    DEF SafeInv, SlotInv, OneStart, OneRuntime
  <2>5. LockInv'
    BY <1>d, <1>f, <2>1, LockTaken DEF SafeInv
  <2>6. CategoryInv'
    BY <1>f, <2>1 DEF SafeInv, CategoryInv
  <2>7. WordInv'
    BY <1>c, <1>e, <2>1, <2>2 DEF SafeInv, WordInv
  <2>8. CoverageInv'
    BY <1>c, <1>e, <2>2 DEF SafeInv, CoverageInv
  <2>9. QED
    BY <2>3, <2>4, <2>5, <2>6, <2>7, <2>8 DEF SafeInv
<1>2. CASE RecordOutcome(t)
  <2> DEFINE observed == Head(call[t].outcomes)
             category == CategoryOf[observed.detector]
  <2>1. /\ pc[t] = "recording"
        /\ lock' = lock
        /\ eng' = [eng EXCEPT ![runtime] =
                     StateRecord(@, observed.detector, observed.outcome)]
        /\ \/ /\ latched' = latched \cup {category}
              /\ call' = [call EXCEPT ![t].category = {category}]
              /\ pc' = [pc EXCEPT ![t] = "latching"]
           \/ /\ latched' = latched /\ pc' = pc
              /\ \E rest, kept :
                   call' = [call EXCEPT ![t].outcomes = rest,
                                        ![t].qualified = kept]
    BY <1>2, <1>d DEF RecordOutcome
  <2>2. \A r \in Runtimes : eng'[r].latched = eng[r].latched
    BY <1>d, <2>1 DEF TypeOK, StateRecord, State
  <2>3. call[t] \in Call /\ call \in [Threads -> Call]
    BY DEF TypeOK
  <2>4. /\ call'[t].runtime = call[t].runtime
        /\ call'[t].then = call[t].then
        /\ \/ latched' = latched \cup {category} /\ pc'[t] = "latching"
                /\ call'[t].category = {category}
           \/ latched' = latched /\ pc'[t] = "recording"
                /\ call'[t].category = call[t].category
    <3>1. CASE /\ latched' = latched \cup {category}
               /\ call' = [call EXCEPT ![t].category = {category}]
               /\ pc' = [pc EXCEPT ![t] = "latching"]
      BY <2>3, <3>1 DEF Call, TypeOK
    <3>2. ASSUME NEW rest, NEW kept, latched' = latched, pc' = pc,
                 call' = [call EXCEPT ![t].outcomes = rest,
                                      ![t].qualified = kept]
          PROVE  /\ call'[t].runtime = call[t].runtime
                 /\ call'[t].then = call[t].then
                 /\ latched' = latched /\ pc'[t] = "recording"
                 /\ call'[t].category = call[t].category
      BY <2>1, <2>3, <3>2 DEF Call, TypeOK
    <3>3. QED
      BY <2>1, <3>1, <3>2
  <2> HIDE DEF category
  <2>5. \A h \in Hosts : /\ Starting(h)' <=> Starting(h)
                         /\ Calling(h)' <=> Calling(h)
                         /\ pc'[h] \notin BarePc
                         /\ pc'[h] = "await" <=> pc[h] = "await"
    BY <1>a, <1>c, <1>f, <2>1, <2>4 DEF Starting, Calling
  <2>6. ThreadInv'
    BY <1>a, <1>f, <2>1, <2>4 DEF SafeInv, ThreadInv
  <2>7. SlotInv'
    BY <1>a, <1>d, <1>e, <1>f, <2>1, <2>4, <2>5
    DEF SafeInv, SlotInv, OneStart, OneRuntime
  <2>8. LockInv'
    <3>1. \A u \in Threads : /\ pc'[u] \in LockedPc <=> pc[u] \in LockedPc
                             /\ call'[u].runtime = call[u].runtime
      BY <1>f, <2>1, <2>4
    <3>2. QED
      BY <2>1, <3>1, LockKept DEF SafeInv
  <2>9. CategoryInv'
    BY <1>f, <2>1, <2>4 DEF SafeInv, CategoryInv
  <2>10. WordInv'
    BY <1>c, <1>d, <1>e, <1>f, <2>1, <2>2, <2>4, <2>5
    DEF SafeInv, WordInv, CategoryInv
  <2>11. CoverageInv'
    BY <1>c, <1>e, <2>5 DEF SafeInv, CoverageInv
  <2>12. QED
    BY <2>6, <2>7, <2>8, <2>9, <2>10, <2>11 DEF SafeInv
<1>3. CASE RecordLatch(t)
  <2>1. PICK category \in call[t].category :
          eng' = [eng EXCEPT ![runtime] = StateLatch(@, category)]
    BY <1>3, <1>d DEF RecordLatch
  <2>2. call[t].category = {category} /\ category \in latched
    BY <1>3, <2>1 DEF RecordLatch, SafeInv, CategoryInv
  <2>3. eng'[runtime].latched = eng[runtime].latched \cup {category}
    BY <1>d, <2>1 DEF TypeOK, StateLatch, State
  <2>4. /\ pc[t] = "latching" /\ pc'[t] = "recording"
        /\ lock' = lock /\ latched' = latched
        /\ call'[t].runtime = call[t].runtime
        /\ call'[t].then = call[t].then
        /\ call'[t].category = {}
    BY <1>3 DEF RecordLatch, TypeOK, Call
  <2>5. \A h \in Hosts : /\ Starting(h)' <=> Starting(h)
                         /\ Calling(h)' <=> Calling(h)
                         /\ pc'[h] \notin BarePc
                         /\ pc'[h] = "await" <=> pc[h] = "await"
    BY <1>a, <1>c, <1>f, <2>4 DEF Starting, Calling
  <2>6. ThreadInv'
    BY <1>a, <1>f, <2>4 DEF SafeInv, ThreadInv
  <2>7. SlotInv'
    BY <1>a, <1>d, <1>e, <1>f, <2>4, <2>5
    DEF SafeInv, SlotInv, OneStart, OneRuntime
  <2>8. LockInv'
    <3>1. \A u \in Threads : /\ pc'[u] \in LockedPc <=> pc[u] \in LockedPc
                             /\ call'[u].runtime = call[u].runtime
      BY <1>f, <2>4
    <3>2. QED
      BY <2>4, <3>1, LockKept DEF SafeInv
  <2>9. CategoryInv'
    BY <1>f, <2>4 DEF SafeInv, CategoryInv
  <2>10. WordInv'
    BY <1>c, <1>d, <1>e, <1>f, <2>2, <2>3, <2>4, <2>5
    DEF SafeInv, WordInv, CategoryInv
  <2>11. CoverageInv'
    BY <1>c, <1>e, <2>5 DEF SafeInv, CoverageInv
  <2>12. QED
    BY <2>6, <2>7, <2>8, <2>9, <2>10, <2>11 DEF SafeInv
<1>4. CASE RecordUnlock(t)
  <2>1. /\ t \in Hosts => call[t].then \in {"spawn", "enqueue"}
        /\ t = Worker => call[t].then \in {"dispatch", "enqueue"}
    BY <1>4 DEF RecordUnlock, CallShape
  <2>2. /\ pc[t] = "recording" /\ pc'[t] = call[t].then
        /\ lock' = [lock EXCEPT ![runtime] = NoThread]
        /\ latched' = latched /\ eng' = eng
        /\ \/ call[t].then # "dispatch" /\ call'[t] = call[t]
           \/ call[t].then = "dispatch" /\ call'[t].category = {}
    BY <1>4, <1>d DEF RecordUnlock, TypeOK, NoCall
  <2>3. call[t].category = {}
    BY <2>2 DEF SafeInv, CategoryInv
  <2>4. \A h \in Hosts : /\ Starting(h)' <=> Starting(h)
                         /\ Calling(h)' <=> Calling(h)
                         /\ pc'[h] \notin BarePc
                         /\ pc'[h] = "await" <=> pc[h] = "await"
    BY <1>a, <1>c, <1>f, <2>1, <2>2 DEF Starting, Calling
  <2>5. ThreadInv'
    BY <1>a, <1>f, <2>1, <2>2 DEF SafeInv, ThreadInv, Threads
  <2>6. SlotInv'
    BY <1>a, <1>d, <1>e, <1>f, <2>1, <2>2, <2>4
    DEF SafeInv, SlotInv, OneStart, OneRuntime, Threads
  <2>7. LockInv'
    <3>1. pc'[t] \notin LockedPc
      BY <2>1, <2>2 DEF Threads
    <3>2. QED
      BY <1>d, <1>f, <2>2, <3>1, LockReleased DEF SafeInv
  <2>8. CategoryInv'
    BY <1>f, <2>1, <2>2, <2>3 DEF SafeInv, CategoryInv, Threads
  <2>9. WordInv'
    BY <1>c, <1>e, <1>f, <2>2, <2>3, <2>4 DEF SafeInv, WordInv
  <2>10. CoverageInv'
    BY <1>c, <1>e, <2>4 DEF SafeInv, CoverageInv
  <2>11. QED
    BY <2>5, <2>6, <2>7, <2>8, <2>9, <2>10 DEF SafeInv
<1>5. QED
  BY <1>1, <1>2, <1>3, <1>4 DEF RecordStep

(***************************************************************************)
(* Builder::start. A start before its wait is alone, so its steps only     *)
(* have to be right for itself.                                            *)
(***************************************************************************)

\* What a start before its wait leaves of SafeInv for its next place: the
\* slot is taken, nobody else does anything, and the words fit the new place
\* (builder.rs:230-329, lib.rs:209-219).
LEMMA StarterMoves ==
  ASSUME TypeOK, CallShape, SafeInv, NEW h \in Hosts, Starting(h),
         pc[h] \notin {"await"} \cup LockedPc, NEW label,
         pc' = [pc EXCEPT ![h] = label],
         label \in {"initialScan", "record"} \cup RollbackPc,
         UNCHANGED <<running, runtime, handles, lock>>,
         \A t \in Threads : t # h => call'[t] = call[t],
         call'[h].category = {},
         label = "record" => /\ call'[h].then = "spawn"
                             /\ call'[h].runtime = runtime
                             /\ latched' = {} /\ eng'[runtime].latched = {},
         label \in {"initialScan", "abandonWait", "release"} => latched' = {},
         label \in RollbackPc \ {"abandon"} => ~denyUntil',
         scanDone' => scanDone, waitDone' => waitDone
  PROVE  SafeInv'
<1> USE DEF BarePc, StartPc, RollbackPc, RecordPc, HandlePc, WorkerPc,
            LockedPc, words, objects, worker, Goto
<1>a. /\ Hosts \subseteq Threads /\ Worker \in Threads /\ Worker \notin Hosts
      /\ NoThread \notin Threads
  BY RuntimeAssumption DEF Threads
<1>b. /\ running /\ handles = {} /\ pc[Worker] = "off"
      /\ \A g \in Hosts : g # h => pc[g] = "idle"
  BY StarterAlone
<1>c. /\ pc'[h] = label /\ pc'[Worker] = "off"
      /\ \A g \in Hosts : g # h => pc'[g] = "idle"
      /\ \A t \in Threads : t # h => pc'[t] = pc[t]
  BY <1>a, <1>b DEF TypeOK
<1>1. ThreadInv'
  BY <1>b, <1>c DEF ThreadInv
<1>2. \A g \in Hosts : (Starting(g)' <=> g = h) /\ ~Calling(g)'
  BY <1>c DEF Starting, Calling
<1>3. SlotInv'
  BY <1>a, <1>b, <1>c, <1>2 DEF SlotInv, OneStart, OneRuntime, Threads
<1>4. LockInv'
  <2>1. \A u \in Threads : pc'[u] \notin LockedPc /\ pc[u] \notin LockedPc
    BY <1>a, <1>b, <1>c DEF Threads
  <2>2. QED
    BY <2>1, LockKept DEF SafeInv
<1>5. CategoryInv'
  <2>1. \A u \in Threads : u # h => call[u].category = {}
    BY <1>a, <1>b DEF SafeInv, CategoryInv, Threads
  <2>2. \A u \in Threads : pc'[u] \notin {"latching", "denying"}
    BY <1>a, <1>c DEF Threads
  <2>3. QED
    BY <2>1, <2>2 DEF CategoryInv
<1>6. WordInv'
  BY <1>b, <1>c DEF WordInv
<1>7. CoverageInv'
  <2>1. ~scanDone /\ ~waitDone
    BY DEF SafeInv, CoverageInv
  <2>2. QED
    BY <1>b, <1>c, <2>1 DEF CoverageInv
<1>8. QED
  BY <1>1, <1>3, <1>4, <1>5, <1>6, <1>7 DEF SafeInv

\* A start that fails before its wait keeps SafeInv (builder.rs:32-43).
LEMMA StartFailsSafe ==
  ASSUME TypeOK, CallShape, SafeInv, NEW h \in Hosts, StartFails(h),
         pc[h] \in {"validate", "initialScan", "spawn"},
         UNCHANGED denyUntil
  PROVE  SafeInv'
<1>1. Starting(h) /\ pc[h] \notin {"await"} \cup LockedPc
  BY DEF Starting, StartPc, LockedPc
<1>2. /\ pc' = [pc EXCEPT ![h] = "abandon"]
      /\ \A t \in Threads : t # h => call'[t] = call[t]
      /\ call'[h].category = {}
      /\ UNCHANGED <<running, runtime, handles, lock, scanDone, waitDone>>
  BY DEF StartFails, Goto, TypeOK, NoCall, Threads
<1>3. QED
  BY <1>1, <1>2, StarterMoves DEF RollbackPc

\* Builder::start and its rollback keep SafeInv (builder.rs:216-349,
\* lib.rs:172-219).
LEMMA StartStepSafe ==
  ASSUME TypeOK, CallShape, SafeInv, NEW h \in Hosts,
         StartClaim(h) \/ StartRefused(h) \/ StartStep(h)
  PROVE  SafeInv'
<1> USE DEF BarePc, StartPc, RollbackPc, RecordPc, HandlePc, WorkerPc,
            LockedPc, words, objects, worker, Goto
<1>a. /\ Hosts \subseteq Threads /\ Worker \in Threads /\ Worker \notin Hosts
      /\ NoThread \notin Threads
  BY RuntimeAssumption DEF Threads
<1>1. CASE StartClaim(h)
  <2>1. /\ pc[h] = "idle" /\ ~running /\ running'
        /\ pc' = [pc EXCEPT ![h] = "validate"]
        /\ UNCHANGED <<latched, denyUntil, scanDone, waitDone, handles, eng,
                       lock, call>>
    BY <1>1 DEF StartClaim
  <2>2. /\ handles = {} /\ latched = {} /\ pc[Worker] = "off"
        /\ \A g \in Hosts : ~Starting(g)
    BY <2>1 DEF SafeInv, SlotInv, OneRuntime, OneStart, WordInv
  <2>3. \A g \in Hosts : ~Calling(g)
    BY <2>2 DEF SafeInv, SlotInv
  <2>4. \A g \in Hosts : pc[g] = "idle"
    BY <1>a, <2>2, <2>3 DEF SafeInv, ThreadInv, TypeOK, Starting, Calling
  <2>5. /\ pc'[h] = "validate" /\ pc'[Worker] = "off"
        /\ \A g \in Hosts : g # h => pc'[g] = "idle"
    BY <1>a, <2>1, <2>2, <2>4 DEF TypeOK
  <2>6. ThreadInv'
    BY <2>5 DEF ThreadInv
  <2>7. \A g \in Hosts : (Starting(g)' <=> g = h) /\ ~Calling(g)'
    BY <2>5 DEF Starting, Calling
  <2>8. SlotInv'
    BY <1>a, <2>1, <2>2, <2>5, <2>7
    DEF SlotInv, OneStart, OneRuntime, Threads
  <2>9. LockInv'
    <3>1. \A u \in Threads : pc'[u] \notin LockedPc /\ pc[u] \notin LockedPc
      BY <1>a, <2>2, <2>4, <2>5 DEF Threads
    <3>2. QED
      BY <2>1, <3>1, LockKept DEF SafeInv
  <2>10. CategoryInv'
    <3>1. \A u \in Threads : /\ pc[u] \notin {"latching", "denying"}
                             /\ pc'[u] \notin {"latching", "denying"}
      BY <1>a, <2>2, <2>4, <2>5 DEF Threads
    <3>2. QED
      BY <2>1, <3>1 DEF SafeInv, CategoryInv
  <2>11. WordInv'
    BY <2>1, <2>2, <2>5 DEF WordInv
  <2>12. CoverageInv'
    BY <2>1, <2>5, <2>7 DEF SafeInv, CoverageInv
  <2>13. QED
    BY <2>6, <2>8, <2>9, <2>10, <2>11, <2>12 DEF SafeInv
<1>2. CASE StartRefused(h)
  BY <1>2 DEF StartRefused, vars, SafeInv, ThreadInv, SlotInv, OneStart,
              OneRuntime, Starting, Calling, LockInv, CategoryInv, WordInv,
              CoverageInv
<1>3. CASE StartValidate(h)
  <2>1. CASE StartFails(h) /\ UNCHANGED denyUntil
    BY <1>3, <2>1, StartFailsSafe DEF StartValidate
  <2>2. CASE /\ pc' = [pc EXCEPT ![h] = "initialScan"]
             /\ UNCHANGED <<running, latched, scanDone, waitDone, runtime,
                            handles, lock, call>>
    <3>1. pc[h] = "validate" /\ Starting(h) /\ call[h].category = {}
      BY <1>a, <1>3 DEF StartValidate, Starting, SafeInv, CategoryInv
    <3>2. latched = {}
      BY <3>1 DEF SafeInv, WordInv
    <3>3. QED
      BY <2>2, <3>1, <3>2, StarterMoves
  <2>3. QED
    BY <1>3, <2>1, <2>2 DEF StartValidate
<1>4. CASE StartBackendFails(h)
  BY <1>4, StartFailsSafe DEF StartBackendFails
<1>5. CASE StartScan(h)
  <2>1. CASE StartFails(h)
    BY <1>5, <2>1, StartFailsSafe DEF StartScan
  <2>2. CASE ~StartFails(h)
    <3>1. PICK outcomes :
            /\ eng' = [eng EXCEPT ![runtime] = NewState]
            /\ call' = [call EXCEPT ![h] =
                          [NoCall EXCEPT !.runtime = runtime, !.then = "spawn",
                                         !.outcomes = outcomes]]
            /\ pc' = [pc EXCEPT ![h] = "record"]
            /\ UNCHANGED <<running, latched, scanDone, waitDone, runtime,
                           handles, lock>>
      BY <1>5, <2>2 DEF StartScan
    <3>2. pc[h] = "initialScan" /\ Starting(h) /\ latched = {}
      BY <1>5 DEF StartScan, Starting, SafeInv, WordInv
    <3>3. /\ \A t \in Threads : t # h => call'[t] = call[t]
          /\ call'[h].category = {} /\ call'[h].then = "spawn"
          /\ call'[h].runtime = runtime
      BY <1>a, <3>1 DEF TypeOK, NoCall
    <3>4. eng'[runtime].latched = {}
      BY <3>1 DEF TypeOK, NewState
    <3>5. QED
      BY <3>1, <3>2, <3>3, <3>4, StarterMoves
  <2>3. QED
    BY <2>1, <2>2
<1>6. CASE StartSpawn(h)
  <2>1. /\ pc[h] = "spawn" /\ Starting(h)
        /\ pc' = [pc EXCEPT ![h] = "await", ![Worker] = "dispatch"]
        /\ call' = [call EXCEPT ![h] = NoCall]
        /\ UNCHANGED <<words, runtime, handles, lock, eng>>
    BY <1>6 DEF StartSpawn, Starting
  <2>2. /\ running /\ handles = {} /\ pc[Worker] = "off"
        /\ \A g \in Hosts : g # h => pc[g] = "idle"
    BY <2>1, StarterAlone
  <2>3. /\ pc'[h] = "await" /\ pc'[Worker] = "dispatch"
        /\ \A g \in Hosts : g # h => pc'[g] = "idle"
    BY <1>a, <2>1, <2>2 DEF TypeOK
  <2>4. ThreadInv'
    BY <2>3 DEF ThreadInv
  <2>5. \A g \in Hosts : (Starting(g)' <=> g = h) /\ ~Calling(g)'
    BY <2>3 DEF Starting, Calling
  <2>6. SlotInv'
    BY <1>a, <2>1, <2>2, <2>3, <2>5
    DEF SlotInv, OneStart, OneRuntime, Threads
  <2>7. \A u \in Threads : pc'[u] \notin LockedPc /\ pc[u] \notin LockedPc
    BY <1>a, <2>1, <2>2, <2>3 DEF Threads
  <2>8. LockInv'
    BY <2>1, <2>7, LockKept DEF SafeInv
  <2>9. \A u \in Threads : call[u].category = {} /\ call'[u].category = {}
    BY <1>a, <2>1, <2>7 DEF SafeInv, CategoryInv, TypeOK, NoCall
  <2>10. CategoryInv'
    BY <2>7, <2>9 DEF CategoryInv
  <2>11. \A g \in Hosts : pc[g] \notin BarePc
    BY <2>1, <2>2
  <2>12. WordInv'
    BY <2>1, <2>2, <2>3, <2>9, <2>11 DEF SafeInv, WordInv
  <2>13. CoverageInv'
    BY <2>1, <2>2, <2>3, <2>5 DEF CoverageInv
  <2>14. QED
    BY <2>4, <2>6, <2>8, <2>10, <2>12, <2>13 DEF SafeInv
<1>7. CASE StartSpawnFails(h)
  BY <1>7, StartFailsSafe DEF StartSpawnFails
<1>8. CASE StartReturns(h)
  <2>1. /\ pc[h] = "await" /\ Starting(h)
        /\ pc' = [pc EXCEPT ![h] = "idle"]
        /\ handles' = handles \cup {runtime}
        /\ UNCHANGED <<words, runtime, lock, call, eng>>
    BY <1>8 DEF StartReturns, Starting
  <2>2. /\ running /\ \A g \in Hosts : Starting(g) => g = h
        /\ handles \subseteq {runtime}
    BY <2>1 DEF SafeInv, SlotInv, OneStart, OneRuntime
  <2>3. /\ pc'[h] = "idle" /\ \A u \in Threads : u # h => pc'[u] = pc[u]
    BY <1>a, <2>1 DEF TypeOK
  <2>4. ThreadInv'
    BY <1>a, <2>3 DEF SafeInv, ThreadInv
  <2>5. \A g \in Hosts : ~Starting(g)'
    BY <1>a, <2>1, <2>2, <2>3 DEF Starting
  <2>6. SlotInv'
    BY <1>a, <2>1, <2>2, <2>3, <2>5
    DEF SafeInv, SlotInv, OneStart, OneRuntime
  <2>7. \A u \in Threads : pc'[u] \in LockedPc <=> pc[u] \in LockedPc
    BY <2>1, <2>3
  <2>8. LockInv'
    BY <2>1, <2>7, LockKept DEF SafeInv
  <2>9. CategoryInv'
    BY <1>a, <2>1, <2>3 DEF SafeInv, CategoryInv
  <2>10. \A g \in Hosts : pc[g] \notin BarePc /\ pc'[g] \notin BarePc
    BY <1>a, <2>1, <2>2, <2>3 DEF Starting
  <2>11. WordInv'
    BY <2>1, <2>2, <2>10 DEF SafeInv, WordInv
  <2>12. CoverageInv'
    BY <2>1, <2>2, <2>5, <2>10 DEF CoverageInv
  <2>13. QED
    BY <2>4, <2>6, <2>8, <2>9, <2>11, <2>12 DEF SafeInv
<1>9. CASE StartWorkerStopped(h)
  BY <1>9 DEF StartWorkerStopped, SafeInv, ThreadInv
<1>10. CASE AbandonDeny(h)
  <2>1. /\ pc[h] = "abandon" /\ Starting(h) /\ call[h].category = {}
        /\ pc' = [pc EXCEPT ![h] = "abandonLatch"] /\ denyUntil' = FALSE
        /\ UNCHANGED <<running, scanDone, waitDone, runtime, handles, lock,
                       call>>
    BY <1>a, <1>10 DEF AbandonDeny, Starting, SafeInv, CategoryInv
  <2>2. QED
    BY <2>1, StarterMoves
<1>11. CASE AbandonLatch(h)
  <2>1. /\ pc[h] = "abandonLatch" /\ Starting(h) /\ call[h].category = {}
        /\ pc' = [pc EXCEPT ![h] = "abandonWait"] /\ latched' = {}
        /\ UNCHANGED <<running, denyUntil, scanDone, waitDone, runtime,
                       handles, lock, call>>
    BY <1>a, <1>11 DEF AbandonLatch, Starting, SafeInv, CategoryInv
  <2>2. ~denyUntil
    BY <2>1 DEF SafeInv, CoverageInv
  <2>3. QED
    BY <2>1, <2>2, StarterMoves
<1>12. CASE AbandonWait(h)
  <2>1. /\ pc[h] = "abandonWait" /\ Starting(h) /\ call[h].category = {}
        /\ pc' = [pc EXCEPT ![h] = "release"]
        /\ scanDone' = FALSE /\ waitDone' = FALSE
        /\ UNCHANGED <<running, runtime, handles, lock, call, denyUntil, latched>>
    BY <1>a, <1>12 DEF AbandonWait, Starting, SafeInv, CategoryInv
  <2>2. ~denyUntil /\ latched = {}
    BY <2>1 DEF SafeInv, CoverageInv, WordInv
  <2>3. QED
    BY <2>1, <2>2, StarterMoves
<1>13. CASE AbandonRelease(h)
  <2>1. /\ pc[h] = "release" /\ Starting(h)
        /\ pc' = [pc EXCEPT ![h] = "idle"] /\ running' = FALSE
        /\ UNCHANGED <<latched, denyUntil, scanDone, waitDone, runtime,
                       handles, lock, call, eng>>
    BY <1>13 DEF AbandonRelease, Starting
  <2>2. /\ handles = {} /\ pc[Worker] = "off"
        /\ \A g \in Hosts : g # h => pc[g] = "idle"
    BY <2>1, StarterAlone
  <2>3. pc'[Worker] = "off" /\ \A g \in Hosts : pc'[g] = "idle"
    BY <1>a, <2>1, <2>2 DEF TypeOK
  <2>4. latched = {} /\ ~denyUntil /\ ~scanDone /\ ~waitDone
    BY <2>1 DEF SafeInv, WordInv, CoverageInv
  <2>5. ThreadInv'
    BY <2>3 DEF ThreadInv
  <2>6. SlotInv'
    BY <1>a, <2>1, <2>2, <2>3
    DEF SlotInv, OneStart, OneRuntime, Starting, Calling, Threads
  <2>7. \A u \in Threads : pc'[u] \notin LockedPc /\ pc[u] \notin LockedPc
    BY <1>a, <2>1, <2>2, <2>3 DEF Threads
  <2>8. LockInv'
    BY <2>1, <2>7, LockKept DEF SafeInv
  <2>9. CategoryInv'
    BY <2>1, <2>7 DEF SafeInv, CategoryInv
  <2>10. WordInv' /\ CoverageInv'
    BY <2>1, <2>3, <2>4 DEF WordInv, CoverageInv, Starting
  <2>11. QED
    BY <2>5, <2>6, <2>8, <2>9, <2>10 DEF SafeInv
<1>14. QED
  BY <1>1, <1>2, <1>3, <1>4, <1>5, <1>6, <1>7, <1>8, <1>9, <1>10, <1>11,
     <1>12, <1>13 DEF StartStep

(***************************************************************************)
(* Calls through a handle.                                                 *)
(***************************************************************************)

\* A step of a call that changes no word but LATCHED, no handle and no runtime
\* keeps the slot, the threads and the coverage words: the caller stays a
\* caller, or returns (handle.rs:88-180).
LEMMA CallerMoves ==
  ASSUME TypeOK, CallShape, SafeInv, NEW t \in Threads, NEW label,
         pc[t] \in {Home(t)} \cup HandlePc, t # Worker => handles # {},
         running, \A h \in Hosts : pc[h] \notin BarePc,
         label \in {Home(t), "record"} \cup HandlePc,
         pc' = [pc EXCEPT ![t] = label],
         UNCHANGED <<running, denyUntil, scanDone, waitDone, runtime, handles>>,
         \A u \in Threads : u # t => call'[u] = call[u],
         label = "record" => call'[t].then = "enqueue",
         label \in {"record", "denying", "enqueue"} =>
           call'[t].runtime = runtime
  PROVE  /\ ThreadInv' /\ SlotInv' /\ CoverageInv'
         /\ \A h \in Hosts : pc'[h] \notin BarePc
         /\ \A u \in Threads : u # t => pc'[u] = pc[u]
<1> USE DEF BarePc, StartPc, RollbackPc, RecordPc, HandlePc, WorkerPc,
            LockedPc, words, objects, worker, Goto
<1>a. /\ Hosts \subseteq Threads /\ Worker \in Threads /\ Worker \notin Hosts
      /\ NoThread \notin Threads
  BY RuntimeAssumption DEF Threads
<1>b. pc'[t] = label /\ \A u \in Threads : u # t => pc'[u] = pc[u]
  BY DEF TypeOK
<1>1. ThreadInv'
  BY <1>a, <1>b DEF SafeInv, ThreadInv, Home, Threads
<1>2. \A h \in Hosts : /\ Starting(h)' <=> Starting(h)
                       /\ Starting(h) => pc'[h] = pc[h]
                       /\ Calling(h)' => handles # {}
  BY <1>a, <1>b DEF SafeInv, SlotInv, Starting, Calling, Home
<1>3. pc[Worker] # "off" \/ pc'[Worker] = "off"
  BY <1>a, <1>b DEF Home
<1>4. SlotInv'
  <2>1. OneStart' /\ OneRuntime'
    BY <1>2 DEF SafeInv, SlotInv, OneStart, OneRuntime
  <2>2. pc'[Worker] # "off" =>
          running' /\ \A h \in Hosts : Starting(h)' => pc'[h] = "await"
    BY <1>2, <1>3 DEF SafeInv, SlotInv
  <2>3. \A u \in Threads :
          pc'[u] \in RecordPc \cup {"denying", "enqueue"} =>
            call'[u].runtime = runtime'
    BY <1>b DEF SafeInv, SlotInv, Home
  <2>4. QED
    BY <1>2, <2>1, <2>2, <2>3 DEF SlotInv
<1>5. \A h \in Hosts : pc'[h] \notin BarePc
  BY <1>a, <1>b DEF Home
<1>6. CoverageInv'
  BY <1>2, <1>5 DEF SafeInv, CoverageInv
<1>7. QED
  BY <1>1, <1>4, <1>5, <1>6, <1>b

\* Calls through a handle keep SafeInv (handle.rs:88-180, lib.rs:235-248).
LEMMA HandleStepSafe ==
  ASSUME TypeOK, CallShape, SafeInv, NEW t \in Threads,
         HandleCall(t) \/ HandleStep(t)
  PROVE  SafeInv'
<1> USE DEF BarePc, StartPc, RollbackPc, RecordPc, HandlePc, WorkerPc,
            LockedPc, words, objects, worker, Goto
<1>a. /\ Hosts \subseteq Threads /\ Worker \in Threads /\ Worker \notin Hosts
      /\ NoThread \notin Threads
  BY RuntimeAssumption DEF Threads
<1>b. Home(t) = IF t = Worker THEN "callback" ELSE "idle"
  BY DEF Home
<1>1. ASSUME NEW label,
             pc' = [pc EXCEPT ![t] = label],
             pc[t] \in {Home(t)} \cup (HandlePc \ {"denying", "enqueue"}),
             label \in {Home(t)} \cup (HandlePc \ {"denying", "enqueue"}),
             label # Home(t) /\ t # Worker => handles # {},
             UNCHANGED <<words, runtime, handles, objects, call>>
      PROVE  SafeInv'
  <2>1. \/ t \in Hosts /\ pc[t] \in QuietHostPc /\ label \in QuietHostPc
             /\ (label # "idle" => handles # {})
        \/ t = Worker /\ pc[t] \in QuietWorkerPc /\ label \in QuietWorkerPc
    BY <1>a, <1>b, <1>1 DEF QuietHostPc, QuietWorkerPc, Threads
  <2>2. QED
    BY <1>1, <2>1, QuietMove
<1>c. pc[t] \in HandlePc /\ t # Worker => handles # {}
  BY DEF SafeInv, SlotInv, Calling, Threads
<1>2. ASSUME NEW r \in Runtimes, EnsureLatched(t, r) PROVE SafeInv'
  BY <1>1, <1>2, CallerAlone DEF EnsureLatched, CanCall
<1>3. ASSUME NEW r \in Runtimes, WaitCall(t, r) PROVE SafeInv'
  BY <1>1, <1>3, CallerAlone DEF WaitCall, CanCall
<1>4. CASE EnsureDenyUntil(t)
  BY <1>1, <1>4, <1>c DEF EnsureDenyUntil
<1>5. CASE EnsureScanDone(t)
  BY <1>1, <1>5 DEF EnsureScanDone
<1>6. CASE WaitCheck(t)
  BY <1>1, <1>6, <1>c DEF WaitCheck
<1>7. CASE WaitExpires(t)
  BY <1>1, <1>7 DEF WaitExpires
<1>8. ASSUME NEW r \in Runtimes, ReportUiAbuse(t, r) PROVE SafeInv'
  <2>1. /\ running /\ r = runtime /\ (t # Worker => handles # {})
        /\ \A h \in Hosts : pc[h] \notin BarePc
        /\ pc[t] = Home(t)
    BY <1>8, CallerAlone DEF ReportUiAbuse, CanCall
  <2>2. /\ pc' = [pc EXCEPT ![t] = "record"]
        /\ UNCHANGED <<words, runtime, handles, lock, eng>>
        /\ \A u \in Threads : u # t => call'[u] = call[u]
        /\ call'[t].then = "enqueue" /\ call'[t].runtime = runtime
        /\ call'[t].category = {}
    BY <1>8, <2>1 DEF ReportUiAbuse, TypeOK, NoCall
  <2>3. /\ ThreadInv' /\ SlotInv' /\ CoverageInv'
        /\ \A h \in Hosts : pc'[h] \notin BarePc
        /\ \A u \in Threads : u # t => pc'[u] = pc[u]
    BY <2>1, <2>2, CallerMoves
  <2>4. pc[t] \notin LockedPc /\ pc'[t] = "record"
    BY <1>b, <2>1, <2>2 DEF TypeOK
  <2>5. LockInv'
    BY <2>2, <2>3, <2>4, LockKept DEF SafeInv
  <2>6. \A u \in Threads : call'[u].category = call[u].category
    BY <2>2, <2>4 DEF SafeInv, CategoryInv
  <2>7. CategoryInv'
    BY <2>2, <2>3, <2>4, <2>6 DEF SafeInv, CategoryInv
  <2>8. WordInv'
    BY <2>1, <2>2, <2>3, <2>6 DEF SafeInv, WordInv
  <2>9. QED
    BY <2>3, <2>5, <2>7, <2>8 DEF SafeInv
<1>9. CASE ReportQueue(t)
  <2>1. pc[t] = "enqueue"
    BY <1>9 DEF ReportQueue
  <2>2. running /\ \A h \in Hosts : pc[h] \notin BarePc
    BY <2>1, ActiveAlone
  <2>3. /\ pc' = [pc EXCEPT ![t] = Home(t)]
        /\ UNCHANGED <<words, runtime, handles, lock, eng>>
        /\ \A u \in Threads : u # t => call'[u] = call[u]
        /\ call'[t].category = {} /\ call[t].category = {}
    BY <1>9 DEF ReportQueue, Return, TypeOK, NoCall, SafeInv, CategoryInv
  <2>4. /\ ThreadInv' /\ SlotInv' /\ CoverageInv'
        /\ \A h \in Hosts : pc'[h] \notin BarePc
        /\ \A u \in Threads : u # t => pc'[u] = pc[u]
    BY <1>b, <1>c, <2>1, <2>2, <2>3, CallerMoves
  <2>5. pc'[t] \in {"idle", "callback"}
    BY <1>b, <2>3 DEF TypeOK
  <2>6. LockInv'
    BY <2>1, <2>3, <2>4, <2>5, LockKept DEF SafeInv
  <2>7. CategoryInv'
    BY <2>1, <2>3, <2>4, <2>5 DEF SafeInv, CategoryInv
  <2>8. WordInv'
    BY <2>2, <2>3, <2>4 DEF SafeInv, WordInv
  <2>9. QED
    BY <2>4, <2>6, <2>7, <2>8 DEF SafeInv
<1>10. ASSUME NEW r \in Runtimes, NEW category \in Categories,
              DenyWord(t, r, category)
       PROVE  SafeInv'
  <2>1. /\ running /\ r = runtime /\ (t # Worker => handles # {})
        /\ \A h \in Hosts : pc[h] \notin BarePc
        /\ pc[t] = Home(t)
    BY <1>10, CallerAlone DEF DenyWord, CanCall
  <2>2. /\ pc' = [pc EXCEPT ![t] = "denying"]
        /\ lock[runtime] = NoThread /\ lock' = [lock EXCEPT ![runtime] = t]
        /\ latched' = latched \cup {category}
        /\ UNCHANGED <<running, denyUntil, scanDone, waitDone, runtime,
                       handles, eng>>
        /\ \A u \in Threads : u # t => call'[u] = call[u]
        /\ call'[t].runtime = runtime /\ call'[t].category = {category}
    BY <1>10, <2>1 DEF DenyWord, TypeOK, NoCall
  <2>3. /\ ThreadInv' /\ SlotInv' /\ CoverageInv'
        /\ \A h \in Hosts : pc'[h] \notin BarePc
        /\ \A u \in Threads : u # t => pc'[u] = pc[u]
    BY <2>1, <2>2, CallerMoves
  <2>4. /\ pc[t] \notin LockedPc /\ pc'[t] = "denying"
        /\ pc[t] \notin {"latching", "denying"}
    BY <1>b, <2>1, <2>2 DEF TypeOK
  <2>5. LockInv'
    BY <2>2, <2>3, <2>4, LockTaken DEF SafeInv, TypeOK
  <2>6. CategoryInv'
    BY <2>2, <2>3, <2>4 DEF SafeInv, CategoryInv
  <2>7. \A u \in Threads : call[u].category \subseteq call'[u].category
    BY <2>2, <2>4 DEF SafeInv, CategoryInv
  <2>8. WordInv'
    BY <2>1, <2>2, <2>3, <2>7 DEF SafeInv, WordInv
  <2>9. QED
    BY <2>3, <2>5, <2>6, <2>8 DEF SafeInv
<1>11. CASE DenyState(t)
  <2>1. pc[t] = "denying" /\ call[t].runtime = runtime
    BY <1>11 DEF DenyState, SafeInv, SlotInv
  <2>2. running /\ \A h \in Hosts : pc[h] \notin BarePc
    BY <2>1, ActiveAlone
  <2>3. PICK category \in call[t].category :
          eng' = [eng EXCEPT ![runtime] = StateLatchByHost(@, category)]
    BY <1>11, <2>1 DEF DenyState
  <2>4. call[t].category = {category} /\ category \in latched
    BY <2>1, <2>3 DEF SafeInv, CategoryInv
  <2>5. eng'[runtime].latched = eng[runtime].latched \cup {category}
    BY <2>3 DEF TypeOK, StateLatchByHost, State
  <2>6. /\ pc' = [pc EXCEPT ![t] = Home(t)]
        /\ lock' = [lock EXCEPT ![call[t].runtime] = NoThread]
        /\ UNCHANGED <<words, runtime, handles>>
        /\ \A u \in Threads : u # t => call'[u] = call[u]
        /\ call'[t].category = {}
    BY <1>11 DEF DenyState, Return, TypeOK, NoCall
  <2>7. /\ ThreadInv' /\ SlotInv' /\ CoverageInv'
        /\ \A h \in Hosts : pc'[h] \notin BarePc
        /\ \A u \in Threads : u # t => pc'[u] = pc[u]
    BY <1>b, <1>c, <2>1, <2>2, <2>6, CallerMoves
  <2>8. pc'[t] \in {"idle", "callback"}
    BY <1>b, <2>6 DEF TypeOK
  <2>9. LockInv'
    BY <2>1, <2>6, <2>7, <2>8, LockReleased DEF SafeInv
  <2>10. CategoryInv'
    BY <2>6, <2>7, <2>8 DEF SafeInv, CategoryInv
  <2>11. WordInv'
    BY <2>2, <2>4, <2>5, <2>6, <2>7 DEF SafeInv, WordInv
  <2>12. QED
    BY <2>7, <2>9, <2>10, <2>11 DEF SafeInv
<1>12. QED
  BY <1>2, <1>3, <1>4, <1>5, <1>6, <1>7, <1>8, <1>9, <1>10, <1>11
  DEF HandleCall, HandleStep

(***************************************************************************)
(* Worker::run.                                                            *)
(***************************************************************************)

\* The worker's loop keeps SafeInv as long as no panic escapes it
\* (worker.rs:186-317, lib.rs:225-233).
LEMMA WorkerStepSafe ==
  ASSUME TypeOK, CallShape, SafeInv, ~Unwinds, WorkerStep
  PROVE  SafeInv'
<1> USE DEF BarePc, StartPc, RollbackPc, RecordPc, HandlePc, WorkerPc,
            LockedPc, words, objects, worker, Goto
<1>a. /\ Hosts \subseteq Threads /\ Worker \in Threads /\ Worker \notin Hosts
      /\ NoThread \notin Threads
  BY RuntimeAssumption DEF Threads
<1>1. ASSUME NEW label \in QuietWorkerPc, pc' = [pc EXCEPT ![Worker] = label],
             pc[Worker] \in QuietWorkerPc,
             UNCHANGED <<words, runtime, handles, lock, call>>,
             \A r \in Runtimes : eng'[r].latched = eng[r].latched
      PROVE  SafeInv'
  BY <1>a, <1>1, QuietMove
<1>2. CASE DispatchNothing
  <2>1. pc' = [pc EXCEPT ![Worker] = "dispatch"]
    BY <1>2 DEF DispatchNothing, TypeOK
  <2>2. QED
    BY <1>1, <1>2, <2>1 DEF DispatchNothing, QuietWorkerPc
<1>3. CASE DispatchCallback
  BY <1>1, <1>3 DEF DispatchCallback, QuietWorkerPc
<1>4. CASE DispatchCrash
  <2>1. pc' = [pc EXCEPT ![Worker] = "dispatch"]
    BY <1>4 DEF DispatchCrash, TypeOK
  <2>2. QED
    BY <1>1, <1>4, <2>1 DEF DispatchCrash, QuietWorkerPc
<1>5. CASE DispatchDone
  <2>1. \E label \in {"take", "scan", "mark"} :
          pc' = [pc EXCEPT ![Worker] = label]
    BY <1>5 DEF DispatchDone, TypeOK
  <2>2. QED
    BY <1>1, <1>5, <2>1 DEF DispatchDone, QuietWorkerPc
<1>6. CASE CallbackReturns
  BY <1>1, <1>6 DEF CallbackReturns, QuietWorkerPc
<1>7. CASE CallbackPanics
  BY <1>1, <1>7 DEF CallbackPanics, QuietWorkerPc
<1>8. CASE RecordHealth
  <2>1. \A r \in Runtimes : eng'[r].latched = eng[r].latched
    BY <1>8 DEF RecordHealth, TypeOK, StateRecord, State
  <2>2. QED
    BY <1>1, <1>8, <2>1 DEF RecordHealth, QuietWorkerPc
<1>9. CASE WorkerUnwinds
  BY <1>9 DEF WorkerUnwinds
<1>10. CASE WorkerTakes
  BY <1>1, <1>10 DEF WorkerTakes, QuietWorkerPc
<1>11. CASE CallbackShares
  <2>1. /\ pc[Worker] = "callback" /\ pc' = pc
        /\ handles' = handles \cup {runtime}
        /\ UNCHANGED <<words, runtime, lock, call, eng>>
    BY <1>11 DEF CallbackShares
  <2>2. /\ running /\ \A h \in Hosts : Starting(h) => pc[h] = "await"
        /\ handles \subseteq {runtime}
    BY <2>1 DEF SafeInv, SlotInv, OneRuntime
  <2>3. SlotInv'
    BY <2>1, <2>2
    DEF SafeInv, SlotInv, OneStart, OneRuntime, Starting, Calling
  <2>4. ThreadInv' /\ CategoryInv' /\ WordInv' /\ CoverageInv'
    BY <2>1
    DEF SafeInv, ThreadInv, CategoryInv, WordInv, CoverageInv, Starting
  <2>5. LockInv'
    BY <2>1, LockKept DEF SafeInv
  <2>6. QED
    BY <2>3, <2>4, <2>5 DEF SafeInv
<1>12. CASE WorkerScans
  <2>1. PICK outcomes :
          call' = [call EXCEPT ![Worker] =
                     [NoCall EXCEPT !.runtime = runtime, !.then = "dispatch",
                                    !.outcomes = outcomes]]
    BY <1>12 DEF WorkerScans
  <2>2. /\ pc[Worker] = "scan" /\ pc'[Worker] = "record"
        /\ \A u \in Threads : u # Worker => pc'[u] = pc[u] /\ call'[u] = call[u]
        /\ UNCHANGED <<words, runtime, handles, lock, eng>>
    BY <1>a, <1>12, <2>1 DEF WorkerScans, TypeOK
  <2>3. call'[Worker].runtime = runtime /\ call'[Worker].category = {}
    BY <1>a, <2>1 DEF TypeOK, NoCall
  <2>4. \A h \in Hosts : /\ Starting(h)' <=> Starting(h)
                         /\ Calling(h)' <=> Calling(h)
                         /\ pc'[h] = pc[h]
    BY <1>a, <2>2 DEF Starting, Calling
  <2>5. ThreadInv'
    BY <1>a, <2>2 DEF SafeInv, ThreadInv
  <2>6. SlotInv'
    BY <1>a, <2>2, <2>3, <2>4 DEF SafeInv, SlotInv, OneStart, OneRuntime
  <2>7. LockInv'
    <3>1. \A u \in Threads :
            /\ pc'[u] \in LockedPc <=> pc[u] \in LockedPc
            /\ pc[u] \in LockedPc => call'[u].runtime = call[u].runtime
      BY <2>2
    <3>2. QED
      BY <2>2, <3>1, LockKept DEF SafeInv
  <2>8. \A u \in Threads : call'[u].category = call[u].category
    BY <1>a, <2>2, <2>3 DEF SafeInv, CategoryInv
  <2>9. CategoryInv'
    BY <2>2, <2>8 DEF SafeInv, CategoryInv
  <2>10. WordInv' /\ CoverageInv'
    BY <2>2, <2>4, <2>8 DEF SafeInv, WordInv, CoverageInv
  <2>11. QED
    BY <2>5, <2>6, <2>7, <2>9, <2>10 DEF SafeInv
<1>13. CASE WorkerMarks
  <2>1. /\ pc[Worker] = "mark" /\ pc'[Worker] = "take"
        /\ \A h \in Hosts :
             pc'[h] = IF pc[h] = "waiting" THEN "woken" ELSE pc[h]
        /\ \A h \in Hosts : pc[h] # "release"
        /\ UNCHANGED <<running, latched, denyUntil, runtime, handles, lock,
                       eng, call>>
    BY <1>a, <1>13 DEF WorkerMarks, WaitLockFree
  <2>2. running /\ \A h \in Hosts : pc[h] \notin BarePc
    BY <1>a, <2>1, ActiveAlone
  <2>3. \A h \in Hosts : /\ Starting(h)' <=> Starting(h)
                         /\ Calling(h)' <=> Calling(h)
                         /\ pc'[h] = "await" <=> pc[h] = "await"
                         /\ pc'[h] \notin BarePc
    BY <2>1, <2>2 DEF Starting, Calling
  <2>4. \A u \in Threads :
          /\ \A label \in RecordPc \cup {"denying", "enqueue"} :
               pc'[u] = label <=> pc[u] = label
    BY <1>a, <2>1 DEF Threads
  <2>5. ThreadInv'
    BY <1>a, <2>1 DEF SafeInv, ThreadInv
  <2>6. SlotInv'
    BY <1>a, <2>1, <2>3, <2>4 DEF SafeInv, SlotInv, OneStart, OneRuntime
  <2>7. LockInv'
    <3>1. \A u \in Threads : pc'[u] \in LockedPc <=> pc[u] \in LockedPc
      BY <2>4
    <3>2. QED
      BY <2>1, <3>1, LockKept DEF SafeInv
  <2>8. CategoryInv'
    BY <2>1, <2>4 DEF SafeInv, CategoryInv
  <2>9. WordInv' /\ CoverageInv'
    BY <1>a, <2>1, <2>2, <2>3
    DEF SafeInv, SlotInv, WordInv, CoverageInv
  <2>10. QED
    BY <2>5, <2>6, <2>7, <2>8, <2>9 DEF SafeInv
<1>14. QED
  BY <1>2, <1>3, <1>4, <1>5, <1>6, <1>7, <1>8, <1>9, <1>10, <1>11, <1>12,
     <1>13 DEF WorkerStep

(***************************************************************************)
(* The theorems.                                                           *)
(***************************************************************************)

\* Every step keeps SafeInv (the whole of builder.rs, handle.rs and worker.rs
\* that Runtime models), when no panic escapes the worker.
LEMMA NextSafe ==
  ASSUME TypeOK, CallShape, SafeInv, ~Unwinds, [Next]_vars
  PROVE  SafeInv'
<1>1. ASSUME NEW h \in Hosts, StartClaim(h) \/ StartRefused(h) \/ StartStep(h)
      PROVE  SafeInv'
  BY <1>1, StartStepSafe
<1>2. CASE WorkerStep
  BY <1>2, WorkerStepSafe
<1>3. ASSUME NEW t \in Threads, HandleCall(t) \/ HandleStep(t)
      PROVE  SafeInv'
  BY <1>3, HandleStepSafe
<1>4. ASSUME NEW t \in Threads, RecordStep(t)
      PROVE  SafeInv'
  BY <1>4, RecordStepSafe
<1>5. CASE UNCHANGED vars
  BY <1>5 DEF vars, words, objects, SafeInv, ThreadInv, SlotInv, OneStart,
              OneRuntime, Starting, Calling, LockInv, CategoryInv, WordInv,
              CoverageInv
<1>6. QED
  BY <1>1, <1>2, <1>3, <1>4, <1>5 DEF Next, Aborted

\* Start, handles, worker, state lock and denial word fit together in every
\* reachable state (lib.rs:142-256, builder.rs:216-349, handle.rs:88-180,
\* worker.rs:74-317), when no panic escapes the worker.
THEOREM Invariance ==
  ASSUME ~Unwinds
  PROVE  Spec => []IInv
<1>1. Init => SafeInv
  <2> SUFFICES ASSUME Init PROVE SafeInv
    OBVIOUS
  <2>1. /\ pc[Worker] = "off" /\ \A h \in Hosts : pc[h] = "idle"
        /\ \A t \in Threads : pc[t] \in {"off", "idle"}
        /\ \A t \in Threads : call[t].category = {}
    BY RuntimeAssumption DEF Init, Threads, NoCall
  <2>2. ThreadInv /\ LockInv /\ CategoryInv /\ WordInv /\ CoverageInv
    BY <2>1 DEF Init, ThreadInv, LockInv, CategoryInv, WordInv, CoverageInv,
                WorkerPc, StartPc, RollbackPc, LockedPc, BarePc, Threads,
                Starting, RecordPc
  <2>3. SlotInv
    BY <2>1 DEF Init, SlotInv, OneStart, OneRuntime, Starting, Calling,
                StartPc, RollbackPc, RecordPc, HandlePc
  <2>4. QED
    BY <2>2, <2>3 DEF SafeInv
<1>2. TypeInv /\ SafeInv /\ [Next]_vars => SafeInv'
  BY NextSafe DEF TypeInv
<1>3. TypeInv /\ SafeInv => IInv
  BY DEF TypeInv, SafeInv, IInv
<1>4. QED
  BY <1>1, <1>2, <1>3, TypeInvariance, PTL DEF Spec

\* "The two never disagree" (lib.rs:150-154, worker.rs:71-73): whenever the
\* state lock is free, the latched set that a snapshot shows is the word that
\* ensure_allowed() reads.
THEOREM LatchAgreement ==
  ASSUME ~Unwinds
  PROVE  Spec => []LatchesAgree
<1>1. TypeOK /\ IInv => LatchesAgree
  <2> SUFFICES ASSUME TypeOK, IInv, NEW r \in handles, lock[r] = NoThread
               PROVE  eng[r].latched = latched
    BY DEF LatchesAgree
  <2>1. /\ running /\ r = runtime
        /\ \A h \in Hosts : Starting(h) => pc[h] = "await"
    BY DEF IInv, SlotInv, OneRuntime
  <2>2. \A h \in Hosts : pc[h] \notin BarePc
    BY <2>1 DEF Starting, BarePc, StartPc, RollbackPc
  <2>3. ASSUME NEW t \in Threads PROVE call[t].category = {}
    <3>1. pc[t] \notin {"latching", "denying"}
      <4>1. SUFFICES ASSUME pc[t] \in {"latching", "denying"} PROVE FALSE
        OBVIOUS
      <4>2. call[t].runtime = r /\ lock[call[t].runtime] = t
        BY <2>1, <4>1 DEF IInv, SlotInv, LockInv, LockedPc, RecordPc
      <4>3. QED
        BY <4>2, RuntimeAssumption
    <3>2. QED
      BY <3>1 DEF IInv, CategoryInv
  <2>4. QED
    BY <2>1, <2>2, <2>3 DEF IInv, WordInv
<1>2. QED
  BY <1>1, Invariance, TypeCorrect, PTL

\* One start, one runtime, and a clean slot for the next one (lib.rs:206-208,
\* builder.rs:217-219).
THEOREM SlotSafety ==
  ASSUME ~Unwinds
  PROVE  Spec => []SlotIsSafe
<1>1. IInv => SlotIsSafe
  BY DEF IInv, SlotInv, SlotIsSafe, CleanSlot, WordInv, CoverageInv
<1>2. QED
  BY <1>1, Invariance, PTL

\* While a host can reach a runtime, no step removes a denial, reopens the
\* startup window or takes back the first full scan (handle.rs:106,
\* builder.rs:159): only a rollback does, and no handle exists beside one.
LEMMA WordsMonotone ==
  ASSUME TypeOK, IInv, ~Unwinds, [Next]_vars, handles # {}
  PROVE  /\ latched \subseteq latched'
         /\ scanDone => scanDone'
         /\ denyUntil' => denyUntil
<1> USE DEF words, objects, worker
<1>1. \A h \in Hosts : Starting(h) => pc[h] = "await"
  BY DEF IInv, SlotInv, OneRuntime
<1>2. pc[Worker] # "stopped"
  BY DEF IInv, ThreadInv
<1>3. ASSUME NEW h \in Hosts, StartClaim(h) \/ StartRefused(h) \/ StartStep(h)
      PROVE  UNCHANGED <<latched, scanDone, denyUntil>>
  BY <1>1, <1>2, <1>3
  DEF StartClaim, StartRefused, StartStep, StartValidate, StartBackendFails,
      StartScan, StartSpawn, StartSpawnFails, StartReturns,
      StartWorkerStopped, AbandonDeny, AbandonLatch, AbandonWait,
      AbandonRelease, Starting, StartPc, RollbackPc, vars
<1>4. CASE WorkerStep
  <2>1. CASE WorkerMarks
    BY <2>1 DEF WorkerMarks
  <2>2. CASE DispatchNothing \/ DispatchCallback \/ DispatchCrash
             \/ DispatchDone
    BY <2>2 DEF DispatchNothing, DispatchCallback, DispatchCrash, DispatchDone
  <2>3. CASE CallbackReturns \/ CallbackShares \/ CallbackPanics
             \/ RecordHealth
    BY <2>3 DEF CallbackReturns, CallbackShares, CallbackPanics, RecordHealth
  <2>4. CASE WorkerUnwinds \/ WorkerTakes
    BY <2>4 DEF WorkerUnwinds, WorkerTakes
  <2>5. CASE WorkerScans
    <3>1. UNCHANGED words
      BY <2>5, Zenon DEF WorkerScans
    <3>2. QED
      BY <3>1
  <2>6. QED
    BY <1>4, <2>1, <2>2, <2>3, <2>4, <2>5 DEF WorkerStep
<1>5. ASSUME NEW t \in Threads, HandleCall(t) \/ HandleStep(t)
      PROVE  latched \subseteq latched' /\ UNCHANGED <<scanDone, denyUntil>>
  BY <1>5 DEF HandleCall, HandleStep, EnsureLatched, DenyWord, ReportUiAbuse,
      WaitCall, EnsureDenyUntil, EnsureScanDone, DenyState, ReportQueue,
      WaitCheck, WaitExpires
<1>6. ASSUME NEW t \in Threads, RecordStep(t)
      PROVE  latched \subseteq latched' /\ UNCHANGED <<scanDone, denyUntil>>
  BY <1>6 DEF RecordStep, RecordLock, RecordOutcome, RecordLatch, RecordUnlock
<1>7. CASE UNCHANGED vars
  BY <1>7 DEF vars
<1>8. QED
  BY <1>3, <1>4, <1>5, <1>6, <1>7 DEF Next, Aborted

\* "It is permanent, it is process-wide, and nothing clears it"
\* (handle.rs:106).
THEOREM Permanence ==
  ASSUME ~Unwinds
  PROVE  Spec => LatchPermanent
<1>1. TypeOK /\ IInv /\ [Next]_vars
        => [handles # {} => latched \subseteq latched']_vars
  BY WordsMonotone
<1>2. QED
  BY <1>1, Invariance, TypeCorrect, PTL DEF Spec, LatchPermanent

\* "The window closes once, and it never opens again" (builder.rs:159).
THEOREM WindowStaysClosed ==
  ASSUME ~Unwinds
  PROVE  Spec => WindowClosesOnce
<1>1. TypeOK /\ IInv /\ [Next]_vars
        => [handles # {} => /\ scanDone => scanDone'
                            /\ denyUntil' => denyUntil]_vars
  BY WordsMonotone
<1>2. QED
  BY <1>1, Invariance, TypeCorrect, PTL DEF Spec, WindowClosesOnce
=============================================================================

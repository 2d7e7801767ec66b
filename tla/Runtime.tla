------------------------------ MODULE Runtime -------------------------------
(***************************************************************************)
(* The process-wide runtime: the facade's process words and start protocol *)
(* (crates/fidelity/src/lib.rs, builder.rs), the handle that hosts call    *)
(* (handle.rs), and the engine's worker (crates/fidelity-engine/src/       *)
(* worker.rs).                                                             *)
(*                                                                         *)
(* A thread is a host thread or the one library-owned worker. A step is    *)
(* one access to a process word, or one critical section of the state lock *)
(* cut at its access to a process word, because ensure_allowed() reads     *)
(* those words without the lock. While the host callback runs the worker   *)
(* thread may make the same calls as a host.                               *)
(*                                                                         *)
(* A runtime is a heap object that handles keep alive. It is named by a    *)
(* member of Runtimes; a start that fails before any handle escaped frees  *)
(* its runtime, and the name is used again.                                *)
(***************************************************************************)
EXTENDS EngineState, Pending, FiniteSets

CONSTANTS
  Hosts,             \* host threads
  Worker,            \* the worker thread
  NoThread,          \* the owner of a free lock
  Runtimes,          \* names for runtime objects (bound: runtimes that coexist)
  Configs,           \* what a host may configure before start()
  CheapScan,         \* the detectors of scan_cheap, in order
  ExtraScan,         \* the detectors that scan_all runs after them
  HostReport,        \* the detector that report_ui_abuse records under
  Environments,      \* what the probes may answer: detector -> outcome
  HostObservations,  \* the findings that host_report makes of an observation
  Clock,             \* the readings of now_unix_ms() in this module
  Unwinds            \* may a panic escape the worker during initial actions?

Threads == Hosts \cup {Worker}
FullScan == CheapScan \o ExtraScan

\* Builder: the policy, whether on_finding() gave a callback, whether the
\* expected identity states a choice for this target (and the target is
\* supported), deny_until_first_full_scan() and require_complete_coverage().
Config == [policy : Policy, callback : BOOLEAN, target : BOOLEAN,
           denyUntil : BOOLEAN, required : CategorySet]

ASSUME RuntimeAssumption ==
  /\ Worker \notin Hosts
  /\ NoThread \notin Threads
  /\ Runtimes # {}
  /\ Configs # {} /\ Configs \subseteq Config
  /\ CheapScan \in Seq(Detectors)
  /\ ExtraScan \in Seq(Detectors)
  /\ HostReport \in Detectors
  /\ Environments \subseteq [Detectors -> Outcome]
  /\ \A answers \in Environments, d \in Detectors :
        IsFinding(answers[d]) => answers[d].finding.detector = d
  /\ HostObservations \subseteq Finding
  /\ \A finding \in HostObservations :
        finding.detector = HostReport /\ ~finding.health
  /\ \A i \in DOMAIN CheapScan : CheapScan[i] # HostReport
  /\ Clock \subseteq Nat
  /\ Unwinds \in BOOLEAN

VARIABLES
  running,     \* RUNNING: the process-wide slot
  latched,     \* LATCHED: the permanent denial word
  denyUntil,   \* DENY_UNTIL_FULL_SCAN
  scanDone,    \* FULL_SCAN_DONE
  waitDone,    \* the flag inside the FULL_SCAN_WAIT mutex
  runtime,     \* the runtime of the start that holds, or last held, the slot
  handles,     \* runtimes whose handle some host thread can use
  config,      \* configuration of each runtime
  eng,         \* engine state of each runtime (Runtime::state)
  lock,        \* owner of each runtime's state lock
  pending,     \* queue of each runtime (Runtime::pending)
  pc,          \* where each thread is
  call,        \* the locals of each thread's current call
  work,        \* the reports that the worker still has to dispatch
  phase,       \* which dispatch of Worker::run is under way
  ready,       \* the readiness message of the worker
  crashed      \* the process aborted

words == <<running, latched, denyUntil, scanDone, waitDone>>
objects == <<config, eng, lock, pending>>
worker == <<work, phase, ready>>
vars == <<words, runtime, handles, objects, pc, call, worker, crashed>>

\* A name that was never used, or whose runtime was freed, reads as these.
AnyRuntime == CHOOSE r \in Runtimes : TRUE
AnyConfig == CHOOSE c \in Configs : TRUE

NoCall == [runtime |-> AnyRuntime, then |-> "none", outcomes |-> <<>>,
           qualified |-> <<>>, category |-> {}]

Call == [runtime : Runtimes,
         then : {"none", "spawn", "enqueue", "dispatch"},
         outcomes : Seq(Observed), qualified : Seq(Report),
         category : CategorySet]

RollbackPc == {"abandon", "abandonLatch", "abandonWait", "release"}
StartPc == {"validate", "initialScan", "spawn", "await"} \cup RollbackPc
RecordPc == {"record", "recording", "latching"}
HandlePc == {"enqueue", "denying", "ensureDeny", "ensureScan", "waitLock",
             "waiting", "woken"}
WorkerPc == {"off", "dispatch", "callback", "health", "take", "scan", "mark",
             "stopped"}

\* Each variable holds values of its type, and the queue keeps its bound.
TypeOK ==
  /\ running \in BOOLEAN
  /\ latched \in CategorySet
  /\ denyUntil \in BOOLEAN
  /\ scanDone \in BOOLEAN
  /\ waitDone \in BOOLEAN
  /\ runtime \in Runtimes
  /\ handles \in SUBSET Runtimes
  /\ config \in [Runtimes -> Configs]
  /\ eng \in [Runtimes -> State]
  /\ lock \in [Runtimes -> Threads \cup {NoThread}]
  /\ pending \in [Runtimes -> Seq(Report)]
  /\ \A r \in Runtimes : Len(pending[r]) <= MOST_REPORTS
  /\ pc \in [Threads -> {"idle"} \cup StartPc \cup RecordPc \cup HandlePc
                           \cup WorkerPc]
  /\ call \in [Threads -> Call]
  /\ work \in Seq(Report)
  /\ phase \in {"initial", "pending", "scan"}
  /\ ready \in BOOLEAN
  /\ crashed \in BOOLEAN

Init ==
  /\ running = FALSE
  /\ latched = {}
  /\ denyUntil = FALSE
  /\ scanDone = FALSE
  /\ waitDone = FALSE
  /\ runtime = AnyRuntime
  /\ handles = {}
  /\ config = [r \in Runtimes |-> AnyConfig]
  /\ eng = [r \in Runtimes |-> NewState]
  /\ lock = [r \in Runtimes |-> NoThread]
  /\ pending = [r \in Runtimes |-> <<>>]
  /\ pc = [t \in Threads |-> IF t = Worker THEN "off" ELSE "idle"]
  /\ call = [t \in Threads |-> NoCall]
  /\ work = <<>>
  /\ phase = "initial"
  /\ ready = FALSE
  /\ crashed = FALSE

-----------------------------------------------------------------------------
(* Steps and calls.                                                        *)

Goto(t, label) == pc' = [pc EXCEPT ![t] = label]

\* Where a thread waits between two calls: a host is idle, and the worker is
\* inside the host callback.
Home(t) == IF t = Worker THEN "callback" ELSE "idle"

\* Thread t can call through a handle of runtime r. The callback receives a
\* handle of its own runtime.
CanCall(t, r) ==
  /\ pc[t] = Home(t)
  /\ IF t = Worker THEN r = runtime ELSE r \in handles

Return(t) ==
  /\ Goto(t, Home(t))
  /\ call' = [call EXCEPT ![t] = NoCall]

\* The FULL_SCAN_WAIT mutex is held across two accesses to process words only
\* while an abandoned start resets them.
WaitLockFree == \A h \in Hosts : pc[h] # "release"

ScanVector(detectors, answers) ==
  [i \in DOMAIN detectors |->
     [detector |-> detectors[i], outcome |-> answers[detectors[i]]]]

-----------------------------------------------------------------------------
(* Slips: actions of the sections below with one plausible mistake each.   *)
(* The specification does not use them. A run that checks a property with  *)
(* one of them in place must fail, so the property notices the mistake.    *)

\* The claim guard exists before the slot is won, so a refusal rolls back.
StartRefusedRollsBack(h) ==
  /\ pc[h] = "idle" /\ running
  /\ Goto(h, "abandon")
  /\ UNCHANGED <<words, runtime, handles, objects, call, worker, crashed>>

\* The startup window is configured before the slot is won.
StartRefusedConfigures(h) ==
  /\ pc[h] = "idle" /\ running
  /\ \E c \in Configs : denyUntil' = c.denyUntil
  /\ UNCHANGED <<running, latched, scanDone, waitDone, runtime, handles,
                 objects, pc, call, worker, crashed>>

\* Readiness is reported before the initial actions.
StartSpawnReadyEarly(h) ==
  /\ pc[h] = "spawn"
  /\ work' = call[h].qualified /\ phase' = "initial" /\ ready' = TRUE
  /\ pc' = [pc EXCEPT ![h] = "await", ![Worker] = "dispatch"]
  /\ call' = [call EXCEPT ![h] = NoCall]
  /\ UNCHANGED <<words, runtime, handles, objects, crashed>>

\* The caller keeps a sender of its own, so the channel never closes.
StartWorkerStoppedUnseen(h) == pc[h] = "gone"

\* The rollback leaves the startup window open.
AbandonDenyForgets(h) ==
  /\ pc[h] = "abandon"
  /\ Goto(h, "abandonLatch")
  /\ UNCHANGED <<words, runtime, handles, objects, call, worker, crashed>>

\* The rollback gives the slot back first.
AbandonDenyReleases(h) ==
  /\ pc[h] = "abandon"
  /\ denyUntil' = FALSE /\ running' = FALSE
  /\ Goto(h, "abandonLatch")
  /\ UNCHANGED <<latched, scanDone, waitDone, runtime, handles, objects, call,
                 worker, crashed>>

\* The rollback keeps the slot.
AbandonReleaseForgets(h) ==
  /\ pc[h] = "release"
  /\ Goto(h, "idle")
  /\ UNCHANGED <<words, runtime, handles, objects, call, worker, crashed>>

\* take() resets the length before it moves the entries out.
WorkerTakesStale ==
  /\ pc[Worker] = "take"
  /\ work' = <<>> /\ phase' = "pending"
  /\ pending' = [pending EXCEPT ![runtime] = <<>>]
  /\ Goto(Worker, "dispatch")
  /\ UNCHANGED <<words, runtime, handles, config, eng, lock, call, ready,
                 crashed>>

\* The worker copies the queue and leaves the entries in it.
WorkerTakesCopy ==
  /\ pc[Worker] = "take"
  /\ work' = pending[runtime] /\ phase' = "pending"
  /\ Goto(Worker, "dispatch")
  /\ UNCHANGED <<words, runtime, handles, objects, call, ready, crashed>>

\* Both flags are set, and nobody is notified.
WorkerMarksSilent ==
  /\ pc[Worker] = "mark"
  /\ WaitLockFree
  /\ waitDone' = TRUE /\ scanDone' = TRUE
  /\ Goto(Worker, "take")
  /\ UNCHANGED <<running, latched, denyUntil, runtime, handles, objects, call,
                 worker, crashed>>

-----------------------------------------------------------------------------
(* record(): one critical section of the state lock for all outcomes. It   *)
(* is cut where the denial word changes before the engine state does.      *)

RecordLock(t) ==
  /\ pc[t] = "record"
  /\ lock[call[t].runtime] = NoThread
  /\ lock' = [lock EXCEPT ![call[t].runtime] = t]
  /\ Goto(t, "recording")
  /\ UNCHANGED <<words, runtime, handles, config, eng, pending, call, worker,
                 crashed>>

\* The next outcome goes to its slot, and its finding, if it qualifies, to the
\* reports. For a Deny the denial word changes here, and the rest waits for
\* RecordLatch.
RecordOutcome(t) ==
  LET r == call[t].runtime
      observed == Head(call[t].outcomes)
      action == IF IsFinding(observed.outcome)
                THEN QualifyingAction(config[r].policy,
                                      observed.outcome.finding)
                ELSE {}
  IN  /\ pc[t] = "recording"
      /\ call[t].outcomes # <<>>
      /\ eng' = [eng EXCEPT ![r] =
                   StateRecord(@, observed.detector, observed.outcome)]
      /\ IF action = {"Deny"}
         THEN /\ latched' = latched \cup {CategoryOf[observed.detector]}
              /\ call' = [call EXCEPT
                            ![t].category = {CategoryOf[observed.detector]}]
              /\ Goto(t, "latching")
         ELSE /\ call' = [call EXCEPT
                  ![t].outcomes = Tail(@),
                  ![t].qualified = IF action = {} THEN @
                    ELSE Append(@, [finding |-> observed.outcome.finding,
                                    action |-> CHOOSE a \in action : TRUE])]
              /\ UNCHANGED <<latched, pc>>
      /\ UNCHANGED <<running, denyUntil, scanDone, waitDone, runtime, handles,
                     config, lock, pending, worker, crashed>>

\* The engine state follows the denial word under the same lock.
RecordLatch(t) ==
  LET r == call[t].runtime
  IN  /\ pc[t] = "latching"
      /\ \E category \in call[t].category :
           eng' = [eng EXCEPT ![r] = StateLatch(@, category)]
      /\ call' = [call EXCEPT
                    ![t].outcomes = Tail(@),
                    ![t].qualified = Append(@,
                       [finding |-> Head(call[t].outcomes).outcome.finding,
                        action |-> "Deny"]),
                    ![t].category = {}]
      /\ Goto(t, "recording")
      /\ UNCHANGED <<words, runtime, handles, config, lock, pending, worker,
                     crashed>>

\* The lock opens, and the caller goes on with the qualified reports: a start
\* spawns the worker, a host report queues them, the worker dispatches them.
RecordUnlock(t) ==
  /\ pc[t] = "recording"
  /\ call[t].outcomes = <<>>
  /\ lock' = [lock EXCEPT ![call[t].runtime] = NoThread]
  /\ Goto(t, call[t].then)
  /\ IF call[t].then = "dispatch"
     THEN /\ work' = call[t].qualified
          /\ phase' = "scan"
          /\ call' = [call EXCEPT ![t] = NoCall]
     ELSE UNCHANGED <<work, phase, call>>
  /\ UNCHANGED <<words, runtime, handles, config, eng, pending, ready,
                 crashed>>

-----------------------------------------------------------------------------
(* Builder::start.                                                         *)

FreeRuntimes == Runtimes \ handles

\* StartClaim::acquire wins the slot.
StartClaim(h) ==
  /\ pc[h] = "idle"
  /\ ~running
  /\ FreeRuntimes # {}
  /\ running' = TRUE
  /\ runtime' = CHOOSE r \in FreeRuntimes : TRUE
  /\ \E c \in Configs : config' = [config EXCEPT ![runtime'] = c]
  /\ Goto(h, "validate")
  /\ UNCHANGED <<latched, denyUntil, scanDone, waitDone, handles, eng, lock,
                 pending, call, worker, crashed>>

\* StartError::AlreadyRunning: a refused start touches nothing.
StartRefused(h) ==
  /\ pc[h] = "idle"
  /\ running
  /\ UNCHANGED vars

\* A start that fails drops its locals first. Without an escaped handle that
\* frees the runtime. Then the claim rolls back.
StartFails(h) ==
  /\ Goto(h, "abandon")
  /\ call' = [call EXCEPT ![h] = NoCall]
  /\ IF runtime \in handles
     THEN UNCHANGED <<config, eng, pending>>
     ELSE /\ config' = [config EXCEPT ![runtime] = AnyConfig]
          /\ eng' = [eng EXCEPT ![runtime] = NewState]
          /\ pending' = [pending EXCEPT ![runtime] = <<>>]
  /\ UNCHANGED <<running, latched, scanDone, waitDone, runtime, handles, lock,
                 crashed>>

\* MissingCallback, UnsupportedTarget, MissingExpectedIdentity.
ConfigError(c) == (NeedsCallback(c.policy) /\ ~c.callback) \/ ~c.target

StartValidate(h) ==
  /\ pc[h] = "validate"
  /\ IF ConfigError(config[runtime])
     THEN StartFails(h) /\ UNCHANGED <<denyUntil, worker>>
     ELSE /\ denyUntil' = config[runtime].denyUntil
          /\ Goto(h, "initialScan")
          /\ UNCHANGED <<running, latched, scanDone, waitDone, runtime,
                         handles, objects, call, worker, crashed>>

\* PlatformUnavailable, IdentityBindingUnavailable, or a panic of a probe
\* that StartClaim::drop rolls back while the stack unwinds.
StartBackendFails(h) ==
  /\ pc[h] = "initialScan"
  /\ StartFails(h)
  /\ UNCHANGED <<denyUntil, worker>>

\* A required category lacks coverage when it has no detector, or when one of
\* its detectors supplied none or is absent from the initial outcomes.
MissingCoverage(required, outcomes) ==
  {category \in required :
     LET owners == {d \in Detectors : CategoryOf[d] = category}
     IN  \/ owners = {}
         \/ \E d \in owners :
              ~\E i \in DOMAIN outcomes :
                 /\ outcomes[i].detector = d
                 /\ SuppliesCoverage(outcomes[i].outcome)}

\* The captures and the cheap scan, then the coverage requirement, then a
\* fresh state and queue.
StartScan(h) ==
  /\ pc[h] = "initialScan"
  /\ \E answers \in Environments :
       LET outcomes == ScanVector(CheapScan, answers)
       IN  IF MissingCoverage(config[runtime].required, outcomes) # {}
           THEN StartFails(h)
           ELSE /\ eng' = [eng EXCEPT ![runtime] = NewState]
                /\ pending' = [pending EXCEPT ![runtime] = <<>>]
                /\ call' = [call EXCEPT ![h] =
                              [NoCall EXCEPT !.runtime = runtime,
                                             !.then = "spawn",
                                             !.outcomes = outcomes]]
                /\ Goto(h, "record")
                /\ UNCHANGED <<running, latched, scanDone, waitDone, runtime,
                               handles, config, lock, crashed>>
  /\ UNCHANGED <<denyUntil, worker>>

\* The worker starts with the initial reports, and the caller waits.
StartSpawn(h) ==
  /\ pc[h] = "spawn"
  /\ work' = call[h].qualified
  /\ phase' = "initial"
  /\ ready' = FALSE
  /\ pc' = [pc EXCEPT ![h] = "await", ![Worker] = "dispatch"]
  /\ call' = [call EXCEPT ![h] = NoCall]
  /\ UNCHANGED <<words, runtime, handles, objects, crashed>>

\* WorkerUnavailable.
StartSpawnFails(h) ==
  /\ pc[h] = "spawn"
  /\ StartFails(h)
  /\ UNCHANGED <<denyUntil, worker>>

\* The readiness message arrives: commit, and the host has its handle.
StartReturns(h) ==
  /\ pc[h] = "await"
  /\ ready
  /\ handles' = handles \cup {runtime}
  /\ Goto(h, "idle")
  /\ UNCHANGED <<words, runtime, objects, call, worker, crashed>>

\* WorkerStoppedDuringStart: the channel closed without a message.
StartWorkerStopped(h) ==
  /\ pc[h] = "await"
  /\ pc[Worker] = "stopped"
  /\ StartFails(h)
  /\ UNCHANGED <<denyUntil, worker>>

\* abandon_start(), one process word after another; the slot changes last.
AbandonDeny(h) ==
  /\ pc[h] = "abandon"
  /\ denyUntil' = FALSE
  /\ Goto(h, "abandonLatch")
  /\ UNCHANGED <<running, latched, scanDone, waitDone, runtime, handles,
                 objects, call, worker, crashed>>

AbandonLatch(h) ==
  /\ pc[h] = "abandonLatch"
  /\ latched' = {}
  /\ Goto(h, "abandonWait")
  /\ UNCHANGED <<running, denyUntil, scanDone, waitDone, runtime, handles,
                 objects, call, worker, crashed>>

AbandonWait(h) ==
  /\ pc[h] = "abandonWait"
  /\ waitDone' = FALSE
  /\ scanDone' = FALSE
  /\ Goto(h, "release")
  /\ UNCHANGED <<running, latched, denyUntil, runtime, handles, objects, call,
                 worker, crashed>>

AbandonRelease(h) ==
  /\ pc[h] = "release"
  /\ running' = FALSE
  /\ Goto(h, "idle")
  /\ UNCHANGED <<latched, denyUntil, scanDone, waitDone, runtime, handles,
                 objects, call, worker, crashed>>

StartStep(h) ==
  \/ StartValidate(h) \/ StartBackendFails(h) \/ StartScan(h)
  \/ StartSpawn(h) \/ StartSpawnFails(h)
  \/ StartReturns(h) \/ StartWorkerStopped(h)
  \/ AbandonDeny(h) \/ AbandonLatch(h) \/ AbandonWait(h) \/ AbandonRelease(h)

-----------------------------------------------------------------------------
(* Worker::run.                                                            *)

\* Report and Deny are done before dispatch, and so is a Callback without a
\* callback.
DispatchNothing ==
  /\ pc[Worker] = "dispatch"
  /\ work # <<>>
  /\ \/ Head(work).action \in {"Report", "Deny"}
     \/ Head(work).action = "Callback" /\ ~config[runtime].callback
  /\ work' = Tail(work)
  /\ UNCHANGED <<words, runtime, handles, objects, pc, call, phase, ready,
                 crashed>>

DispatchCallback ==
  /\ pc[Worker] = "dispatch"
  /\ work # <<>>
  /\ Head(work).action = "Callback" /\ config[runtime].callback
  /\ Goto(Worker, "callback")
  /\ UNCHANGED <<words, runtime, handles, objects, call, worker, crashed>>

\* process::abort(): nothing runs afterwards.
DispatchCrash ==
  /\ pc[Worker] = "dispatch"
  /\ work # <<>>
  /\ Head(work).action = "Crash"
  /\ crashed' = TRUE
  /\ UNCHANGED <<words, runtime, handles, objects, pc, call, worker>>

CallbackReturns ==
  /\ pc[Worker] = "callback"
  /\ work' = Tail(work)
  /\ Goto(Worker, "dispatch")
  /\ UNCHANGED <<words, runtime, handles, objects, call, phase, ready,
                 crashed>>

\* The callback gives a clone of its handle to other host threads.
CallbackShares ==
  /\ pc[Worker] = "callback"
  /\ handles' = handles \cup {runtime}
  /\ UNCHANGED <<words, runtime, objects, pc, call, worker, crashed>>

CallbackPanics ==
  /\ pc[Worker] = "callback"
  /\ Goto(Worker, "health")
  /\ UNCHANGED <<words, runtime, handles, objects, call, worker, crashed>>

\* invoke() catches the panic and records a Low health finding in the slot of
\* the finding's detector, past the policy.
RecordHealth ==
  LET detector == Head(work).finding.detector
  IN  /\ pc[Worker] = "health"
      /\ lock[runtime] = NoThread
      /\ \E now \in Clock :
           eng' = [eng EXCEPT ![runtime] = StateRecord(@, detector,
                     Found([detector |-> detector, strength |-> Low,
                            health |-> TRUE, at |-> now]))]
      /\ work' = Tail(work)
      /\ Goto(Worker, "dispatch")
      /\ UNCHANGED <<words, runtime, handles, config, lock, pending, call,
                     phase, ready, crashed>>

\* A second panic, in the drop of the first one's payload or in a diagnostic
\* subscriber, is caught by nothing and ends the thread.
WorkerUnwinds ==
  /\ Unwinds
  /\ pc[Worker] = "callback"
  /\ phase = "initial"
  /\ Goto(Worker, "stopped")
  /\ work' = <<>>
  /\ UNCHANGED <<words, runtime, handles, objects, call, phase, ready,
                 crashed>>

\* The end of one dispatch: readiness after the initial actions, a full scan
\* after the queued reports, the coverage flag after a scan.
DispatchDone ==
  /\ pc[Worker] = "dispatch"
  /\ work = <<>>
  /\ ready' = (ready \/ phase = "initial")
  /\ Goto(Worker, CASE phase = "initial" -> "take"
                    [] phase = "pending" -> "scan"
                    [] phase = "scan" -> "mark")
  /\ UNCHANGED <<words, runtime, handles, objects, call, work, phase, crashed>>

\* The top of the loop. The jittered sleep between two cycles has no state.
WorkerTakes ==
  /\ pc[Worker] = "take"
  /\ work' = pending[runtime]
  /\ pending' = [pending EXCEPT ![runtime] = <<>>]
  /\ phase' = "pending"
  /\ Goto(Worker, "dispatch")
  /\ UNCHANGED <<words, runtime, handles, config, eng, lock, call, ready,
                 crashed>>

WorkerScans ==
  /\ pc[Worker] = "scan"
  /\ \E answers \in Environments :
       call' = [call EXCEPT ![Worker] =
                  [NoCall EXCEPT !.runtime = runtime, !.then = "dispatch",
                                 !.outcomes = ScanVector(FullScan, answers)]]
  /\ Goto(Worker, "record")
  /\ UNCHANGED <<words, runtime, handles, objects, worker, crashed>>

\* mark_full_scan_complete(): both flags under the mutex, then notify_all.
WorkerMarks ==
  /\ pc[Worker] = "mark"
  /\ WaitLockFree
  /\ waitDone' = TRUE
  /\ scanDone' = TRUE
  /\ pc' = [t \in Threads |->
              IF t = Worker THEN "take"
              ELSE IF pc[t] = "waiting" THEN "woken" ELSE pc[t]]
  /\ UNCHANGED <<running, latched, denyUntil, runtime, handles, objects, call,
                 worker, crashed>>

WorkerStep ==
  \/ DispatchNothing \/ DispatchCallback \/ DispatchCrash \/ DispatchDone
  \/ CallbackReturns \/ CallbackShares \/ CallbackPanics \/ RecordHealth
  \/ WorkerUnwinds \/ WorkerTakes \/ WorkerScans \/ WorkerMarks

-----------------------------------------------------------------------------
(* Handle. snapshot() reads eng[r] while the lock is free, and             *)
(* first_full_scan_complete() reads scanDone; neither changes anything.    *)

\* ensure_allowed() reads three words, one after another.
EnsureLatched(t, r) ==
  /\ CanCall(t, r)
  /\ latched = {}                  \* otherwise Denied::latched at once
  /\ Goto(t, "ensureDeny")
  /\ UNCHANGED <<words, runtime, handles, objects, call, worker, crashed>>

EnsureDenyUntil(t) ==
  /\ pc[t] = "ensureDeny"
  /\ Goto(t, IF denyUntil THEN "ensureScan" ELSE Home(t))
  /\ UNCHANGED <<words, runtime, handles, objects, call, worker, crashed>>

\* Ok when the scan is done, Denied::incomplete_coverage otherwise.
EnsureScanDone(t) ==
  /\ pc[t] = "ensureScan"
  /\ Goto(t, Home(t))
  /\ UNCHANGED <<words, runtime, handles, objects, call, worker, crashed>>

\* deny(): the word, then the engine state, under the state lock.
DenyWord(t, r, category) ==
  /\ CanCall(t, r)
  /\ lock[r] = NoThread
  /\ lock' = [lock EXCEPT ![r] = t]
  /\ latched' = latched \cup {category}
  /\ call' = [call EXCEPT ![t] = [NoCall EXCEPT !.runtime = r,
                                                !.category = {category}]]
  /\ Goto(t, "denying")
  /\ UNCHANGED <<running, denyUntil, scanDone, waitDone, runtime, handles,
                 config, eng, pending, worker, crashed>>

DenyState(t) ==
  LET r == call[t].runtime
  IN  /\ pc[t] = "denying"
      /\ \E category \in call[t].category :
           eng' = [eng EXCEPT ![r] = StateLatchByHost(@, category)]
      /\ lock' = [lock EXCEPT ![r] = NoThread]
      /\ Return(t)
      /\ UNCHANGED <<words, runtime, handles, config, pending, worker,
                     crashed>>

\* report_ui_abuse(): record at once, then queue what qualified.
ReportUiAbuse(t, r) ==
  /\ CanCall(t, r)
  /\ \E finding \in HostObservations :
       call' = [call EXCEPT ![t] =
                  [NoCall EXCEPT !.runtime = r, !.then = "enqueue",
                     !.outcomes = <<[detector |-> HostReport,
                                     outcome |-> Found(finding)]>>]]
  /\ Goto(t, "record")
  /\ UNCHANGED <<words, runtime, handles, objects, worker, crashed>>

ReportQueue(t) ==
  LET r == call[t].runtime
  IN  /\ pc[t] = "enqueue"
      /\ pending' = [pending EXCEPT ![r] = PendingAdd(@, call[t].qualified)]
      /\ Return(t)
      /\ UNCHANGED <<words, runtime, handles, config, eng, lock, worker,
                     crashed>>

\* wait_for_first_full_scan(): a lock-free read first, and then the mutex.
WaitCall(t, r) ==
  /\ CanCall(t, r)
  /\ ~scanDone                     \* otherwise TRUE at once
  /\ Goto(t, "waitLock")
  /\ UNCHANGED <<words, runtime, handles, objects, call, worker, crashed>>

\* wait_timeout_while: return when the flag is set, sleep otherwise.
WaitCheck(t) ==
  /\ pc[t] \in {"waitLock", "woken"}
  /\ WaitLockFree
  /\ Goto(t, IF waitDone THEN Home(t) ELSE "waiting")
  /\ UNCHANGED <<words, runtime, handles, objects, call, worker, crashed>>

\* The time expires, and the call returns the flag as it is.
WaitExpires(t) ==
  /\ pc[t] \in {"waiting", "woken"}
  /\ WaitLockFree
  /\ Goto(t, Home(t))
  /\ UNCHANGED <<words, runtime, handles, objects, call, worker, crashed>>

HandleCall(t) ==
  \E r \in Runtimes :
    \/ EnsureLatched(t, r)
    \/ \E category \in Categories : DenyWord(t, r, category)
    \/ ReportUiAbuse(t, r)
    \/ WaitCall(t, r)

HandleStep(t) ==
  \/ EnsureDenyUntil(t) \/ EnsureScanDone(t) \/ DenyState(t) \/ ReportQueue(t)
  \/ WaitCheck(t) \/ WaitExpires(t)

RecordStep(t) ==
  RecordLock(t) \/ RecordOutcome(t) \/ RecordLatch(t) \/ RecordUnlock(t)

\* A crashed process takes no step.
Aborted == crashed /\ UNCHANGED vars

Next ==
  \/ /\ ~crashed
     /\ \/ \E h \in Hosts : StartClaim(h) \/ StartRefused(h) \/ StartStep(h)
        \/ WorkerStep
        \/ \E t \in Threads : HandleCall(t) \/ HandleStep(t) \/ RecordStep(t)
  \/ Aborted

Spec == Init /\ [][Next]_vars
-----------------------------------------------------------------------------
(* Fairness. The system schedules every runnable thread, the host callback *)
(* returns or panics, and a thread that wants a lock that keeps becoming   *)
(* free gets it in the end. No call of a host, no expiry of a wait and no  *)
(* sharing of a handle has to happen.                                      *)

WorkerProgress ==
  \/ DispatchNothing \/ DispatchCallback \/ DispatchCrash \/ DispatchDone
  \/ WorkerTakes \/ WorkerScans \/ WorkerMarks

ThreadProgress(t) ==
  \/ RecordOutcome(t) \/ RecordLatch(t) \/ RecordUnlock(t)
  \/ EnsureDenyUntil(t) \/ EnsureScanDone(t) \/ DenyState(t) \/ ReportQueue(t)
  \/ WaitCheck(t)

Running(A) == ~crashed /\ A

Fairness ==
  /\ WF_vars(Running(WorkerProgress))
  /\ SF_vars(Running(CallbackReturns \/ CallbackPanics))
  /\ SF_vars(Running(RecordHealth))
  /\ WF_vars(Running(WaitExpires(Worker)))
  /\ \A h \in Hosts : WF_vars(Running(StartStep(h)))
  /\ \A t \in Threads : /\ WF_vars(Running(ThreadProgress(t)))
                        /\ SF_vars(Running(RecordLock(t)))

FairSpec == Spec /\ Fairness

-----------------------------------------------------------------------------
(* Safety.                                                                 *)

Starting(h) ==
  pc[h] \in StartPc \/ (pc[h] \in RecordPc /\ call[h].then = "spawn")

\* "The two never disagree" (lib.rs:150-154, worker.rs:71-73): whenever a
\* snapshot of a runtime that a host can reach may be taken, its latched set
\* is the word that ensure_allowed() reads. A denial is always explained, and
\* a latch that a snapshot shows always denies.
LatchesAgree ==
  \A r \in handles : lock[r] = NoThread => eng[r].latched = latched

\* "The slot changes last" (lib.rs:206-208): whoever finds the slot free finds
\* every process word as the first start of the process found it.
CleanSlot ==
  ~running => latched = {} /\ ~denyUntil /\ ~scanDone /\ ~waitDone

\* Two concurrent starts never both proceed (builder.rs:217-219): at most one
\* thread is inside start(), and it owns the slot until its rollback ends.
OneStart ==
  /\ \A g, h \in Hosts : Starting(g) /\ Starting(h) => g = h
  /\ \A h \in Hosts : Starting(h) => running

\* One runtime per process: a handle exists only while its runtime holds the
\* slot, and the one start that may run beside it is its own, which waits for
\* the initial callback that shared the handle.
OneRuntime ==
  handles # {} => /\ running
                  /\ handles = {runtime}
                  /\ \A h \in Hosts : Starting(h) => pc[h] = "await"

\* Concurrent, failed and retried starts keep the process to one start and one
\* runtime at a time, and leave a free slot as they found it (lib.rs:172-219).
SlotIsSafe == CleanSlot /\ OneStart /\ OneRuntime

Entry(r, d) == config[r].policy[CategoryOf[d]]

\* Detector d of runtime r holds a finding that reaches its threshold.
Qualifies(r, d) ==
  \E finding \in eng[r].slots[d].strongest :
    Reaches(finding.strength, Entry(r, d).threshold)

\* A snapshot explains every denial (state.rs:112-116): a latched category was
\* denied by the host, or a detector of it still shows the finding that
\* reached the Deny threshold, whatever the later scans reported.
LatchExplained ==
  \A r \in handles : lock[r] = NoThread =>
    \A category \in eng[r].latched :
      \/ category \in eng[r].hostLatched
      \/ \E d \in Detectors : /\ CategoryOf[d] = category
                              /\ Entry(r, d).action = "Deny"
                              /\ Qualifies(r, d)

\* No qualifying finding of a Deny category is kept in a snapshot without its
\* latch (worker.rs:64-69).
DenyTakesEffect ==
  \A r \in handles : lock[r] = NoThread =>
    \A d \in Detectors :
      Entry(r, d).action = "Deny" /\ Qualifies(r, d)
        => CategoryOf[d] \in latched

\* A finding about the environment that reached a Crash threshold.
CrashDue(r, d) ==
  /\ Entry(r, d).action = "Crash"
  /\ \E finding \in eng[r].slots[d].strongest :
       /\ Reaches(finding.strength, Entry(r, d).threshold)
       /\ ~finding.health

Holds(reports, d) ==
  \E i \in DOMAIN reports :
    reports[i].action = "Crash" /\ reports[i].finding.detector = d

\* A Crash is never lost between the slot that shows its finding and the
\* abort: not in a full queue, not behind a callback, not in a failed start
\* (worker.rs:266-287, pending.rs:72-84).
CrashNeverLost ==
  \A r \in handles, d \in Detectors :
    CrashDue(r, d) =>
      \/ crashed
      \/ Holds(work, d)
      \/ Holds(pending[r], d)
      \/ \E t \in Threads : Holds(call[t].qualified, d)

\* "A Crash stops the process, so start() does not return" (ADR-0009): once
\* start() returned, no detector of the initial scan shows a due Crash until
\* the first full scan records one.
InitialCrashStopsStart ==
  ~crashed /\ handles # {} /\ (\A h \in Hosts : ~Starting(h))
    /\ phase # "scan" /\ ~scanDone /\ pc[Worker] \notin RecordPc
    => \A i \in DOMAIN CheapScan : ~CrashDue(runtime, CheapScan[i])

-----------------------------------------------------------------------------
(* What a step may never do.                                               *)

\* "It is permanent, it is process-wide, and nothing clears it"
\* (handle.rs:106): while a host can reach a runtime no step removes a
\* category from the denial word.
LatchPermanent == [][handles # {} => latched \subseteq latched']_vars

\* "The window closes once, and it never opens again" (builder.rs:159): once a
\* host can see the first full scan complete, no step takes that back or turns
\* the startup denial on.
WindowClosesOnce ==
  [][handles # {} => /\ scanDone => scanDone'
                     /\ denyUntil' => denyUntil]_vars

-----------------------------------------------------------------------------
(* Liveness, under FairSpec.                                               *)

\* Every start() that claims the slot ends, or the process does.
StartEnds == \A h \in Hosts : Starting(h) ~> (~Starting(h) \/ crashed)

\* "A failed start releases the slot, so a corrected retry can succeed"
\* (builder.rs:214-215).
SlotReturned == \A h \in Hosts : pc[h] \in RollbackPc ~> ~running

\* Every start comes to an end, with a runtime or with the slot free again, even
\* when the worker it waits for is gone (builder.rs:214-219, 345-350).
StartsSettle == StartEnds /\ SlotReturned

\* The worker of r runs. One that ended before readiness serves nobody, and a
\* handle that its initial callback gave away is left without a worker.
Served(r) == r = runtime /\ pc[Worker] \notin {"off", "stopped"}

\* notify_all reaches every waiter: a host that waits for the first full scan
\* without a time limit is released (lib.rs:225-248).
WaitersReleased ==
  \A h \in Hosts :
    pc[h] = "waiting" ~> \/ pc[h] # "waiting"
                         \/ crashed
                         \/ ~Served(runtime)

\* The worker takes every queued report (worker.rs:214-217).
ReportsTaken ==
  \A r \in Runtimes :
    pending[r] # <<>> ~> (pending[r] = <<>> \/ crashed \/ ~Served(r))

\* A due Crash stops the process (worker.rs:266-287), behind callbacks and
\* scans.
CrashHappens ==
  \A r \in Runtimes, d \in Detectors :
    (r \in handles /\ CrashDue(r, d)) ~> (crashed \/ ~Served(r))
=============================================================================

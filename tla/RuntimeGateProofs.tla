-------------------------- MODULE RuntimeGateProofs --------------------------
(***************************************************************************)
(* Runtime implements StartGate, for any hosts, detectors, policies and    *)
(* probe answers, when no panic escapes the worker: every step of a thread *)
(* is a step of the gate or leaves the gate as it is.                      *)
(***************************************************************************)
EXTENDS RuntimeSafety, RuntimeGate

(***************************************************************************)
(* What the gate shows of a state.                                         *)
(***************************************************************************)

Someone == \E h \in Hosts : Starting(h)

\* The slot that a state shows, by cases.
SlotView ==
  /\ crashed => SlotOf = "down"
  /\ ~crashed /\ RollingBack => SlotOf = "failing"
  /\ ~crashed /\ ~RollingBack /\ ~running => SlotOf = "free"
  /\ ~crashed /\ ~RollingBack /\ running /\ Someone => SlotOf = "starting"
  /\ ~crashed /\ ~RollingBack /\ running /\ ~Someone => SlotOf = "live"

\* The slot is in one of its five states, before and after a step
\* (lib.rs:142-219).
LEMMA SlotViews == SlotView /\ SlotView'
<1>1. SlotView
  BY DEF SlotView, SlotOf, Someone
<1>2. SlotView'
  BY DEF SlotView, SlotOf, Someone
<1>3. QED
  BY <1>1, <1>2

\* A step that changes no process word, starts no start, ends none and begins
\* no rollback is invisible to the gate.
LEMMA GateBlind ==
  ASSUME UNCHANGED <<running, latched, denyUntil, scanDone, crashed>>,
         \A h \in Hosts : /\ Starting(h)' <=> Starting(h)
                          /\ pc'[h] \in RollbackPc <=> pc[h] \in RollbackPc
  PROVE  UNCHANGED Gate!gate
<1>1. RollingBack' <=> RollingBack
  BY DEF RollingBack
<1>2. Someone' <=> Someone
  BY DEF Someone
<1>3. SlotOf' = SlotOf
  BY <1>1, <1>2, SlotViews DEF SlotView
<1>4. QED
  BY <1>1, <1>3 DEF Gate!gate

(***************************************************************************)
(* Builder::start.                                                         *)
(***************************************************************************)

\* A start before its wait is the only one that the gate can see
\* (builder.rs:230-329).
LEMMA StarterSeen ==
  ASSUME TypeOK, CallShape, SafeInv, NEW h \in Hosts, Starting(h),
         pc[h] # "await"
  PROVE  /\ running /\ Someone /\ ~scanDone
         /\ RollingBack <=> pc[h] \in RollbackPc
         /\ \A g \in Hosts : g # h => pc[g] = "idle"
<1>1. running /\ \A g \in Hosts : g # h => pc[g] = "idle"
  BY StarterAlone
<1>2. ~scanDone
  BY DEF SafeInv, CoverageInv
<1>3. QED
  BY <1>1, <1>2 DEF Someone, RollingBack, RollbackPc

\* A start that fails before its wait is one step of the gate, which takes
\* back its denials and the startup window at once (builder.rs:32-43).
LEMMA FailsSeen ==
  ASSUME TypeOK, CallShape, SafeInv, ~crashed, NEW h \in Hosts, StartFails(h),
         pc[h] \in {"validate", "initialScan", "spawn"}
  PROVE  Gate!GateFails
<1> USE DEF StartPc, RollbackPc
<1>1. Starting(h) /\ pc[h] # "await"
  BY DEF Starting
<1>2. running /\ Someone /\ ~scanDone /\ ~RollingBack
  BY <1>1, StarterSeen
<1>3. pc'[h] = "abandon" /\ UNCHANGED <<running, scanDone, crashed>>
  BY DEF StartFails, Goto, TypeOK, Threads
<1>4. RollingBack'
  BY <1>3 DEF RollingBack
<1>5. SlotOf = "starting" /\ SlotOf' = "failing"
  BY <1>2, <1>3, <1>4, SlotViews DEF SlotView
<1>6. QED
  BY <1>2, <1>3, <1>4, <1>5 DEF Gate!GateFails

\* A step between two places of a start before its wait, or to the wait, that
\* keeps the words.
LEMMA StarterUnseen ==
  ASSUME TypeOK, CallShape, SafeInv, NEW h \in Hosts, Starting(h),
         pc[h] # "await", Starting(h)',
         \A g \in Hosts : g # h => pc'[g] = pc[g],
         pc[h] \notin RollbackPc /\ pc'[h] \notin RollbackPc,
         UNCHANGED <<running, latched, denyUntil, scanDone, crashed>>
  PROVE  UNCHANGED Gate!gate
<1>1. \A g \in Hosts : g # h => pc[g] = "idle"
  BY StarterSeen
<1>2. \A g \in Hosts : g # h => ~Starting(g) /\ ~Starting(g)'
  BY <1>1 DEF Starting, StartPc, RollbackPc, RecordPc
<1>3. QED
  BY <1>2, GateBlind

\* Builder::start and its rollback are steps of the gate (builder.rs:216-349,
\* lib.rs:172-219).
LEMMA StartStepSeen ==
  ASSUME TypeInv, SafeInv, ~crashed, NEW h \in Hosts,
         StartClaim(h) \/ StartRefused(h) \/ StartStep(h)
  PROVE  Gate!GateNext \/ UNCHANGED Gate!gate
<1> USE DEF StartPc, RollbackPc, RecordPc, words, objects, worker, Goto
<1>a. Hosts \subseteq Threads /\ Worker \in Threads /\ Worker \notin Hosts
  BY RuntimeAssumption DEF Threads
<1>b. TypeOK /\ CallShape
  BY DEF TypeInv
<1>1. CASE StartClaim(h)
  <2>1. /\ pc[h] = "idle" /\ ~running /\ running' /\ pc'[h] = "validate"
        /\ \A g \in Hosts : g # h => pc'[g] = pc[g]
        /\ UNCHANGED <<latched, denyUntil, scanDone, call, crashed>>
    BY <1>a, <1>b, <1>1 DEF StartClaim, TypeOK
  <2>2. \A g \in Hosts : ~Starting(g)
    BY <2>1 DEF SafeInv, SlotInv, OneStart
  <2>3. ~RollingBack /\ ~RollingBack' /\ Someone'
    BY <2>1, <2>2 DEF RollingBack, Someone, Starting
  <2>4. SlotOf = "free" /\ SlotOf' = "starting"
    BY <2>1, <2>3, SlotViews DEF SlotView
  <2>5. Gate!GateClaim
    BY <2>1, <2>3, <2>4 DEF Gate!GateClaim
  <2>6. QED
    BY <2>5 DEF Gate!GateNext
<1>2. CASE StartRefused(h)
  <2>1. UNCHANGED <<running, latched, denyUntil, scanDone, crashed, pc, call>>
    BY <1>2 DEF StartRefused, vars
  <2>2. QED
    BY <2>1, GateBlind DEF Starting
<1>3. CASE StartFails(h) /\ pc[h] \in {"validate", "initialScan", "spawn"}
  BY <1>b, <1>3, FailsSeen DEF Gate!GateNext
<1>4. CASE StartValidate(h) /\ ~StartFails(h)
  <2>1. /\ pc[h] = "validate" /\ pc'[h] = "initialScan"
        /\ \A g \in Hosts : g # h => pc'[g] = pc[g]
        /\ denyUntil' = config[runtime].denyUntil
        /\ UNCHANGED <<running, latched, scanDone, crashed>>
    BY <1>a, <1>b, <1>4 DEF StartValidate, TypeOK
  <2>2. Starting(h) /\ Starting(h)'
    BY <2>1 DEF Starting
  <2>3. /\ running /\ Someone /\ ~scanDone /\ ~RollingBack
        /\ \A g \in Hosts : g # h => pc[g] = "idle"
    BY <1>b, <2>1, <2>2, StarterSeen
  <2>4. latched = {} /\ ~denyUntil
    BY <2>1 DEF SafeInv, WordInv, BarePc, CoverageInv
  <2>5. CASE denyUntil'
    <3>1. ~RollingBack' /\ Someone'
      BY <2>1, <2>2, <2>3 DEF RollingBack, Someone
    <3>2. SlotOf = "starting" /\ SlotOf' = "starting"
      BY <2>1, <2>3, <3>1, SlotViews DEF SlotView
    <3>3. Gate!GateArm
      BY <2>1, <2>3, <2>4, <2>5, <3>1, <3>2 DEF Gate!GateArm
    <3>4. QED
      BY <3>3 DEF Gate!GateNext
  <2>6. CASE ~denyUntil'
    <3>1. config[runtime].denyUntil \in BOOLEAN /\ denyUntil \in BOOLEAN
      BY <1>b, RuntimeAssumption DEF TypeOK, Config
    <3>2. denyUntil' = denyUntil
      BY <2>1, <2>4, <2>6, <3>1
    <3>3. QED
      BY <1>b, <2>1, <2>2, <3>2, StarterUnseen
  <2>7. QED
    BY <2>5, <2>6
<1>5. CASE StartScan(h) /\ ~StartFails(h)
  <2>1. PICK outcomes :
          /\ call' = [call EXCEPT ![h] =
                        [NoCall EXCEPT !.runtime = runtime, !.then = "spawn",
                                       !.outcomes = outcomes]]
          /\ pc' = [pc EXCEPT ![h] = "record"]
          /\ UNCHANGED <<running, latched, denyUntil, scanDone, crashed>>
    BY <1>5 DEF StartScan
  <2>2. /\ pc[h] = "initialScan" /\ pc'[h] = "record"
        /\ call'[h].then = "spawn"
        /\ \A g \in Hosts : g # h => pc'[g] = pc[g]
    BY <1>a, <1>b, <1>5, <2>1 DEF StartScan, TypeOK, NoCall
  <2>3. Starting(h) /\ Starting(h)'
    BY <2>2 DEF Starting
  <2>4. QED
    BY <1>b, <2>1, <2>2, <2>3, StarterUnseen
<1>6. CASE StartSpawn(h)
  <2>1. /\ pc[h] = "spawn" /\ pc'[h] = "await"
        /\ \A g \in Hosts : g # h => pc'[g] = pc[g]
        /\ UNCHANGED <<running, latched, denyUntil, scanDone, crashed>>
    BY <1>a, <1>b, <1>6 DEF StartSpawn, TypeOK
  <2>2. Starting(h) /\ Starting(h)'
    BY <2>1 DEF Starting
  <2>3. QED
    BY <1>b, <2>1, <2>2, StarterUnseen
<1>7. CASE StartReturns(h)
  <2>1. /\ pc[h] = "await" /\ pc'[h] = "idle"
        /\ \A g \in Hosts : g # h => pc'[g] = pc[g]
        /\ UNCHANGED <<running, latched, denyUntil, scanDone, call, crashed>>
    BY <1>a, <1>b, <1>7 DEF StartReturns, TypeOK
  <2>2. Starting(h)
    BY <2>1 DEF Starting
  <2>3. running /\ \A g \in Hosts : Starting(g) => g = h
    BY <2>2 DEF SafeInv, SlotInv, OneStart
  <2>4. ~RollingBack /\ ~RollingBack' /\ Someone /\ ~Someone'
    BY <2>1, <2>2, <2>3 DEF RollingBack, Someone, Starting
  <2>5. SlotOf = "starting" /\ SlotOf' = "live"
    BY <2>1, <2>3, <2>4, SlotViews DEF SlotView
  <2>6. Gate!GateOpens
    BY <2>1, <2>4, <2>5 DEF Gate!GateOpens
  <2>7. QED
    BY <2>6 DEF Gate!GateNext
<1>8. CASE StartWorkerStopped(h)
  BY <1>8 DEF StartWorkerStopped, SafeInv, ThreadInv
<1>9. CASE AbandonDeny(h) \/ AbandonLatch(h) \/ AbandonWait(h)
  <2>1. /\ pc[h] \in RollbackPc /\ pc'[h] \in RollbackPc
        /\ \A g \in Hosts : g # h => pc'[g] = pc[g]
        /\ UNCHANGED <<running, crashed>>
    BY <1>a, <1>b, <1>9 DEF AbandonDeny, AbandonLatch, AbandonWait, TypeOK
  <2>2. RollingBack /\ RollingBack'
    BY <2>1 DEF RollingBack
  <2>3. SlotOf = "failing" /\ SlotOf' = "failing"
    BY <2>1, <2>2, SlotViews DEF SlotView
  <2>4. QED
    BY <2>2, <2>3 DEF Gate!gate
<1>10. CASE AbandonRelease(h)
  <2>1. /\ pc[h] = "release" /\ pc'[h] = "idle" /\ ~running'
        /\ \A g \in Hosts : g # h => pc'[g] = pc[g]
        /\ UNCHANGED <<latched, denyUntil, scanDone, crashed>>
    BY <1>a, <1>b, <1>10 DEF AbandonRelease, TypeOK
  <2>2. Starting(h)
    BY <2>1 DEF Starting
  <2>3. RollingBack /\ \A g \in Hosts : g # h => pc[g] = "idle"
    BY <1>b, <2>1, <2>2, StarterSeen
  <2>4. ~RollingBack'
    BY <2>1, <2>3 DEF RollingBack
  <2>5. latched = {} /\ ~denyUntil /\ ~scanDone
    BY <2>1, <2>2 DEF SafeInv, WordInv, BarePc, CoverageInv
  <2>6. SlotOf = "failing" /\ SlotOf' = "free"
    BY <2>1, <2>3, <2>4, SlotViews DEF SlotView
  <2>7. Gate!GateReleased
    BY <2>1, <2>3, <2>4, <2>5, <2>6 DEF Gate!GateReleased
  <2>8. QED
    BY <2>7 DEF Gate!GateNext
<1>11. QED
  BY <1>1, <1>2, <1>3, <1>4, <1>5, <1>6, <1>7, <1>8, <1>9, <1>10
  DEF StartStep, StartValidate, StartScan, StartBackendFails, StartSpawnFails

(***************************************************************************)
(* Everybody else.                                                         *)
(***************************************************************************)

\* A thread that calls, records or works for a runtime finds the slot held,
\* and no rollback (builder.rs:294-329).
LEMMA ActiveHeld ==
  ASSUME TypeOK, CallShape, SafeInv, ~crashed, NEW t \in Threads,
         \/ pc[t] \in RecordPc \cup HandlePc
         \/ t = Worker /\ pc[t] # "off"
  PROVE  Gate!Held /\ ~RollingBack
<1>1. running /\ \A h \in Hosts : pc[h] \notin BarePc
  BY ActiveAlone
<1>2. ~RollingBack
  BY <1>1 DEF RollingBack, BarePc
<1>3. SlotOf \in {"starting", "live"}
  BY <1>1, <1>2, SlotViews DEF SlotView
<1>4. QED
  BY <1>2, <1>3 DEF Gate!Held

\* A step that adds a denial while the slot is held, and changes nothing else
\* that the gate shows, is its deny step (worker.rs:88-91, handle.rs:119-128).
LEMMA DenySeen ==
  ASSUME Gate!Held, ~RollingBack, NEW category \in Categories,
         latched' = latched \cup {category},
         UNCHANGED <<running, denyUntil, scanDone, crashed>>,
         \A h \in Hosts : /\ Starting(h)' <=> Starting(h)
                          /\ pc'[h] \in RollbackPc <=> pc[h] \in RollbackPc
  PROVE  Gate!GateNext
<1>1. ~RollingBack'
  BY DEF RollingBack
<1>2. Someone' <=> Someone
  BY DEF Someone
<1>3. SlotOf' = SlotOf
  BY <1>1, <1>2, SlotViews DEF SlotView
<1>4. Gate!GateDeny(category)
  BY <1>1, <1>3 DEF Gate!GateDeny
<1>5. QED
  BY <1>4 DEF Gate!GateNext

\* record() denies through the gate, or is invisible to it
\* (worker.rs:74-113).
LEMMA RecordStepSeen ==
  ASSUME TypeInv, SafeInv, ~crashed, NEW t \in Threads, RecordStep(t)
  PROVE  Gate!GateNext \/ UNCHANGED Gate!gate
<1> USE DEF StartPc, RollbackPc, RecordPc, HandlePc, words, objects, worker,
            Goto
<1>a. Hosts \subseteq Threads /\ Worker \in Threads /\ Worker \notin Hosts
  BY RuntimeAssumption DEF Threads
<1>b. TypeOK /\ CallShape
  BY DEF TypeInv
<1>c. \A u \in Threads : u # t => pc'[u] = pc[u] /\ call'[u] = call[u]
  BY <1>b DEF RecordStep, RecordLock, RecordOutcome, RecordLatch,
              RecordUnlock, TypeOK
<1>d. UNCHANGED <<running, denyUntil, scanDone, crashed>>
  BY DEF RecordStep, RecordLock, RecordOutcome, RecordLatch, RecordUnlock
<1>1. CASE RecordLock(t)
  <2>1. /\ pc[t] = "record" /\ pc'[t] = "recording"
        /\ call' = call /\ latched' = latched
    BY <1>b, <1>1 DEF RecordLock, TypeOK
  <2>2. QED
    BY <1>a, <1>c, <1>d, <2>1, GateBlind DEF Starting
<1>2. CASE RecordOutcome(t)
  <2> DEFINE category == CategoryOf[Head(call[t].outcomes).detector]
  <2>1. /\ pc[t] = "recording"
        /\ \/ /\ latched' = latched \cup {category}
              /\ call' = [call EXCEPT ![t].category = {category}]
              /\ pc' = [pc EXCEPT ![t] = "latching"]
           \/ /\ latched' = latched /\ pc' = pc
              /\ \E rest, kept :
                   call' = [call EXCEPT ![t].outcomes = rest,
                                        ![t].qualified = kept]
    BY <1>2 DEF RecordOutcome
  <2>2. category \in Categories
    <3>1. Head(call[t].outcomes) \in Observed
      BY <1>b, <1>2, CallType DEF RecordOutcome
    <3>2. QED
      BY <3>1, DetectorAssumption DEF Observed
  <2> HIDE DEF category
  <2>3. call'[t].then = call[t].then /\ pc'[t] \in RecordPc
    BY <1>b, <2>1, ZenonT(60) DEF TypeOK, Call
  <2>4. \A h \in Hosts : /\ Starting(h)' <=> Starting(h)
                         /\ pc'[h] \in RollbackPc <=> pc[h] \in RollbackPc
    BY <1>a, <1>c, <2>1, <2>3 DEF Starting
  <2>5. CASE latched' = latched
    BY <1>d, <2>4, <2>5, GateBlind
  <2>6. CASE latched' = latched \cup {category}
    <3>1. Gate!Held /\ ~RollingBack
      BY <1>b, <2>1, ActiveHeld
    <3>2. QED
      BY <1>d, <2>2, <2>4, <2>6, <3>1, DenySeen
  <2>7. QED
    BY <2>1, <2>5, <2>6
<1>3. CASE RecordLatch(t)
  <2>1. /\ pc[t] = "latching" /\ pc'[t] = "recording"
        /\ call'[t].then = call[t].then /\ latched' = latched
    BY <1>b, <1>3 DEF RecordLatch, TypeOK, Call
  <2>2. QED
    BY <1>a, <1>c, <1>d, <2>1, GateBlind DEF Starting
<1>4. CASE RecordUnlock(t)
  <2>1. /\ t \in Hosts => call[t].then \in {"spawn", "enqueue"}
        /\ pc[t] = "recording" /\ pc'[t] = call[t].then
        /\ latched' = latched
    BY <1>b, <1>4 DEF RecordUnlock, CallShape, TypeOK
  <2>2. QED
    BY <1>a, <1>c, <1>d, <2>1, GateBlind DEF Starting
<1>5. QED
  BY <1>1, <1>2, <1>3, <1>4 DEF RecordStep

\* A call through a handle denies through the gate, or is invisible to it
\* (handle.rs:88-180).
LEMMA HandleStepSeen ==
  ASSUME TypeInv, SafeInv, ~crashed, NEW t \in Threads,
         HandleCall(t) \/ HandleStep(t)
  PROVE  Gate!GateNext \/ UNCHANGED Gate!gate
<1> USE DEF StartPc, RollbackPc, RecordPc, HandlePc, words, objects, worker,
            Goto
<1>a. Hosts \subseteq Threads /\ Worker \in Threads /\ Worker \notin Hosts
  BY RuntimeAssumption DEF Threads
<1>b. TypeOK /\ CallShape
  BY DEF TypeInv
<1>c. Home(t) = IF t = Worker THEN "callback" ELSE "idle"
  BY DEF Home
<1>1. ASSUME NEW label, pc' = [pc EXCEPT ![t] = label],
             pc[t] \in {Home(t)} \cup HandlePc,
             label \in {Home(t)} \cup HandlePc
      PROVE  \A h \in Hosts :
               /\ Starting(h)' <=> Starting(h)
               /\ pc'[h] \in RollbackPc <=> pc[h] \in RollbackPc
  <2>1. pc'[t] = label /\ \A u \in Threads : u # t => pc'[u] = pc[u]
    BY <1>b, <1>1 DEF TypeOK
  <2>2. ASSUME NEW h \in Hosts, h # t
        PROVE  Starting(h)' <=> Starting(h)
    <3>1. call'[h] = call[h] /\ pc'[h] = pc[h]
      <4>1. CASE HandleCall(t)
        BY <1>a, <1>b, <2>1, <2>2, <4>1
        DEF HandleCall, EnsureLatched, DenyWord, ReportUiAbuse, WaitCall,
            TypeOK
      <4>2. CASE HandleStep(t)
        BY <1>a, <1>b, <2>1, <2>2, <4>2
        DEF HandleStep, EnsureDenyUntil, EnsureScanDone, DenyState,
            ReportQueue, WaitCheck, WaitExpires, Return, TypeOK
      <4>3. QED
        BY <4>1, <4>2
    <3>2. QED
      BY <3>1 DEF Starting
  <2>3. t \in Hosts => ~Starting(t) /\ ~Starting(t)'
    BY <1>a, <1>c, <1>1, <2>1 DEF Starting
  <2>4. QED
    BY <1>a, <1>c, <1>1, <2>1, <2>2, <2>3
<1>2. CASE HandleStep(t)
  <2>1. /\ UNCHANGED <<running, latched, denyUntil, scanDone, crashed>>
        /\ \E label \in {Home(t)} \cup HandlePc :
             pc' = [pc EXCEPT ![t] = label]
        /\ pc[t] \in HandlePc
    BY <1>2 DEF HandleStep, EnsureDenyUntil, EnsureScanDone, DenyState,
                ReportQueue, WaitCheck, WaitExpires, Return
  <2>2. QED
    BY <1>1, <2>1, GateBlind
<1>3. ASSUME NEW r \in Runtimes, EnsureLatched(t, r) \/ WaitCall(t, r)
      PROVE  UNCHANGED Gate!gate
  <2>1. /\ UNCHANGED <<running, latched, denyUntil, scanDone, crashed>>
        /\ \E label \in HandlePc : pc' = [pc EXCEPT ![t] = label]
        /\ pc[t] = Home(t)
    BY <1>3 DEF EnsureLatched, WaitCall, CanCall
  <2>2. QED
    BY <1>1, <2>1, GateBlind
<1>4. ASSUME NEW r \in Runtimes, NEW category \in Categories,
             DenyWord(t, r, category)
      PROVE  Gate!GateNext
  <2>1. /\ latched' = latched \cup {category}
        /\ UNCHANGED <<running, denyUntil, scanDone, crashed>>
        /\ pc' = [pc EXCEPT ![t] = "denying"]
        /\ pc[t] = Home(t)
    BY <1>4 DEF DenyWord, CanCall
  <2>2. running /\ \A h \in Hosts : pc[h] \notin BarePc
    BY <1>b, <1>4, CallerAlone DEF DenyWord
  <2>3. ~RollingBack
    BY <2>2 DEF RollingBack, BarePc
  <2>4. Gate!Held
    BY <2>2, <2>3, SlotViews DEF SlotView, Gate!Held
  <2>5. \A h \in Hosts : /\ Starting(h)' <=> Starting(h)
                         /\ pc'[h] \in RollbackPc <=> pc[h] \in RollbackPc
    BY <1>1, <2>1
  <2>6. QED
    BY <2>1, <2>3, <2>4, <2>5, DenySeen
<1>5. ASSUME NEW r \in Runtimes, ReportUiAbuse(t, r)
      PROVE  UNCHANGED Gate!gate
  <2>1. /\ UNCHANGED <<running, latched, denyUntil, scanDone, crashed>>
        /\ pc[t] = Home(t) /\ pc'[t] = "record" /\ call'[t].then = "enqueue"
        /\ \A u \in Threads : u # t => pc'[u] = pc[u] /\ call'[u] = call[u]
    BY <1>b, <1>5 DEF ReportUiAbuse, CanCall, TypeOK, NoCall
  <2>2. QED
    BY <1>a, <1>c, <2>1, GateBlind DEF Starting
<1>6. QED
  BY <1>2, <1>3, <1>4, <1>5 DEF HandleCall

\* The worker aborts or completes its scan through the gate, or is invisible
\* to it (worker.rs:186-317, lib.rs:225-233).
LEMMA WorkerStepSeen ==
  ASSUME TypeInv, SafeInv, ~Unwinds, ~crashed, WorkerStep
  PROVE  Gate!GateNext \/ UNCHANGED Gate!gate
<1> USE DEF StartPc, RollbackPc, RecordPc, HandlePc, words, objects, worker,
            Goto
<1>a. Hosts \subseteq Threads /\ Worker \in Threads /\ Worker \notin Hosts
  BY RuntimeAssumption DEF Threads
<1>b. TypeOK /\ CallShape
  BY DEF TypeInv
<1>1. CASE DispatchCrash
  <2>1. /\ pc[Worker] = "dispatch" /\ crashed'
        /\ UNCHANGED <<running, latched, denyUntil, scanDone, pc>>
    BY <1>1 DEF DispatchCrash
  <2>2. Gate!Held /\ ~RollingBack
    BY <1>a, <1>b, <2>1, ActiveHeld
  <2>3. ~RollingBack' /\ SlotOf' = "down"
    BY <2>1, <2>2, SlotViews DEF RollingBack, SlotView
  <2>4. Gate!GateAborts
    BY <2>1, <2>2, <2>3 DEF Gate!GateAborts
  <2>5. QED
    BY <2>4 DEF Gate!GateNext
<1>2. CASE WorkerMarks
  <2>1. /\ pc[Worker] = "mark" /\ scanDone'
        /\ \A h \in Hosts :
             pc'[h] = IF pc[h] = "waiting" THEN "woken" ELSE pc[h]
        /\ UNCHANGED <<running, latched, denyUntil, call, crashed>>
    BY <1>a, <1>2 DEF WorkerMarks
  <2>2. Gate!Held /\ ~RollingBack
    BY <1>a, <1>b, <2>1, ActiveHeld
  <2>3. ~RollingBack' /\ (Someone' <=> Someone)
    BY <2>1, <2>2 DEF RollingBack, Someone, Starting
  <2>4. SlotOf' = SlotOf
    BY <2>1, <2>2, <2>3, SlotViews DEF SlotView
  <2>5. Gate!GateScanned
    BY <2>1, <2>2, <2>3, <2>4 DEF Gate!GateScanned
  <2>6. QED
    BY <2>5 DEF Gate!GateNext
<1>3. CASE WorkerScans
  <2>1. /\ \A h \in Hosts : pc'[h] = pc[h] /\ call'[h] = call[h]
        /\ UNCHANGED <<running, latched, denyUntil, scanDone, crashed>>
    BY <1>a, <1>b, <1>3 DEF WorkerScans, TypeOK
  <2>2. QED
    BY <2>1, GateBlind DEF Starting
<1>4. CASE \/ DispatchNothing \/ DispatchCallback \/ DispatchDone
           \/ CallbackReturns \/ CallbackShares \/ CallbackPanics
           \/ RecordHealth \/ WorkerTakes
  <2>1. /\ \A h \in Hosts : pc'[h] = pc[h]
        /\ UNCHANGED <<running, latched, denyUntil, scanDone, crashed, call>>
    BY <1>a, <1>b, <1>4
    DEF DispatchNothing, DispatchCallback, DispatchDone, CallbackReturns,
        CallbackShares, CallbackPanics, RecordHealth, WorkerTakes, TypeOK
  <2>2. QED
    BY <2>1, GateBlind DEF Starting
<1>5. CASE WorkerUnwinds
  BY <1>5 DEF WorkerUnwinds
<1>6. QED
  BY <1>1, <1>2, <1>3, <1>4, <1>5 DEF WorkerStep

(***************************************************************************)
(* The refinement.                                                         *)
(***************************************************************************)

\* Runtime implements StartGate (lib.rs:138-223, builder.rs:214-219): however
\* host threads, callbacks and the worker interleave, two starts never both
\* proceed, a failed start undoes what it did and no more, and a denial and
\* the end of the startup window are never taken back.
THEOREM GateRefinement ==
  ASSUME ~Unwinds
  PROVE  Spec => ImplementsGate
<1>1. Init => Gate!GateInit
  <2> SUFFICES ASSUME Init PROVE Gate!GateInit
    OBVIOUS
  <2>1. /\ ~crashed /\ ~running /\ latched = {}
        /\ denyUntil = FALSE /\ scanDone = FALSE
    BY DEF Init
  <2>2. \A h \in Hosts : pc[h] = "idle"
    BY RuntimeAssumption DEF Init, Threads
  <2>3. ~RollingBack
    BY <2>2 DEF RollingBack, RollbackPc
  <2>4. SlotOf = "free"
    BY <2>1, <2>3, SlotViews DEF SlotView
  <2>5. QED
    BY <2>1, <2>3, <2>4 DEF Gate!GateInit
<1>2. TypeInv /\ SafeInv /\ [Next]_vars => [Gate!GateNext]_(Gate!gate)
  <2> SUFFICES ASSUME TypeInv, SafeInv, [Next]_vars
               PROVE  Gate!GateNext \/ UNCHANGED Gate!gate
    OBVIOUS
  <2>1. CASE UNCHANGED vars
    <3>1. UNCHANGED <<running, latched, denyUntil, scanDone, crashed, pc, call>>
      BY <2>1 DEF vars, words
    <3>2. QED
      BY <3>1, GateBlind DEF Starting
  <2>2. ASSUME ~crashed, NEW h \in Hosts,
               StartClaim(h) \/ StartRefused(h) \/ StartStep(h)
        PROVE  Gate!GateNext \/ UNCHANGED Gate!gate
    BY <2>2, StartStepSeen
  <2>3. CASE ~crashed /\ WorkerStep
    BY <2>3, WorkerStepSeen
  <2>4. ASSUME ~crashed, NEW t \in Threads,
               HandleCall(t) \/ HandleStep(t) \/ RecordStep(t)
        PROVE  Gate!GateNext \/ UNCHANGED Gate!gate
    BY <2>4, HandleStepSeen, RecordStepSeen
  <2>5. QED
    BY <2>1, <2>2, <2>3, <2>4 DEF Next, Aborted
<1>3. IInv => SafeInv
  BY DEF IInv, SafeInv
<1>4. QED
  BY <1>1, <1>2, <1>3, Invariance, TypeInvariance, PTL
  DEF Spec, ImplementsGate, Gate!GateSpec
=============================================================================

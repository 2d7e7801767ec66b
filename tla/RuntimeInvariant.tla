-------------------------- MODULE RuntimeInvariant --------------------------
(***************************************************************************)
(* The inductive invariant of Runtime behind its safety theorems, for a    *)
(* worker that no panic escapes (~Unwinds). MCRuntime checks it with TLC,  *)
(* RuntimeSafety proves it.                                                *)
(***************************************************************************)
EXTENDS Runtime

\* The threads inside a critical section of the state lock.
LockedPc == {"recording", "latching", "denying"}

\* The start before its state exists, or after it was dropped.
BarePc == {"validate", "initialScan"} \cup RollbackPc

\* Host thread h is inside a call through a handle.
Calling(h) ==
  pc[h] \in HandlePc \/ (pc[h] \in RecordPc /\ call[h].then # "spawn")

\* The worker is inside the host callback, or about to report its panic.
InCallback ==
  \/ pc[Worker] \in {"callback", "health"} \cup HandlePc
  \/ pc[Worker] \in RecordPc /\ call[Worker].then = "enqueue"

\* What a thread inside record() goes on with, and what a step that takes the
\* head of a sequence finds there.
CallShape ==
  /\ \A h \in Hosts : pc[h] \in RecordPc => call[h].then \in {"spawn", "enqueue"}
  /\ pc[Worker] \in RecordPc => call[Worker].then \in {"dispatch", "enqueue"}
  /\ \A t \in Threads :
       pc[t] = "latching" => /\ call[t].outcomes # <<>>
                             /\ IsFinding(Head(call[t].outcomes).outcome)
  /\ InCallback => work # <<>>

\* Which thread can be where.
ThreadInv ==
  /\ \A h \in Hosts : pc[h] \notin WorkerPc
  /\ pc[Worker] \notin StartPc \cup {"idle", "stopped"}

\* One start owns the slot. A handle, a call through it and a live worker all
\* belong to the runtime of that start, which has reached its last wait.
SlotInv ==
  /\ OneStart
  /\ OneRuntime
  /\ \A h \in Hosts : Calling(h) => handles # {}
  /\ pc[Worker] # "off" =>
       running /\ \A h \in Hosts : Starting(h) => pc[h] = "await"
  /\ \A t \in Threads :
       pc[t] \in RecordPc \cup {"denying", "enqueue"} =>
         call[t].runtime = runtime

\* The lock of a runtime is owned by the thread inside its critical section.
LockInv ==
  /\ \A t \in Threads : pc[t] \in LockedPc => lock[call[t].runtime] = t
  /\ \A r \in Runtimes :
       lock[r] # NoThread => /\ pc[lock[r]] \in LockedPc
                             /\ call[lock[r]].runtime = r

\* A category is under way exactly between the two writes of a latch.
CategoryInv ==
  \A t \in Threads :
    IF pc[t] \in {"latching", "denying"}
    THEN \E category \in latched : call[t].category = {category}
    ELSE call[t].category = {}

\* Without a state there is no latch, once the rollback cleared the word. With
\* one, the word is ahead of the engine by what is under way, and no more.
WordInv ==
  /\ ~running => latched = {}
  /\ \A h \in Hosts :
       pc[h] \in BarePc \ {"abandon", "abandonLatch"} => latched = {}
  /\ running /\ (\A h \in Hosts : pc[h] \notin BarePc) =>
       /\ eng[runtime].latched \subseteq latched
       /\ \A category \in latched :
            \/ category \in eng[runtime].latched
            \/ \E t \in Threads : category \in call[t].category

\* The coverage words are clean whenever the slot is free, no full scan is
\* complete while a start has not spawned its worker, and the startup denial is
\* off before the start configures it and after the rollback took it back.
CoverageInv ==
  /\ ~running => ~denyUntil /\ ~scanDone /\ ~waitDone
  /\ \A h \in Hosts :
       /\ Starting(h) /\ pc[h] # "await" => ~scanDone /\ ~waitDone
       /\ pc[h] \in {"validate"} \cup (RollbackPc \ {"abandon"}) => ~denyUntil

\* Start, handles, worker, state lock and denial word fit together; this is
\* the invariant from which the properties of Runtime follow.
IInv ==
  /\ CallShape /\ ThreadInv /\ SlotInv /\ LockInv /\ CategoryInv
  /\ WordInv /\ CoverageInv
=============================================================================

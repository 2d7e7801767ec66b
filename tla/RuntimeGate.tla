----------------------------- MODULE RuntimeGate -----------------------------
(***************************************************************************)
(* Runtime implements StartGate when no panic escapes the worker           *)
(* (~Unwinds). A rollback resets its words one after another; to a host it *)
(* is one step, taken when the start fails, because nobody else can read   *)
(* the words until the slot is released.                                   *)
(***************************************************************************)
EXTENDS Runtime

RollingBack == \E h \in Hosts : pc[h] \in RollbackPc

SlotOf ==
  CASE crashed -> "down"
    [] ~crashed /\ RollingBack -> "failing"
    [] ~crashed /\ ~RollingBack /\ ~running -> "free"
    [] ~crashed /\ ~RollingBack /\ running ->
         IF \E h \in Hosts : Starting(h) THEN "starting" ELSE "live"

Gate == INSTANCE StartGate
  WITH Denials <- Categories,
       slot <- SlotOf,
       denials <- IF RollingBack THEN {} ELSE latched,
       armed <- denyUntil /\ ~RollingBack,
       scanned <- scanDone /\ ~RollingBack

\* Every step of the threads is a step of the abstract gate or invisible to
\* it: two starts never both proceed, a failed one undoes what it did and no
\* more (builder.rs:214-219), a denial and the end of the startup window are
\* never taken back (handle.rs:106, builder.rs:159).
ImplementsGate == Gate!GateSpec
=============================================================================

--------------------------- MODULE RuntimeHistory ---------------------------
(***************************************************************************)
(* Runtime with one history variable: whether, at some instant since a     *)
(* thread's current ensure_allowed() began, the three words that it reads  *)
(* one after another together allowed a protected operation.               *)
(***************************************************************************)
EXTENDS Runtime

VARIABLE permitted

hvars == <<vars, permitted>>

\* What ensure_allowed() would answer if it read its three words at once.
Permitted == latched = {} /\ (~denyUntil \/ scanDone)

InEnsure(t) == pc[t] \in {"ensureDeny", "ensureScan"}

HInit == Init /\ permitted = [t \in Threads |-> FALSE]

HNext ==
  /\ Next
  /\ permitted' = [t \in Threads |->
                     /\ InEnsure(t)'
                     /\ permitted[t] \/ Permitted \/ Permitted']

HSpec == HInit /\ [][HNext]_hvars

\* This step is the return of Ok from ensure_allowed() in thread t.
EnsureReturnsOk(t) ==
  /\ InEnsure(t) /\ ~InEnsure(t)'
  /\ IF pc[t] = "ensureDeny" THEN ~denyUntil ELSE scanDone

\* "Denies every protected operation until the first full scan completes" and
\* "Returns Denied when any category latched a denial" (builder.rs:146,
\* handle.rs:81): an Ok was the right answer at some instant of its call.
OkWasPermitted ==
  [][\A t \in Threads : EnsureReturnsOk(t) => permitted[t]]_hvars
=============================================================================

----------------------------- MODULE TauriPlugin -----------------------------
(***************************************************************************)
(* The Tauri plugin (bindings/tauri-plugin-fidelity/src/lib.rs) over the   *)
(* runtime that StartGate abstracts. The setup hook starts the runtime and *)
(* then gives the handle to the application state; commands look it up     *)
(* there. The host may start the runtime itself, and a callback of the     *)
(* runtime may put its own handle into the state between the two steps.    *)
(* A start whose worker stops after a callback kept the handle fails all   *)
(* the same (builder.rs:329): that handle is stale from then on, it writes *)
(* and reads the words of whichever start comes next.                      *)
(***************************************************************************)
EXTENDS StartGate

VARIABLES
  setup,       \* the hook: "waiting", "starting", "started", "done", "failed"
  ours,        \* the host itself is inside start()
  shared,      \* the handles that host code outside the plugin has: "current"
               \* of the start that holds the slot, "stale" of one that failed
  managed,     \* the handle in the application state, one of these or none
  answer       \* a command's answer; "reading" between its two reads

app == <<setup, ours, shared, managed, answer>>
pluginVars == <<gate, app>>

PluginInit ==
  /\ GateInit
  /\ setup = "waiting" /\ answer = "none"
  /\ ours = FALSE /\ shared = {} /\ managed = {}

\* What a handle is worth once the start that made it is rolled back.
Stale(handles) == IF handles = {} THEN {} ELSE {"stale"}

(* Slips, one plausible mistake each; the specification does not use them. *)

\* The state holds a handle before the runtime behind it has started.
SetupClaimsManaged ==
  /\ setup = "waiting" /\ GateClaim
  /\ setup' = "starting" /\ managed' = {"current"}
  /\ UNCHANGED <<ours, shared, answer>>

\* A step between the start and manage() fails the setup.
SetupReturnsEarly ==
  /\ setup = "starting" /\ GateOpens
  /\ setup' = "failed"
  /\ UNCHANGED <<ours, shared, managed, answer>>

\* A handle that is managed already makes the setup undo its start.
SetupManagesOrUndoes ==
  /\ setup = "started"
  /\ setup' = IF managed = {} THEN "done" ELSE "failed"
  /\ managed' = IF managed = {} THEN {"current"} ELSE managed
  /\ IF managed = {} THEN UNCHANGED gate
     ELSE slot' = "failing" /\ denials' = {} /\ UNCHANGED <<armed, scanned>>
  /\ UNCHANGED <<ours, shared, answer>>

-----------------------------------------------------------------------------
(* init(): builder.start()?, then app.manage(handle).                      *)

SetupClaims ==
  /\ setup = "waiting" /\ GateClaim
  /\ setup' = "starting"
  /\ UNCHANGED <<ours, shared, managed, answer>>

\* AlreadyRunning: some other start holds the slot.
SetupRefused ==
  /\ setup = "waiting" /\ slot # "free"
  /\ setup' = "failed"
  /\ UNCHANGED <<gate, ours, shared, managed, answer>>

\* Any error of builder.start(), the one of a worker that stopped after its
\* first callbacks included: abandon_start() clears the words under the
\* handles that these callbacks kept.
SetupFails ==
  /\ setup = "starting" /\ GateFails
  /\ setup' = "failed"
  /\ shared' = Stale(shared) /\ managed' = Stale(managed)
  /\ UNCHANGED <<ours, answer>>

SetupReturns ==
  /\ setup = "starting" /\ GateOpens
  /\ setup' = "started"
  /\ UNCHANGED <<ours, shared, managed, answer>>

\* manage() keeps the handle that is there: SetupError.
SetupManages ==
  /\ setup = "started"
  /\ setup' = IF managed = {} THEN "done" ELSE "failed"
  /\ managed' = IF managed = {} THEN {"current"} ELSE managed
  /\ UNCHANGED <<gate, ours, shared, answer>>

-----------------------------------------------------------------------------
(* The host beside the plugin, and the runtime behind it.                  *)

HostStart ==
  /\ \/ ~ours /\ GateClaim /\ ours' = TRUE /\ UNCHANGED <<shared, managed>>
     \/ ours /\ GateFails /\ ours' = FALSE
          /\ shared' = Stale(shared) /\ managed' = Stale(managed)
     \/ ours /\ GateOpens /\ ours' = FALSE
          /\ shared' = shared \cup {"current"} /\ UNCHANGED managed
  /\ UNCHANGED <<setup, answer>>

CallbackGivesHandle ==
  /\ Held /\ "current" \notin shared
  /\ shared' = shared \cup {"current"}
  /\ UNCHANGED <<gate, setup, ours, managed, answer>>

HostManages ==
  /\ managed = {}
  /\ \E handle \in shared : managed' = {handle}
  /\ UNCHANGED <<gate, setup, ours, shared, answer>>

\* deny() takes the runtime of its own handle for the snapshot, and latches in
\* the process-wide word whoever holds the slot.
StaleHandleDenies ==
  /\ "stale" \in shared /\ slot \in {"free", "failing"}
  /\ \E category \in Denials : denials' = denials \cup {category}
  /\ UNCHANGED <<slot, armed, scanned, app>>

\* So a later start may arm its window over a denial that it did not make.
ArmsOverDenial ==
  /\ "stale" \in shared /\ slot = "starting" /\ denials # {}
  /\ ~armed /\ ~scanned /\ armed' = TRUE
  /\ UNCHANGED <<slot, denials, scanned, app>>

RuntimeRuns ==
  /\ \/ GateArm \/ GateScanned \/ GateReleased \/ GateAborts
     \/ \E category \in Denials : GateDeny(category)
  /\ UNCHANGED app

-----------------------------------------------------------------------------
(* FidelityExt: every command looks the handle up first. Without one it    *)
(* answers FidelityStateError, or panics.                                  *)

CommandWithoutHandle ==
  /\ answer # "reading" /\ managed = {}
  /\ answer' = "State"
  /\ UNCHANGED <<gate, setup, ours, shared, managed>>

\* ensure_allowed() reads the denials, and then the startup window.
CheckDenials ==
  /\ answer # "reading" /\ managed # {}
  /\ answer' = IF denials # {} THEN "Denied" ELSE "reading"
  /\ UNCHANGED <<gate, setup, ours, shared, managed>>

CheckWindow ==
  /\ answer = "reading"
  /\ answer' = IF armed /\ ~scanned THEN "Denied" ELSE "Ok"
  /\ UNCHANGED <<gate, setup, ours, shared, managed>>

\* report_ui_abuse() with a qualifying finding, or deny(), of the handle.
CommandDenies ==
  /\ managed # {}
  /\ \E category \in Denials : GateDeny(category)
  /\ UNCHANGED app

PluginNext ==
  \/ /\ slot # "down"
     /\ \/ SetupClaims \/ SetupRefused \/ SetupFails \/ SetupReturns \/ SetupManages
        \/ HostStart \/ CallbackGivesHandle \/ HostManages \/ RuntimeRuns
        \/ StaleHandleDenies \/ ArmsOverDenial
        \/ CommandWithoutHandle \/ CheckDenials \/ CheckWindow \/ CommandDenies
  \/ slot = "down" /\ UNCHANGED pluginVars

PluginSpec == PluginInit /\ [][PluginNext]_pluginVars

-----------------------------------------------------------------------------
\* Who is inside start(), and what that says of the slot: the hook or the host,
\* never both (lib.rs:16-32).
StartHasOwner ==
  /\ ~(setup = "starting" /\ ours)
  /\ setup = "starting" \/ ours => slot \in {"starting", "down"}
  /\ setup = "started" => slot \in {"live", "down"}

\* The inductive invariant behind ManagedHandleServes: a handle in the state is
\* the one that the setup hook put there, or one that a callback kept.
PluginInv ==
  /\ ours \in BOOLEAN /\ shared \subseteq {"current", "stale"}
  /\ managed \in {{}, {"current"}, {"stale"}}
  /\ StartHasOwner
  /\ slot = "live" =>
       "current" \in shared \/ managed # {} \/ setup = "started"
  /\ "current" \in shared => slot \in {"starting", "live", "down"}
  /\ managed = {"current"} => "current" \in shared \/ slot \in {"live", "down"}
  /\ managed = {"stale"} => "stale" \in shared

\* A setup that failed left no runtime behind that nobody can reach: another
\* start owns the runtime, or the state holds a handle (lib.rs:24-30 drops the
\* handle of a runtime that goes on running). That handle is of this runtime,
\* or it is a stale one that the application had put there.
NoOrphan ==
  setup = "failed" /\ slot = "live" =>
    \/ "current" \in shared \cup managed
    \/ managed = {"stale"} /\ "stale" \in shared

\* A command never checks against the words of a start that was rolled back,
\* unless a callback of that start kept its handle and the application managed it.
ManagedIsHeld ==
  /\ managed = {"current"} => Held \/ slot = "down"
  /\ managed = {"stale"} => "stale" \in shared

\* Whatever the host starts, shares and manages beside the setup hook, a runtime
\* that runs can be reached and the managed handle is of that runtime
\* (lib.rs:16-32). The one way to a stale handle is a worker that stops after
\* its callback kept one (builder.rs:329).
ManagedHandleServes == NoOrphan /\ ManagedIsHeld

\* This step is the rollback of a start while code outside the plugin has a
\* handle of it, or of an earlier start that failed.
RollsBackShared == slot = "starting" /\ slot' = "failing" /\ shared # {}

\* What one command found denied no later command finds allowed, whoever
\* starts, fails or manages in between, with one exception: a start that is
\* rolled back under a handle that a callback kept (builder.rs:329, lib.rs:209)
\* takes denials back, against handle.rs:106 as LatchPermanent shows.
DeniedStaysDenied ==
  [][managed # {} => /\ managed' # {}
                     /\ denials \subseteq denials' \/ RollsBackShared]_pluginVars
=============================================================================

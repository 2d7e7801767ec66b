------------------------------ MODULE MCRuntime ------------------------------
(***************************************************************************)
(* Small instances of Runtime for TLC. Three categories, each with its own *)
(* action, and three detectors: "image" runs in the initial scan and in    *)
(* every full scan, "agent" in full scans only, "ui" is the host report.   *)
(***************************************************************************)
EXTENDS RuntimeReports, RuntimeGate, TLC

CONSTANTS h1, h2

MCHosts == {h1, h2}
OneHost == {h1}
HostSymmetry == Permutations(MCHosts)

MCCategories == {"Integrity", "Instrumentation", "UiAbuse"}
MCDetectors == {"image", "agent", "ui"}
MCCategoryOf == [image |-> "Integrity", agent |-> "Instrumentation",
                 ui |-> "UiAbuse"]
MCCheapScan == <<"image">>
MCExtraScan == <<"agent">>
MCClock == {0}

Sight(d, strength, health) ==
  [detector |-> d, strength |-> strength, health |-> health, at |-> 0]

ScanAnswers(image, agent) ==
  {[image |-> i, agent |-> a, ui |-> NotRun] : i \in image, a \in agent}

\* The image is clean, or modified; the agent scan is unsupported, finds an
\* agent, or fails.
MCEnvironments ==
  ScanAnswers({Clean, Found(Sight("image", High, FALSE))},
              {Unsupported, Found(Sight("agent", High, FALSE)),
               Found(Sight("agent", Low, TRUE))})

\* An overlay is Medium evidence, any other observation is Low.
MCHostObservations ==
  {Sight("ui", Medium, FALSE), Sight("ui", Low, FALSE)}

Choice(action, threshold) == [action |-> action, threshold |-> threshold]

Chosen(integrity, instrumentation, ui) ==
  [Integrity |-> integrity, Instrumentation |-> instrumentation,
   UiAbuse |-> ui]

Setup(policy, callback, window, required) ==
  [policy |-> policy, callback |-> callback, target |-> TRUE,
   denyUntil |-> window, required |-> required]

\* A denial from each source: the initial scan, the worker's scan, the host.
DenyConfigs ==
  {Setup(Chosen(Choice("Deny", High), Choice("Deny", Medium),
                Choice("Deny", Medium)), FALSE, FALSE, {})}

\* Configurations that fail in validation, that may fail for coverage after
\* they opened the startup window, and that may fail after they latched.
StartConfigs ==
  LET policy == Chosen(Choice("Deny", High), Choice("Report", High),
                       Choice("Callback", Medium))
  IN  {Setup(policy, FALSE, TRUE, {}),
       Setup(policy, TRUE, TRUE, {"Integrity"}),
       Setup(policy, TRUE, FALSE, {})}

\* Both kinds: every start that fails, and every source of a denial.
SafetyConfigs == DenyConfigs \cup StartConfigs

SafetyEnvironments ==
  ScanAnswers({Unsupported, Found(Sight("image", High, FALSE))},
              {Unsupported, Found(Sight("agent", High, FALSE))})

\* Callback and Crash, with a threshold that health findings reach too.
ResponseConfigs ==
  {Setup(Chosen(Choice("Callback", High), Choice("Crash", Low),
                Choice("Crash", Medium)), TRUE, FALSE, {}),
   Setup(Chosen(Choice("Crash", High), Choice("Callback", Low),
                Choice("Callback", Low)), TRUE, FALSE, {})}

\* An initial callback that can share its handle.
CallbackConfigs ==
  {Setup(Chosen(Choice("Callback", High), Choice("Report", High),
                Choice("Callback", Medium)), TRUE, FALSE, {})}

CallbackEnvironments ==
  ScanAnswers({Clean, Found(Sight("image", High, FALSE))}, {Unsupported})

\* An initial callback, in which the worker may end early, a Crash that a full
\* scan finds, and a Callback that a host report asks for.
ProgressConfigs ==
  {Setup(Chosen(Choice("Callback", High), Choice("Crash", High),
                Choice("Callback", Medium)), TRUE, FALSE, {})}

ProgressEnvironments ==
  ScanAnswers({Found(Sight("image", High, FALSE))},
              {Unsupported, Found(Sight("agent", High, FALSE))})

\* The startup window, and a denial that only the first full scan finds.
WindowConfigs ==
  {Setup(Chosen(Choice("Report", High), Choice("Deny", High),
                Choice("Report", High)), FALSE, TRUE, {})}

OverlayOnly == {Sight("ui", Medium, FALSE)}
=============================================================================

---------------------------- MODULE IdentityProofs ----------------------------
(***************************************************************************)
(* Proofs about the Tauri plugin over the runtime that StartGate abstracts,*)
(* the identity probes of Windows, macOS, iOS and Android, and the probes  *)
(* that ask about the machine. The inductive invariants are in the modules *)
(* of the components. The theorems hold for every set of certificates,     *)
(* images, archives and firmware tables.                                   *)
(***************************************************************************)
EXTENDS TauriPlugin, SignerIdentity, Machines, PackageIdentity, SequenceFacts,
        FiniteSetTheorems

-----------------------------------------------------------------------------
(* The Tauri plugin.                                                       *)

\* Nobody has started, and nothing is managed.
LEMMA PluginInitHolds == PluginInit => PluginInv
BY DEF PluginInit, GateInit, PluginInv, StartHasOwner

\* The runtime, the commands and the handles that the host passes on leave the two
\* starts where they are.
LEMMA PluginStepKeeps == PluginInv /\ [PluginNext]_pluginVars => PluginInv'
<1> SUFFICES ASSUME PluginInv, [PluginNext]_pluginVars PROVE PluginInv'
  OBVIOUS
<1>1. CASE SetupClaims
  BY <1>1 DEF PluginInv, StartHasOwner, SetupClaims, GateClaim
<1>2. CASE SetupRefused
  BY <1>2 DEF PluginInv, StartHasOwner, SetupRefused, gate
<1>3. CASE SetupFails
  BY <1>3 DEF PluginInv, StartHasOwner, SetupFails, GateFails, Stale
<1>4. CASE SetupReturns
  BY <1>4 DEF PluginInv, StartHasOwner, SetupReturns, GateOpens
<1>5. CASE SetupManages
  BY <1>5 DEF PluginInv, StartHasOwner, SetupManages, gate
<1>6. CASE HostStart
  <2>1. CASE ~ours /\ GateClaim /\ ours' = TRUE /\ UNCHANGED <<shared, managed>>
    BY <1>6, <2>1 DEF PluginInv, StartHasOwner, HostStart, GateClaim
  <2>2. CASE /\ ours /\ GateFails /\ ours' = FALSE
             /\ shared' = Stale(shared) /\ managed' = Stale(managed)
    <3>1. slot = "starting" /\ slot' = "failing" /\ setup' = setup
      BY <1>6, <2>2 DEF HostStart, GateFails
    <3>2. shared' \in {{}, {"stale"}} /\ managed' \in {{}, {"stale"}}
      BY <2>2 DEF Stale
    <3>3. managed' = {"stale"} => "stale" \in shared'
      BY <2>2, <3>1 DEF PluginInv, Stale
    <3> QED BY <2>2, <3>1, <3>2, <3>3 DEF PluginInv, StartHasOwner
  <2>3. CASE /\ ours /\ GateOpens /\ ours' = FALSE
             /\ shared' = shared \cup {"current"} /\ UNCHANGED managed
    BY <1>6, <2>3 DEF PluginInv, StartHasOwner, HostStart, GateOpens
  <2> QED BY <1>6, <2>1, <2>2, <2>3 DEF HostStart
<1>7. CASE CallbackGivesHandle
  BY <1>7 DEF PluginInv, StartHasOwner, CallbackGivesHandle, Held, gate
<1>8. CASE HostManages
  BY <1>8 DEF PluginInv, StartHasOwner, HostManages, gate
<1>9. CASE RuntimeRuns
  BY <1>9 DEF PluginInv, StartHasOwner, RuntimeRuns, app, GateArm, GateScanned,
              GateReleased, GateAborts, GateDeny, Held
<1>10. CASE CommandWithoutHandle
  BY <1>10 DEF PluginInv, StartHasOwner, CommandWithoutHandle, gate
<1>11. CASE CheckDenials
  BY <1>11 DEF PluginInv, StartHasOwner, CheckDenials, gate
<1>12. CASE CheckWindow
  BY <1>12 DEF PluginInv, StartHasOwner, CheckWindow, gate
<1>13. CASE CommandDenies
  BY <1>13 DEF PluginInv, StartHasOwner, CommandDenies, app, GateDeny
<1>14. CASE StaleHandleDenies \/ ArmsOverDenial
  <2>1. UNCHANGED <<slot, setup, ours, shared, managed>>
    BY <1>14 DEF StaleHandleDenies, ArmsOverDenial, app
  <2> QED BY <2>1 DEF PluginInv, StartHasOwner
<1>15. CASE UNCHANGED pluginVars
  BY <1>15 DEF PluginInv, StartHasOwner, pluginVars, gate, app
<1> QED
  BY <1>1, <1>2, <1>3, <1>4, <1>5, <1>6, <1>7, <1>8, <1>9, <1>10, <1>11, <1>12, <1>13,
     <1>14, <1>15 DEF PluginNext

\* Whatever the host starts, shares and manages beside the setup hook, a runtime
\* that runs can be reached and the managed handle is of that runtime
\* (tauri-plugin-fidelity/src/lib.rs:16-32), or a stale one that a callback kept
\* before its worker stopped (builder.rs:329).
THEOREM PluginServes == PluginSpec => []ManagedHandleServes
<1>1. PluginSpec => []PluginInv
  BY PluginInitHolds, PluginStepKeeps, PTL DEF PluginSpec
<1>2. PluginInv => ManagedHandleServes
  BY DEF PluginInv, StartHasOwner, ManagedHandleServes, NoOrphan, ManagedIsHeld, Held
<1> QED BY <1>1, <1>2, PTL

\* What one command of the application found denied no later command finds allowed,
\* as long as no start is rolled back under a handle that one of its callbacks, or
\* of those of an earlier failed start, kept (builder.rs:329).
THEOREM PluginStaysDenied == PluginSpec => DeniedStaysDenied
<1>1. PluginSpec => []PluginInv
  BY PluginInitHolds, PluginStepKeeps, PTL DEF PluginSpec
<1>2. PluginInv /\ [PluginNext]_pluginVars
        => [managed # {} => /\ managed' # {}
                            /\ denials \subseteq denials' \/ RollsBackShared]_pluginVars
  <2> SUFFICES ASSUME PluginInv, PluginNext, managed # {}
               PROVE  /\ managed' # {}
                      /\ denials \subseteq denials' \/ RollsBackShared
    BY DEF pluginVars
  <2>1. CASE SetupFails \/ HostStart
    BY <2>1 DEF PluginInv, SetupFails, HostStart, GateFails, GateClaim, GateOpens,
                Stale, RollsBackShared
  <2>2. CASE RuntimeRuns \/ CommandDenies
    BY <2>2 DEF RuntimeRuns, CommandDenies, app, GateArm, GateScanned, GateReleased,
                GateAborts, GateDeny
  <2>3. CASE SetupClaims \/ SetupReturns
    BY <2>3 DEF SetupClaims, SetupReturns, GateClaim, GateOpens
  <2>4. CASE StaleHandleDenies \/ ArmsOverDenial
    BY <2>4 DEF StaleHandleDenies, ArmsOverDenial, app
  <2>5. CASE \/ SetupRefused \/ SetupManages \/ CallbackGivesHandle \/ HostManages
             \/ CommandWithoutHandle \/ CheckDenials \/ CheckWindow
             \/ UNCHANGED pluginVars
    BY <2>5 DEF SetupRefused, SetupManages, CallbackGivesHandle, HostManages,
                CommandWithoutHandle, CheckDenials, CheckWindow, pluginVars, gate, app
  <2> QED BY <2>1, <2>2, <2>3, <2>4, <2>5 DEF PluginNext
<1> QED BY <1>1, <1>2, PTL DEF PluginSpec, DeniedStaysDenied

-----------------------------------------------------------------------------
(* The identity probes.                                                    *)

\* The points of a probe, and what it holds there.
LEMMA PointNames ==
  /\ DOMAIN HandlesAt = {"idle", "begun", "verify", "close", "query", "param", "find",
                         "copy", "release", "text", "requirement", "validity", "error",
                         "judge", "team", "value"}
  /\ HandlesAt["idle"] = {} /\ HandlesAt["begun"] = {}
  /\ HandlesAt["verify"] = {} /\ HandlesAt["close"] = {"state"} /\ HandlesAt["query"] = {}
  /\ HandlesAt["param"] = {"store", "message"} /\ HandlesAt["find"] = {"store", "message"}
  /\ HandlesAt["copy"] = {"store", "message", "context"}
  /\ HandlesAt["release"] = {"store", "message"}
  /\ HandlesAt["text"] = {"code"} /\ HandlesAt["requirement"] = {"code", "text"}
  /\ HandlesAt["validity"] = {"code", "text", "requirement"}
  /\ HandlesAt["error"] = {"code"} /\ HandlesAt["judge"] = {"code"}
  /\ HandlesAt["team"] = {"code"} /\ HandlesAt["value"] = {"code", "information"}
BY DEF HandlesAt

\* Nothing was seen before a call.
LEMMA BlankIsEmpty ==
  /\ Blank.found = {} /\ DOMAIN Blank = {"trust", "cert", "found"}
BY DEF Blank

\* A probe that was not asked holds nothing.
LEMMA SignerInitHolds == SignerInit => SignerInv
BY PointNames, BlankIsEmpty DEF SignerInit, SignerInv

\* A call that ends holds nothing and has seen nothing.
LEMMA EndKeeps ==
  ASSUME SignerInv, NEW from, NEW is, NEW trust, NEW holds, Ends(from, is, trust, holds),
         holds = {}
  PROVE  SignerInv'
BY PointNames, BlankIsEmpty DEF SignerInv, Ends

\* Every call of Windows leaves what the next one gives back.
LEMMA WindowsKeeps ==
  ASSUME SignerInv,
         \/ WindowsPath \/ WindowsVerify \/ WindowsCloseState \/ WindowsQuery
         \/ WindowsParam \/ WindowsFind \/ WindowsCopy \/ WindowsRelease
  PROVE  SignerInv'
<1>1. CASE WindowsPath
  <2>1. CASE Ends("begun", "Failed", "none", handles)
    BY <2>1, EndKeeps, PointNames DEF SignerInv, Ends
  <2>2. CASE Goes("begun", IF asked = "identity" THEN "verify" ELSE "query", seen, handles)
    BY <1>1, <2>2, PointNames DEF SignerInv, WindowsPath, Goes
  <2> QED BY <1>1, <2>1, <2>2 DEF WindowsPath
<1>2. CASE WindowsVerify
  BY <1>2, PointNames, BlankIsEmpty DEF SignerInv, WindowsVerify, Goes
<1>3. CASE WindowsCloseState
  BY <1>3, PointNames DEF SignerInv, WindowsCloseState, Goes
<1>4. CASE WindowsQuery
  <2>1. CASE Ends("query", WindowsAnswer({}), WindowsTrusted, handles)
    <3>1. handles = {}
      BY <2>1, PointNames DEF SignerInv, Ends
    <3> QED BY <2>1, <3>1, EndKeeps
  <2>2. CASE Goes("query", "param", [seen EXCEPT !.cert = file.cert],
                  handles \cup {"store", "message"})
    BY <1>4, <2>2, PointNames, BlankIsEmpty DEF SignerInv, WindowsQuery, Goes
  <2> QED BY <1>4, <2>1, <2>2 DEF WindowsQuery
<1>5. CASE WindowsParam
  BY <1>5, PointNames DEF SignerInv, WindowsParam, Goes
<1>6. CASE WindowsFind
  BY <1>6, PointNames DEF SignerInv, WindowsFind, Goes
<1>7. CASE WindowsCopy
  <2>1. PICK found \in {{}, {seen.cert}} :
          Goes("copy", "release", [seen EXCEPT !.found = found], handles \ {"context"})
    BY <1>7 DEF WindowsCopy
  <2>2. /\ seen'.found = found /\ seen'.cert = seen.cert /\ DOMAIN seen' = DOMAIN Blank
    BY <2>1, BlankIsEmpty DEF SignerInv, Goes
  <2>3. point' = "release" /\ handles' = {"store", "message"} /\ system' = system
        /\ system = "windows"
    BY <1>7, <2>1, PointNames DEF SignerInv, Goes, WindowsCopy
  <2> QED BY <2>1, <2>2, <2>3, PointNames DEF SignerInv
<1>8. CASE WindowsRelease
  <2>1. Ends("release", WindowsAnswer(seen.found), WindowsTrusted,
             handles \ {"message", "store"})
    BY <1>8 DEF WindowsRelease, Released
  <2>2. handles \ {"message", "store"} = {}
    BY <2>1, PointNames DEF SignerInv, Ends
  <2> QED BY <2>1, <2>2, EndKeeps
<1> QED BY <1>1, <1>2, <1>3, <1>4, <1>5, <1>6, <1>7, <1>8

\* The verdict of macOS is of the file, and the file of macOS stays what it is.
LEMMA MacKeeps ==
  ASSUME SignerInv,
         \/ MacAcquire \/ MacText \/ MacRequirement \/ MacValidity \/ MacError
         \/ MacJudge \/ MacInformation \/ MacTeam
  PROVE  SignerInv'
<1>1. CASE MacAcquire
  <2>1. CASE Ends("begun", "Failed", "none", handles)
    BY <2>1, EndKeeps, PointNames DEF SignerInv, Ends
  <2>2. CASE Goes("begun", "text", seen, handles \cup {"code"})
    BY <1>1, <2>2, PointNames DEF SignerInv, MacAcquire, Goes
  <2> QED BY <1>1, <2>1, <2>2 DEF MacAcquire
<1>2. CASE MacText
  BY <1>2, PointNames DEF SignerInv, MacText, Goes
<1>3. CASE MacRequirement
  BY <1>3, PointNames DEF SignerInv, MacRequirement, Goes
<1>4. CASE MacValidity
  <2>1. PICK status \in Statuses :
          Goes("validity",
               CASE MacVerdict(status) = "Error" -> "error"
                 [] MacVerdict(status) # "Error" ->
                      IF asked = "identity" THEN "team" ELSE "judge",
               [seen EXCEPT !.trust =
                  IF MacVerdict(status) = "Pass" THEN "Accepted" ELSE "Rejected"],
               handles \ {"text", "requirement"})
    BY <1>4 DEF MacValidity
  <2>2. handles' = {"code"} /\ system = "macos"
        /\ UNCHANGED <<system, file, loaded, asked, result>>
    BY <1>4, <2>1, PointNames DEF SignerInv, Goes, MacValidity
  <2>3. DOMAIN seen' = DOMAIN Blank
    BY <2>1, BlankIsEmpty DEF SignerInv, Goes
  <2>4. CASE status = "other"
    <3>1. MacVerdict(status) = "Error"
      BY <2>4 DEF MacVerdict
    <3>2. point' = "error"
      BY <2>1, <3>1 DEF Goes
    <3> QED BY <2>2, <2>3, <3>2, PointNames DEF SignerInv
  <2>5. CASE status # "other"
    <3>1. /\ MacVerdict(status) # "Error"
          /\ MacVerdict(status) = "Pass" <=> status = "success"
      BY <2>1, <2>5 DEF MacVerdict, Statuses
    <3>2. point' = IF asked = "identity" THEN "team" ELSE "judge"
      BY <2>1, <3>1 DEF Goes
    <3>3. seen'.trust = IF status = "success" THEN "Accepted" ELSE "Rejected"
      BY <2>1, <3>1, BlankIsEmpty DEF SignerInv, Goes
    <3>4. status = "success" <=> file.trust = "Accepted"
      BY <2>1, <2>5 DEF Statuses
    <3> QED BY <2>2, <2>3, <3>2, <3>3, <3>4, PointNames DEF SignerInv
  <2> QED BY <2>4, <2>5
<1>5. CASE MacError
  BY <1>5, EndKeeps, PointNames DEF SignerInv, MacError, Ends
<1>6. CASE MacJudge
  <2>1. handles \ {"code"} = {}
    BY <1>6, PointNames DEF SignerInv, MacJudge, Ends
  <2> QED BY <1>6, <2>1, EndKeeps DEF MacJudge
<1>7. CASE MacInformation
  <2>1. CASE Goes("team", "error", seen, handles)
    BY <1>7, <2>1, PointNames DEF SignerInv, MacInformation, Goes
  <2>2. CASE Goes("team", "value", seen, handles \cup {"information"})
    BY <1>7, <2>2, PointNames DEF SignerInv, MacInformation, Goes
  <2> QED BY <1>7, <2>1, <2>2 DEF MacInformation
<1>8. CASE MacTeam
  <2>1. Ends("value", "Identity", seen.trust, handles \ {"information", "code"})
    BY <1>8 DEF MacTeam, MacReleased
  <2>2. handles \ {"information", "code"} = {}
    BY <2>1, PointNames DEF SignerInv, Ends
  <2> QED BY <2>1, <2>2, EndKeeps
<1> QED BY <1>1, <1>2, <1>3, <1>4, <1>5, <1>6, <1>7, <1>8

\* A call of any system, the host that asks for it, and the file that is replaced.
LEMMA SignerStepKeeps == SignerInv /\ [SignerNext]_signerVars => SignerInv'
<1> SUFFICES ASSUME SignerInv, [SignerNext]_signerVars PROVE SignerInv'
  OBVIOUS
<1>1. CASE MatchUnasked
  BY <1>1, EndKeeps, PointNames DEF SignerInv, MatchUnasked, Ends
<1>2. CASE Begin
  BY <1>2, PointNames DEF SignerInv, Begin
<1>3. CASE ReplaceFile
  BY <1>3, PointNames DEF SignerInv, ReplaceFile
<1>4. CASE IosIdentity
  <2>1. DOMAIN seen' = DOMAIN Blank
    BY <1>4, BlankIsEmpty DEF IosIdentity
  <2>2. /\ point' = "idle" /\ handles' = handles /\ point = "begun"
        /\ system = "ios" /\ UNCHANGED <<system, file, loaded, asked>>
    BY <1>4 DEF IosIdentity
  <2> QED BY <2>1, <2>2, PointNames DEF SignerInv
<1>5. CASE UNCHANGED signerVars
  BY <1>5 DEF SignerInv, signerVars
<1> QED BY <1>1, <1>2, <1>3, <1>4, <1>5, WindowsKeeps, MacKeeps DEF SignerNext

\* The probe gives back every handle of the system on every path through its errors,
\* for every set of certificates (crypt.rs:94-215, wintrust.rs:156-187,
\* security.rs:75-197).
THEOREM HandlesBack == SignerSpec => []HandlesReturned
<1>1. SignerSpec => []SignerInv
  BY SignerInitHolds, SignerStepKeeps, PTL DEF SignerSpec
<1>2. SignerInv => HandlesReturned
  BY PointNames DEF SignerInv, HandlesReturned
<1> QED BY <1>1, <1>2, PTL

\* No failed call of macOS passes for a rejected image or for another signer, none of
\* Windows passes for another signer or for an accepted image, and every accepted image
\* was accepted by the system (security.rs:30-47, macos/identity.rs:28-39,
\* windows/identity.rs:36-90, wintrust.rs:182-186). A failed call of Windows may pass
\* for a rejected image.
THEOREM AnswersGiven == SignerSpec => AnswersAreGiven
<1>1. SignerSpec => []SignerInv
  BY SignerInitHolds, SignerStepKeeps, PTL DEF SignerSpec
<1> DEFINE Given ==
      system # "ios" /\ point # "idle" /\ point' = "idle" /\ result'.is # "Failed" =>
        /\ system = "macos" =>
             IF result'.is = "Same" \/ result'.trust = "Accepted"
             THEN file.trust = "Accepted" ELSE file.trust # "Accepted"
        /\ system = "windows" /\ asked = "match" => seen.found = {seen.cert}
        /\ system = "windows" /\ asked = "identity" =>
             (result'.trust = "Accepted" <=> seen.trust = "Accepted")
<1>2. SignerInv /\ [SignerNext]_signerVars => [Given]_signerVars
  <2> SUFFICES ASSUME SignerInv, SignerNext, system # "ios", point # "idle",
                      point' = "idle", result'.is # "Failed"
               PROVE  Given
    BY DEF signerVars
  <2>0. /\ WindowsTrust(seen.trust) = "Accepted" <=> seen.trust = "Accepted"
        /\ asked = "identity" => WindowsTrusted = WindowsTrust(seen.trust)
    BY DEF WindowsTrust, WindowsTrusted
  <2>1. CASE WindowsQuery
    BY <2>0, <2>1 DEF WindowsQuery, Ends, Goes, WindowsAnswer
  <2>2. CASE WindowsRelease
    BY <2>0, <2>2, PointNames DEF WindowsRelease, Ends, WindowsAnswer, SignerInv
  <2>3. CASE MacJudge
    BY <2>3 DEF MacJudge, Ends, SignerInv
  <2>4. CASE MacTeam
    BY <2>4 DEF MacTeam, Ends, Goes, SignerInv
  <2>5. CASE WindowsPath
    BY <2>5 DEF WindowsPath, Ends, Goes
  <2>6. CASE MacAcquire \/ MacError
    BY <2>6 DEF MacAcquire, MacError, Ends, Goes
  <2>7. ~ (\/ WindowsVerify \/ WindowsCloseState \/ WindowsParam \/ WindowsFind
           \/ WindowsCopy \/ MacText \/ MacRequirement \/ MacInformation)
    BY DEF WindowsVerify, WindowsCloseState, WindowsParam, WindowsFind, WindowsCopy,
           MacText, MacRequirement, MacInformation, Goes
  <2>8. ~MacValidity
    <3> SUFFICES ASSUME MacValidity PROVE FALSE
      OBVIOUS
    <3>1. PICK status \in Statuses :
            point' = CASE MacVerdict(status) = "Error" -> "error"
                       [] MacVerdict(status) # "Error" ->
                            IF asked = "identity" THEN "team" ELSE "judge"
      BY DEF MacValidity, Goes
    <3> QED BY <3>1
  <2>9. ~ (MatchUnasked \/ Begin \/ ReplaceFile \/ IosIdentity)
    BY DEF MatchUnasked, Begin, ReplaceFile, IosIdentity
  <2> QED BY <2>1, <2>2, <2>3, <2>4, <2>5, <2>6, <2>7, <2>8, <2>9 DEF SignerNext
<1> QED BY <1>1, <1>2, PTL DEF SignerSpec, AnswersAreGiven

-----------------------------------------------------------------------------
(* The signature of an iOS image.                                          *)

\* The place that fit() computes lies in the segment (macho/image.rs:104-125).
LEMMA FitInside ==
  ASSUME NEW linkedit, NEW signature, NEW slide \in Int,
         linkedit.a \in Nat, linkedit.b \in Nat, linkedit.c \in Nat,
         signature.a \in Nat, signature.b \in Nat,
         NEW layout \in fit(linkedit, signature, slide)
  PROVE  /\ linkedit.a + slide <= layout.address
         /\ layout.address + layout.bytes <= linkedit.a + slide + linkedit.c
<1>1. /\ signature.a >= linkedit.b
      /\ signature.a + signature.b <= linkedit.b + linkedit.c
  BY SignerAssumption DEF fit
<1>2. layout = [address |-> linkedit.a - linkedit.b + signature.a + slide,
                bytes |-> signature.b]
  BY DEF fit
<1>3. /\ layout.address = linkedit.a - linkedit.b + signature.a + slide
      /\ layout.bytes = signature.b
  BY <1>2
<1> QED BY <1>1, <1>3

\* The one segment of an image whose layout is read.
LEMMA LayoutInside ==
  ASSUME NEW image \in CodeImage,
         NEW layout \in signature_layout(image.commands, image.count, image.slide)
  PROVE  \E k \in DOMAIN image.commands :
           /\ image.commands[k].kind = "linkedit"
           /\ image.commands[k].a + image.slide <= layout.address
           /\ layout.address + layout.bytes
                <= image.commands[k].a + image.slide + image.commands[k].c
<1> DEFINE commands == image.commands
           of(kind) == {k \in DOMAIN commands : commands[k].kind = kind}
<1>1. /\ Cardinality(of("linkedit")) = 1 /\ Cardinality(of("signature")) = 1
      /\ layout \in fit(commands[Min(of("linkedit"))], commands[Min(of("signature"))],
                        image.slide)
  BY DEF signature_layout
<1>2. of("linkedit") # {} /\ of("signature") # {}
  <2>1. Cardinality({}) = 0
    BY FS_EmptySet
  <2> HIDE DEF of
  <2> QED BY <1>1, <2>1
<1>3. DOMAIN commands \subseteq Nat
  BY DEF CodeImage
<1>4. Min(of("linkedit")) \in of("linkedit") /\ Min(of("signature")) \in of("signature")
  <2>1. of("linkedit") \in SUBSET Nat /\ of("signature") \in SUBSET Nat
    BY <1>3
  <2> HIDE DEF of
  <2> QED BY <1>2, <2>1, MinOfSet
<1> DEFINE l == Min(of("linkedit"))
           s == Min(of("signature"))
<1>5. /\ l \in DOMAIN commands /\ s \in DOMAIN commands
      /\ commands[l].kind = "linkedit"
      /\ layout \in fit(commands[l], commands[s], image.slide)
  BY <1>1, <1>4
<1> HIDE DEF l, s
<1>6. /\ commands[l].a \in Nat /\ commands[l].b \in Nat /\ commands[l].c \in Nat
      /\ commands[s].a \in Nat /\ commands[s].b \in Nat /\ image.slide \in Int
  <2> DEFINE Command == [kind : {"linkedit", "signature", "other"}, whole : BOOLEAN,
                         a : Nat, b : Nat, c : Nat]
  <2>1. image.commands \in Seq(Command) /\ image.slide \in Int
    BY DEF CodeImage
  <2> HIDE DEF Command
  <2>2. image.commands[l] \in Command /\ image.commands[s] \in Command
    BY <1>5, <2>1
  <2> USE DEF Command
  <2>3. \A x \in Command : x.a \in Nat /\ x.b \in Nat /\ x.c \in Nat
    OBVIOUS
  <2> HIDE DEF Command
  <2> QED BY <2>1, <2>2, <2>3
<1>7. /\ commands[l].a + image.slide <= layout.address
      /\ layout.address + layout.bytes <= commands[l].a + image.slide + commands[l].c
  BY <1>5, <1>6, FitInside
<1> QED BY <1>5, <1>7

\* The value of a key is one text, behind the key (macho/entitlements.rs:33-93).
LEMMA ValueBehindKey ==
  ASSUME NEW plist \in Seq(Nat), NEW key, NEW v \in string_value(plist, key)
  PROVE  /\ string_value(plist, key) = {v}
         /\ \E k \in DOMAIN plist : \E j \in 1 .. k - 1 : plist[j] = key /\ plist[k] = v
<1> DEFINE keys == {k \in DOMAIN plist : plist[k] = key}
           texts == {k \in DOMAIN plist : IsText(plist[k]) /\ \E j \in keys : j < k}
<1>1. texts # {} /\ string_value(plist, key) = {plist[Min(texts)]}
  BY DEF string_value
<1>2. texts \in SUBSET Nat
  OBVIOUS
<1>3. Min(texts) \in texts
  <2> HIDE DEF texts
  <2> QED BY <1>1, <1>2, MinOfSet
<1> DEFINE k == Min(texts)
<1>4. k \in texts /\ v = plist[k]
  BY <1>1, <1>3
<1> HIDE DEF k
<1>5. PICK j \in keys : j < k
  BY <1>4
<1>6. j \in 1 .. k - 1 /\ plist[j] = key /\ k \in DOMAIN plist
  BY <1>4, <1>5
<1> QED BY <1>1, <1>4, <1>6

\* A team is named by its key, or by the App ID behind its own key.
LEMMA TeamOfPlist ==
  ASSUME NEW plist \in Seq(Nat), NEW t \in team_identifier(plist)
  PROVE  /\ team_identifier(plist) = {t} /\ t \in 11 .. 19
         /\ \E k \in DOMAIN plist : \E j \in 1 .. k - 1 :
              \/ plist[j] = TEAM_KEY /\ plist[k] = t
              \/ plist[j] = APP_ID_KEY /\ plist[k] = t + 10
<1> DEFINE named == {x \in string_value(plist, TEAM_KEY) : acceptable(x)}
<1>1. CASE named # {}
  <2>1. t \in named /\ team_identifier(plist) = named
    BY <1>1 DEF team_identifier
  <2>2. t \in string_value(plist, TEAM_KEY) /\ t \in 11 .. 19
    BY <2>1 DEF acceptable
  <2>3. string_value(plist, TEAM_KEY) = {t}
    BY <2>2, ValueBehindKey
  <2>4. named = {t}
    BY <2>1, <2>3
  <2>5. \E k \in DOMAIN plist : \E j \in 1 .. k - 1 : plist[j] = TEAM_KEY /\ plist[k] = t
    BY <2>2, ValueBehindKey
  <2> HIDE DEF named
  <2> QED BY <2>1, <2>2, <2>4, <2>5
<1>2. CASE named = {}
  <2>1. team_identifier(plist) = UNION {Prefix(id) : id \in string_value(plist, APP_ID_KEY)}
    BY <1>2 DEF team_identifier
  <2>2. PICK id \in string_value(plist, APP_ID_KEY) : t \in Prefix(id)
    BY <2>1
  <2>3. string_value(plist, APP_ID_KEY) = {id}
    BY <2>2, ValueBehindKey
  <2>4. id \in 21 .. 29 /\ t = id - 10 /\ Prefix(id) = {t}
    BY <2>2 DEF Prefix
  <2>5. team_identifier(plist) = {t} /\ t \in 11 .. 19 /\ id = t + 10
    BY <2>1, <2>3, <2>4
  <2>6. \E k \in DOMAIN plist : \E j \in 1 .. k - 1 :
          plist[j] = APP_ID_KEY /\ plist[k] = id
    BY <2>2, ValueBehindKey
  <2> QED BY <2>5, <2>6
<1> QED BY <1>1, <1>2

\* The cells of a part are cells of the whole.
LEMMA PartOfCells ==
  ASSUME NEW cells \in Seq(Nat), NEW from \in Nat, NEW to \in Nat,
         NEW part \in Part(cells, from, to)
  PROVE  /\ Part(cells, from, to) = {part} /\ part \in Seq(Nat)
         /\ Len(part) = to - from /\ to <= Len(cells)
         /\ \A k \in DOMAIN part : from + k \in DOMAIN cells /\ part[k] = cells[from + k]
<1>1. from <= to /\ to <= Len(cells) /\ part = SubSeq(cells, from + 1, to)
      /\ Part(cells, from, to) = {part}
  BY DEF Part
<1>2. part \in Seq(Nat) /\ Len(part) = to - from
  BY <1>1
<1>3. ASSUME NEW k \in DOMAIN part
      PROVE  from + k \in DOMAIN cells /\ part[k] = cells[from + k]
  <2>1. k \in 1 .. to - from
    BY <1>2
  <2>2. part[k] = cells[from + 1 + k - 1]
    BY <1>1, <2>1
  <2> QED BY <1>1, <2>1, <2>2, SMTT(30)
<1> QED BY <1>1, <1>2, <1>3

\* There is one plist or none, and its cells are cells of the signature
\* (macho/signature.rs:44-84).
LEMMA PlistOfSignature ==
  ASSUME NEW signature \in Seq(Nat), NEW plist \in entitlements(signature)
  PROVE  /\ entitlements(signature) = {plist} /\ plist \in Seq(Nat)
         /\ \E n \in Nat : \A k \in DOMAIN plist :
              n + k \in DOMAIN signature /\ plist[k] = signature[n + k]
<1> DEFINE entry(i) == SUPERBLOB_HEADER + i * INDEX_ENTRY
           slots(w) == {s \in 0 .. w[3] - 1 : entry(s) < Len(w)
                          /\ w[entry(s) + 1] = ENTITLEMENTS_SLOT}
           readable(w) == \A s \in 0 .. w[3] - 1 :
                            (slots(w) = {} \/ s <= Min(slots(w))) => entry(s) + 2 <= Len(w)
           blob(w) == w[entry(Min(slots(w))) + 2]
           found(w) == IF slots(w) = {} \/ ~readable(w) THEN {}
                       ELSE IF blob(w) + HEADER > Len(w) THEN {}
                       ELSE IF w[blob(w) + 1] # ENTITLEMENTS_MAGIC THEN {}
                       ELSE Part(w, blob(w) + HEADER, blob(w) + w[blob(w) + 2])
           wholes == {w \in Part(signature, 0, signature[2]) : Len(w) >= SUPERBLOB_HEADER}
<1>1. /\ Len(signature) >= SUPERBLOB_HEADER
      /\ entitlements(signature) = UNION {found(w) : w \in wholes}
  BY DEF entitlements, SUPERBLOB_HEADER
<1>2. PICK w \in wholes : plist \in found(w)
  <2> HIDE DEF found, wholes
  <2> QED BY <1>1
<1>3. Len(signature) \in Nat /\ signature[2] \in Nat
  BY <1>1 DEF SUPERBLOB_HEADER
<1>4. w \in Part(signature, 0, signature[2]) /\ Len(w) >= SUPERBLOB_HEADER
  BY <1>2
<1>5. /\ Part(signature, 0, signature[2]) = {w} /\ w \in Seq(Nat)
      /\ \A k \in DOMAIN w : 0 + k \in DOMAIN signature /\ w[k] = signature[0 + k]
  BY <1>3, <1>4, PartOfCells
<1>6. wholes = {w}
  BY <1>4, <1>5
<1>7. entitlements(signature) = found(w)
  <2> HIDE DEF found, wholes
  <2> QED BY <1>1, <1>6
<1>8. /\ blob(w) \in Nat /\ blob(w) + HEADER <= Len(w)
      /\ found(w) = Part(w, blob(w) + HEADER, blob(w) + w[blob(w) + 2])
  <2>1. slots(w) # {} /\ readable(w)
    BY <1>2
  <2>2. ~(blob(w) + HEADER > Len(w))
    BY <1>2
  <2>3. found(w) = Part(w, blob(w) + HEADER, blob(w) + w[blob(w) + 2])
    BY <1>2
  <2> DEFINE m == Min(slots(w))
  <2>4. m \in slots(w)
    <3>1. slots(w) \in SUBSET Nat
      BY <1>4, <1>5 DEF SUPERBLOB_HEADER
    <3> HIDE DEF slots
    <3> QED BY <2>1, <3>1, MinOfSet
  <2>5. m \in 0 .. w[3] - 1 /\ m \in Nat
    BY <2>4, <1>4, <1>5 DEF SUPERBLOB_HEADER
  <2>6. entry(m) + 2 <= Len(w)
    BY <2>1, <2>5
  <2>7. blob(w) \in Nat
    <3> HIDE DEF m
    <3>1. entry(m) + 2 \in DOMAIN w
      BY <2>5, <2>6, <1>5 DEF SUPERBLOB_HEADER, INDEX_ENTRY
    <3>2. w[entry(m) + 2] \in Nat
      BY <3>1, <1>5
    <3> QED BY <3>2 DEF m
  <2> HIDE DEF slots, readable, blob, found
  <2> QED BY <2>2, <2>3, <2>7, <1>5 DEF HEADER
<1> DEFINE from == blob(w) + HEADER
           to == blob(w) + w[blob(w) + 2]
<1>9. from \in Nat /\ to \in Nat /\ plist \in Part(w, from, to)
      /\ entitlements(signature) = Part(w, from, to)
  <2>1. blob(w) + 2 \in DOMAIN w
    <3> HIDE DEF blob
    <3> QED BY <1>5, <1>8 DEF HEADER
  <2>2. w[blob(w) + 2] \in Nat
    <3> HIDE DEF blob
    <3> QED BY <1>5, <2>1
  <2> HIDE DEF blob, found
  <2> QED BY <1>2, <1>7, <1>8, <2>2 DEF HEADER
<1> HIDE DEF from, to
<1>10. /\ Part(w, from, to) = {plist} /\ plist \in Seq(Nat)
       /\ \A k \in DOMAIN plist : from + k \in DOMAIN w /\ plist[k] = w[from + k]
  BY <1>5, <1>9, PartOfCells
<1>11. \A k \in DOMAIN plist :
         from + k \in DOMAIN signature /\ plist[k] = signature[from + k]
  <2>1. \A k \in DOMAIN w : k \in DOMAIN signature /\ w[k] = signature[k]
    BY <1>5
  <2> QED BY <1>10, <2>1
<1> QED BY <1>9, <1>10, <1>11

\* A team that an image states is one team, and stands in its signature.
LEMMA TeamOfImage ==
  ASSUME NEW image \in CodeImage, team(image, TRUE) # {}
  PROVE  \E t \in 11 .. 19, k \in DOMAIN image.signature :
           /\ team(image, TRUE) = {t}
           /\ \E j \in 1 .. k - 1 :
                \/ image.signature[j] = TEAM_KEY /\ image.signature[k] = t
                \/ image.signature[j] = APP_ID_KEY /\ image.signature[k] = t + 10
<1> DEFINE signature == image.signature
           teams == UNION {team_identifier(plist) : plist \in entitlements(signature)}
<1>1. team(image, TRUE) = teams
  <2> DEFINE layouts == signature_layout(image.commands, image.count, image.slide)
  <2>1. team(image, TRUE) = UNION {teams : layout \in layouts}
    BY DEF team
  <2> HIDE DEF teams, layouts
  <2> QED BY <2>1
<1>2. PICK plist \in entitlements(signature) : team_identifier(plist) # {}
  <2>1. PICK t \in teams : TRUE
    BY <1>1
  <2> QED BY <2>1
<1>3. PICK t \in team_identifier(plist) : TRUE
  BY <1>2
<1>4. signature \in Seq(Nat)
  BY DEF CodeImage
<1>5. entitlements(signature) = {plist} /\ plist \in Seq(Nat)
  BY <1>4, <1>2, PlistOfSignature
<1>6. PICK n \in Nat : \A k \in DOMAIN plist :
        n + k \in DOMAIN signature /\ plist[k] = signature[n + k]
  BY <1>4, <1>2, PlistOfSignature
<1>7. team_identifier(plist) = {t} /\ t \in 11 .. 19
  BY <1>3, <1>5, TeamOfPlist
<1>8. PICK k \in DOMAIN plist : \E j \in 1 .. k - 1 :
         \/ plist[j] = TEAM_KEY /\ plist[k] = t
         \/ plist[j] = APP_ID_KEY /\ plist[k] = t + 10
  BY <1>3, <1>5, TeamOfPlist
<1>9. PICK j \in 1 .. k - 1 :
        \/ plist[j] = TEAM_KEY /\ plist[k] = t
        \/ plist[j] = APP_ID_KEY /\ plist[k] = t + 10
  BY <1>8
<1>10. teams = {t}
  BY <1>5, <1>7
<1>11. j \in DOMAIN plist /\ k \in Nat
  BY <1>5, <1>9
<1>12. /\ n + k \in DOMAIN signature /\ n + j \in 1 .. (n + k) - 1
       /\ signature[n + k] = plist[k] /\ signature[n + j] = plist[j]
  <2>1. n + j \in 1 .. (n + k) - 1
    BY <1>9, <1>11
  <2> QED BY <1>6, <1>9, <1>11, <2>1
<1> HIDE DEF teams
<1> QED BY <1>1, <1>7, <1>9, <1>10, <1>12

\* Only the one step of iOS changes what iOS found, and the image stays.
LEMMA IosStepKeeps == SignerInv /\ IosInv /\ [SignerNext]_signerVars => IosInv'
<1> SUFFICES ASSUME SignerInv, IosInv, [SignerNext]_signerVars PROVE IosInv'
  OBVIOUS
<1>1. loaded' = loaded /\ system' = system
  BY DEF SignerNext, signerVars, MatchUnasked, Begin, WindowsPath, WindowsVerify,
         WindowsCloseState, WindowsQuery, WindowsParam, WindowsFind, WindowsCopy,
         WindowsRelease, ReplaceFile, MacAcquire, MacText, MacRequirement, MacValidity,
         MacError, MacJudge, MacInformation, MacTeam, IosIdentity, Goes, Ends
<1>2. ASSUME system = "ios" PROVE seen'.found \in {{}, team(loaded, TRUE)}
  <2>1. CASE IosIdentity
    <3>1. PICK mapped \in BOOLEAN :
            seen' = [Blank EXCEPT !.found = team(loaded, mapped)]
      BY <2>1 DEF IosIdentity
    <3>2. seen'.found = team(loaded, mapped)
      BY <3>1, BlankIsEmpty
    <3>3. CASE mapped = FALSE
      <4>1. team(loaded, FALSE) = {}
        BY DEF team
      <4> QED BY <3>2, <3>3, <4>1
    <3> QED BY <3>2, <3>3
  <2>2. CASE MatchUnasked
    BY <2>2, BlankIsEmpty DEF MatchUnasked, Ends
  <2>3. CASE Begin \/ UNCHANGED signerVars
    BY <1>2, <2>3 DEF Begin, signerVars, IosInv
  <2> QED
    BY <1>2, <2>1, <2>2, <2>3
       DEF SignerNext, WindowsPath, WindowsVerify, WindowsCloseState, WindowsQuery,
           WindowsParam, WindowsFind, WindowsCopy, WindowsRelease, ReplaceFile,
           MacAcquire, MacText, MacRequirement, MacValidity, MacError, MacJudge, MacInformation,
           MacTeam
<1> QED BY <1>1, <1>2 DEF IosInv

\* Whatever the load commands and the signature of an image hold, the iOS probe
\* reads inside the segment of the signature, and a team that it names stands there
\* behind its key (macho/image.rs:104-125, macho/signature.rs:44-84,
\* macho/entitlements.rs:33-93).
THEOREM SignatureRead == SignerSpec => []IosSignatureRead
<1>1. SignerInit => SignerInv /\ IosInv
  BY SignerInitHolds, SignerAssumption, BlankIsEmpty DEF SignerInit, IosInv
<1>2. SignerSpec => [](SignerInv /\ IosInv)
  BY <1>1, SignerStepKeeps, IosStepKeeps, PTL DEF SignerSpec
<1>3. IosInv => IosSignatureRead
  <2> SUFFICES ASSUME IosInv PROVE IosSignatureRead
    OBVIOUS
  <2>1. loaded \in CodeImage
    BY SignerAssumption DEF IosInv
  <2>2. SignatureInsideSegment
    BY <2>1, LayoutInside DEF SignatureInsideSegment
  <2>3. TeamIsNamed
    BY <2>1, TeamOfImage DEF TeamIsNamed, IosInv
  <2> QED BY <2>2, <2>3 DEF IosSignatureRead
<1> QED BY <1>2, <1>3, PTL

-----------------------------------------------------------------------------
(* The machine, the system build, the boot, the tracer and the worker.     *)

\* The sources that a machine has, by the probe that reads them.
LEMMA SourcesOf ==
  ASSUME NEW m \in Machine
  PROVE  /\ m.kind \in {"build", "board", "boot", "dmi", "smbios", "apple", "windows",
                        "linux", "jvm"}
         /\ m.kind = "build" =>
              m \in [kind : {"build"}, debuggable : Words({"0", "1"}),
                     tags : Words({"release-keys", "test-keys", "dev-keys"})]
         /\ m.kind = "board" =>
              m \in [kind : {"board"}, boot : Words({"0", "1"}),
                     shapes : {{}, {"nosdcard"}, {"nosdcard", "emulator"}},
                     board : Words({"ranchu", "goldfish", "tensor"})]
         /\ m.kind = "boot" =>
              m \in [kind : {"boot"},
                     boot : Words({"green", "yellow", "orange", "red", "x"}),
                     vbmeta : Words({"locked", "unlocked", "x"}),
                     flash : Words({"0", "1", "x"})]
         /\ m.kind = "dmi" =>
              m \in [kind : {"dmi"}, manufacturer : {"absent", "denied", "monitor", "maker"},
                     product : {"absent", "denied", "monitor", "maker"},
                     virtio : {"absent", "denied", "empty", "device"}]
         /\ m.kind = "smbios" => m \in [kind : {"smbios"}, table : Tables]
         /\ m.kind = "apple" =>
              \/ m \in [kind : {"apple"}, os : {"MacOs"}, tracer : BOOLEAN,
                        stated : {"0", "1", "ENOENT", "error", "size"}]
              \/ m \in [kind : {"apple"}, os : {"Ios"}, tracer : BOOLEAN,
                        stated : {"iPhone", "iPad", "iPod", "arm64", "x86_64", "AppleTV",
                                  "error", "size", "binary", "empty"}]
         /\ m.kind = "windows" => m \in [kind : {"windows"}, tracer : BOOLEAN]
         /\ m.kind = "jvm" =>
              m \in [kind : {"jvm"}, given : Addresses \cup {0}, running : Addresses \cup {0}]
BY DEF Machine

\* A property that a probe reads is the property, or one that it lost or that is
\* empty.
LEMMA FieldRead ==
  ASSUME NEW field, NEW lost, NEW value, ReadsField(field, lost) = {value}
  PROVE  field \notin lost /\ machine[field] = value /\ value # {}
BY DEF ReadsField, property_read

\* A released build was read and is one (device.rs:71-88).
LEMMA ReleasedIsRead ==
  ASSUME NEW debuggable, NEW tags, build_judge(debuggable, tags) = "Released"
  PROVE  /\ debuggable # {} /\ debuggable # {{"1"}} /\ tags # {}
         /\ \A words \in tags : words \cap {"test-keys", "dev-keys"} = {}
BY DEF build_judge

\* Hardware has a board that was read (emulation.rs:85-105).
LEMMA HardwareIsRead ==
  ASSUME NEW boot, NEW shapes, NEW board, emulation_judge(boot, shapes, board) = "Hardware"
  PROVE  /\ boot # {{"1"}} /\ board # {}
         /\ \A s \in shapes : "emulator" \notin s
         /\ \A name \in board : name \notin VirtualBoards
BY DEF emulation_judge

\* A locked state comes from one of the two sources, and the other one agrees or
\* states nothing (verified_boot.rs:80-132).
LEMMA LockedIsStated ==
  ASSUME NEW vbmeta, NEW flash, lock_state(vbmeta, flash) = "Locked"
  PROVE  /\ vbmeta = {{"locked"}} \/ flash = {{"1"}}
         /\ vbmeta \in {{}, {{"locked"}}} /\ flash \in {{}, {{"1"}}}
<1> DEFINE primary == parse_lock(vbmeta, "locked", "unlocked")
           compatibility == parse_lock(flash, "1", "0")
           stated == {primary, compatibility} \ {"None"}
<1>1. /\ "Unknown" \notin stated /\ Cardinality(stated) = 1
      /\ (CHOOSE lock \in stated : TRUE) = "Locked"
  BY DEF lock_state
<1>2. IsFiniteSet(stated)
  <2>1. IsFiniteSet({primary} \cup {compatibility})
    <3> HIDE DEF primary, compatibility
    <3> QED BY FS_Singleton, FS_Union
  <2>2. stated \subseteq {primary} \cup {compatibility}
    OBVIOUS
  <2> HIDE DEF stated, primary, compatibility
  <2> QED BY <2>1, <2>2, FS_Subset
<1>3. PICK x : stated = {x}
  <2> HIDE DEF stated
  <2> QED BY <1>1, <1>2, FS_Singleton
<1>4. stated = {"Locked"}
  <2> HIDE DEF stated
  <2> QED BY <1>1, <1>3
<1>5. /\ primary \in {"None", "Locked"} /\ compatibility \in {"None", "Locked"}
      /\ primary = "Locked" \/ compatibility = "Locked"
  <2> HIDE DEF primary, compatibility
  <2> QED BY <1>4
<1>6. /\ primary = "Locked" => vbmeta = {{"locked"}}
      /\ primary = "None" => vbmeta = {}
  BY DEF parse_lock
<1>7. /\ compatibility = "Locked" => flash = {{"1"}}
      /\ compatibility = "None" => flash = {}
  BY DEF parse_lock
<1> HIDE DEF primary, compatibility
<1> QED BY <1>5, <1>6, <1>7

\* A verified boot is green and locked.
LEMMA VerifiedIsLocked ==
  ASSUME NEW boot, NEW vbmeta, NEW flash, boot_judge(boot, vbmeta, flash) = "Verified"
  PROVE  boot = {{"green"}} /\ lock_state(vbmeta, flash) = "Locked"
<1> DEFINE lock == lock_state(vbmeta, flash)
<1>1. boot_judge(boot, vbmeta, flash) =
        CASE lock = "Failed" -> "Failed"
          [] lock # "Failed" /\ boot \in {{{"yellow"}}, {{"red"}}} -> "Unverified"
          [] boot = {{"orange"}} /\ lock = "Unlocked" -> "Unverified"
          [] boot = {{"green"}} /\ lock = "Locked" -> "Verified"
          [] OTHER -> "Failed"
  BY DEF boot_judge
<1> HIDE DEF lock
<1>2. boot = {{"green"}} /\ lock = "Locked"
  BY <1>1
<1> QED BY <1>2 DEF lock

\* The properties of Android: a lost or empty property is no clean answer.
LEMMA AndroidKeeps ==
  ASSUME MachineInv, AndroidDevice \/ AndroidEmulation \/ AndroidVerifiedBoot
  PROVE  MachineInv'
<1>0. machine \in Machine /\ member \in Addresses \cup {0}
  BY DEF MachineInv, MachineTypeOK
<1>1. CASE AndroidDevice
  <2>1. PICK lost \in SUBSET {"debuggable", "tags"} :
          said' = [of |-> "device",
                   is |-> build_judge(ReadsField("debuggable", lost),
                                      ReadsField("tags", lost)), lost |-> lost]
    BY <1>1 DEF AndroidDevice, Says
  <2>2. machine.kind = "build" /\ UNCHANGED <<machine, call, member>>
    BY <1>1 DEF AndroidDevice, Says
  <2>3. said'.of = "device" /\ said'.is \in {"Development", "Failed", "Released"}
    BY <2>1 DEF build_judge
  <2>4. MachineTypeOK'
    BY <1>0, <2>2, <2>3 DEF MachineTypeOK, Observation, SystemBuild
  <2>5. CleanMachineIsClean'
    <3> SUFFICES ASSUME said'.is = "Released" PROVE BuildClean'
      BY <2>2, <2>3 DEF CleanMachineIsClean
    <3>1. build_judge(ReadsField("debuggable", lost), ReadsField("tags", lost)) = "Released"
      BY <2>1
    <3>2. /\ ReadsField("debuggable", lost) # {{"1"}} /\ ReadsField("debuggable", lost) # {}
          /\ ReadsField("tags", lost) # {}
          /\ \A words \in ReadsField("tags", lost) :
               words \cap {"test-keys", "dev-keys"} = {}
      BY <3>1, ReleasedIsRead
    <3>3. machine.debuggable \notin {{}, {"1"}} /\ "debuggable" \notin lost
      BY <3>2 DEF ReadsField, property_read
    <3>4. /\ machine.tags # {} /\ machine.tags \cap {"test-keys", "dev-keys"} = {}
          /\ "tags" \notin lost
      BY <3>2 DEF ReadsField, property_read
    <3>5. said'.lost = {}
      BY <2>1, <3>3, <3>4
    <3> QED BY <2>2, <3>3, <3>4, <3>5 DEF BuildClean
  <2> QED BY <2>2, <2>4, <2>5 DEF MachineInv, WorkerJoinsHostMachine
<1>2. CASE AndroidEmulation
  <2>1. PICK lost \in SUBSET {"boot", "shapes", "board"} :
          said' = [of |-> "emulation",
                   is |-> emulation_judge(ReadsField("boot", lost),
                                          ReadsField("shapes", lost),
                                          ReadsField("board", lost)), lost |-> lost]
    BY <1>2 DEF AndroidEmulation, Says
  <2>2. machine.kind = "board" /\ UNCHANGED <<machine, call, member>>
    BY <1>2 DEF AndroidEmulation, Says
  <2>3. said'.of = "emulation" /\ said'.is \in {"Simulated", "Failed", "Hardware"}
    BY <2>1 DEF emulation_judge
  <2>4. MachineTypeOK'
    BY <1>0, <2>2, <2>3 DEF MachineTypeOK, Observation, MachineHost
  <2>5. CleanMachineIsClean'
    <3> SUFFICES ASSUME said'.is = "Hardware" PROVE BoardClean'
      BY <2>2, <2>3 DEF CleanMachineIsClean
    <3>1. emulation_judge(ReadsField("boot", lost), ReadsField("shapes", lost),
                          ReadsField("board", lost)) = "Hardware"
      BY <2>1
    <3>2. /\ ReadsField("boot", lost) # {{"1"}} /\ ReadsField("board", lost) # {}
          /\ \A s \in ReadsField("shapes", lost) : "emulator" \notin s
          /\ \A name \in ReadsField("board", lost) : name \notin VirtualBoards
      BY <3>1, HardwareIsRead
    <3>3. machine.board \notin {{}} \cup VirtualBoards /\ "board" \notin lost
      BY <3>2 DEF ReadsField, property_read
    <3>4. "boot" \notin lost => machine.boot # {"1"}
      BY <3>2 DEF ReadsField, property_read
    <3>5. "shapes" \notin lost => "emulator" \notin machine.shapes
      BY <3>2 DEF ReadsField, property_read
    <3>6. said'.lost = lost
      BY <2>1
    <3> QED BY <2>2, <3>3, <3>4, <3>5, <3>6 DEF BoardClean
  <2> QED BY <2>2, <2>4, <2>5 DEF MachineInv, WorkerJoinsHostMachine
<1>3. CASE AndroidVerifiedBoot
  <2>1. PICK lost \in SUBSET {"boot", "vbmeta", "flash"} :
          said' = [of |-> "verified_boot",
                   is |-> boot_judge(ReadsField("boot", lost), ReadsField("vbmeta", lost),
                                     ReadsField("flash", lost)), lost |-> lost]
    BY <1>3 DEF AndroidVerifiedBoot, Says
  <2>2. machine.kind = "boot" /\ UNCHANGED <<machine, call, member>>
    BY <1>3 DEF AndroidVerifiedBoot, Says
  <2>3. said'.of = "verified_boot" /\ said'.is \in {"Unverified", "Failed", "Verified"}
    BY <2>1 DEF boot_judge
  <2>4. MachineTypeOK'
    BY <1>0, <2>2, <2>3 DEF MachineTypeOK, Observation, BootVerification
  <2>5. CleanMachineIsClean'
    <3> SUFFICES ASSUME said'.is = "Verified" PROVE BootClean'
      BY <2>2, <2>3 DEF CleanMachineIsClean
    <3>1. boot_judge(ReadsField("boot", lost), ReadsField("vbmeta", lost),
                     ReadsField("flash", lost)) = "Verified"
      BY <2>1
    <3>2. /\ ReadsField("boot", lost) = {{"green"}}
          /\ lock_state(ReadsField("vbmeta", lost), ReadsField("flash", lost)) = "Locked"
      BY <3>1, VerifiedIsLocked
    <3>3. machine.boot = {"green"} /\ "boot" \notin lost
      BY <3>2, FieldRead
    <3>4. /\ \/ ReadsField("vbmeta", lost) = {{"locked"}}
             \/ ReadsField("flash", lost) = {{"1"}}
          /\ ReadsField("vbmeta", lost) \in {{}, {{"locked"}}}
          /\ ReadsField("flash", lost) \in {{}, {{"1"}}}
      BY <3>2, LockedIsStated
    <3>5. \/ "vbmeta" \notin lost /\ machine.vbmeta = {"locked"}
          \/ "flash" \notin lost /\ machine.flash = {"1"}
      <4>1. ReadsField("vbmeta", lost) = {{"locked"}}
              => "vbmeta" \notin lost /\ machine.vbmeta = {"locked"}
        BY FieldRead
      <4>2. ReadsField("flash", lost) = {{"1"}}
              => "flash" \notin lost /\ machine.flash = {"1"}
        BY FieldRead
      <4> QED BY <3>4, <4>1, <4>2
    <3>6. ASSUME NEW field, NEW value, field \notin lost,
                 ReadsField(field, lost) \in {{}, {value}}
          PROVE  machine[field] \in {{}, value}
      BY <3>6 DEF ReadsField, property_read
    <3>7. /\ "vbmeta" \notin lost => machine.vbmeta \in {{}, {"locked"}}
          /\ "flash" \notin lost => machine.flash \in {{}, {"1"}}
      BY <3>4, <3>6
    <3>8. said'.lost = lost
      BY <2>1
    <3> QED BY <2>2, <3>3, <3>5, <3>7, <3>8 DEF BootClean
  <2> QED BY <2>2, <2>4, <2>5 DEF MachineInv, WorkerJoinsHostMachine
<1> QED BY <1>1, <1>2, <1>3

\* The firmware files of Linux: a refused one, or the name of a monitor, is no
\* hardware (dmi.rs:45-75).
LEMMA LinuxKeeps ==
  ASSUME MachineInv, LinuxEmulation
  PROVE  MachineInv'
<1>1. /\ machine \in Machine /\ member \in Addresses \cup {0}
      /\ machine.kind = "dmi" /\ UNCHANGED <<machine, call, member>>
      /\ said' = [of |-> "emulation",
                  is |-> LinuxMachineHost(machine.manufacturer, machine.product,
                                          machine.virtio), lost |-> {}]
  BY DEF MachineInv, MachineTypeOK, LinuxEmulation, Says
<1>2. /\ machine.manufacturer \in {"absent", "denied", "monitor", "maker"}
      /\ machine.product \in {"absent", "denied", "monitor", "maker"}
      /\ machine.virtio \in {"absent", "denied", "empty", "device"}
  <2>1. machine \in [kind : {"dmi"},
                     manufacturer : {"absent", "denied", "monitor", "maker"},
                     product : {"absent", "denied", "monitor", "maker"},
                     virtio : {"absent", "denied", "empty", "device"}]
    BY <1>1, SourcesOf
  <2> QED BY <2>1
<1>3. said'.of = "emulation" /\ said'.is \in {"VirtualMachine", "Failed", "Hardware"}
  <2>1. firmware_identity(machine.manufacturer, machine.product).ok \in BOOLEAN
    BY <1>2 DEF firmware_identity, read_field
  <2>2. LinuxMachineHost(machine.manufacturer, machine.product, machine.virtio)
          \in {"VirtualMachine", "Failed", "Hardware"}
    BY <2>1 DEF LinuxMachineHost
  <2> QED BY <1>1, <2>2
<1>4. MachineTypeOK'
  BY <1>1, <1>3 DEF MachineTypeOK, Observation, MachineHost
<1>5. CleanMachineIsClean'
  <2> SUFFICES ASSUME said'.is = "Hardware" PROVE DmiClean'
    BY <1>1, <1>3 DEF CleanMachineIsClean
  <2>1. LinuxMachineHost(machine.manufacturer, machine.product, machine.virtio)
          = "Hardware"
    BY <1>1
  <2> DEFINE names == firmware_identity(machine.manufacturer, machine.product)
  <2>2. names.ok /\ "monitor" \notin names.names
        /\ machine.virtio \notin {"device", "denied"}
    <3>1. names.ok \in BOOLEAN
      BY <1>2 DEF firmware_identity, read_field
    <3>2. names.ok
      BY <2>1, <3>1 DEF LinuxMachineHost
    <3>3. "monitor" \notin names.names
      BY <2>1, <3>2 DEF LinuxMachineHost
    <3> QED BY <2>1, <3>2, <3>3 DEF LinuxMachineHost
  <2>3. "denied" \notin {machine.manufacturer, machine.product}
    BY <2>2 DEF firmware_identity, read_field
  <2>4. ASSUME "absent" \notin {machine.manufacturer, machine.product}
        PROVE  "monitor" \notin {machine.manufacturer, machine.product}
    BY <1>2, <2>2, <2>3, <2>4 DEF firmware_identity, read_field
  <2> HIDE DEF names
  <2> QED BY <1>1, <2>2, <2>3, <2>4 DEF DmiClean
<1> QED BY <1>1, <1>4, <1>5 DEF MachineInv, WorkerJoinsHostMachine

\* The kernel calls of Windows and Apple, and what their systems do between them.
LEMMA KernelKeeps ==
  ASSUME MachineInv,
         \/ WindowsFirmwareSize \/ FirmwareMoves \/ WindowsFirmwareTable
         \/ WindowsDebugger \/ MacEmulation \/ IosEmulation \/ AppleProcessSize
         \/ AppleProcessRecord \/ ApplePrepareWorker \/ TracerMoves \/ Default
  PROVE  MachineInv'
<1>0. /\ machine \in Machine /\ member \in Addresses \cup {0} /\ MachineTypeOK
      /\ machine.kind = "apple" => call \in {{}, {0}, {2}}
  BY DEF MachineInv, MachineTypeOK
<1> DEFINE quiet == {"smbios", "windows", "apple", "linux"}
<1>1. machine.kind \in quiet /\ machine'.kind = machine.kind /\ member' = member
  <2>1. machine.kind \in quiet /\ member' = member
    BY DEF WindowsFirmwareSize, FirmwareMoves, WindowsFirmwareTable, WindowsDebugger,
           MacEmulation, IosEmulation, AppleProcessSize, AppleProcessRecord,
           ApplePrepareWorker, TracerMoves, Default
  <2>2. CASE FirmwareMoves
    <3>1. machine \in [kind : {"smbios"}, table : Tables]
      BY <1>0, <2>2, SourcesOf DEF FirmwareMoves
    <3> QED BY <2>1, <2>2, <3>1 DEF FirmwareMoves
  <2>3. CASE TracerMoves
    BY <2>1, <2>3 DEF TracerMoves
  <2>4. CASE ~FirmwareMoves /\ ~TracerMoves
    BY <2>1, <2>4 DEF WindowsFirmwareSize, WindowsFirmwareTable, WindowsDebugger,
           MacEmulation, IosEmulation, AppleProcessSize, AppleProcessRecord,
           ApplePrepareWorker, Default, Says
  <2> QED BY <2>1, <2>2, <2>3, <2>4
<1>2. CleanMachineIsClean' /\ WorkerJoinsHostMachine'
  <2> SUFFICES ASSUME said'.is \in {"Released", "Hardware", "Verified"},
                      machine.kind = "apple"
               PROVE  AppleClean'
    BY <1>1 DEF CleanMachineIsClean, WorkerJoinsHostMachine
  <2>1. CASE MacEmulation
    <3>1. machine.stated \in {"0", "1", "ENOENT", "error", "size"}
      BY <1>0, <2>1, SourcesOf DEF MacEmulation
    <3>2. said'.is = MacMachineHost(machine.stated)
      BY <2>1 DEF MacEmulation, Says
    <3>3. machine.stated = "0"
      BY <3>1, <3>2 DEF MacMachineHost
    <3> QED BY <2>1, <3>3 DEF MacEmulation, Says, AppleClean
  <2>2. CASE IosEmulation
    <3>1. said'.is = IosMachineHost(machine.stated)
      BY <2>2 DEF IosEmulation, Says
    <3>2. machine.stated \in {"iPhone", "iPad", "iPod"}
      BY <3>1 DEF IosMachineHost, classify
    <3> QED BY <2>2, <3>2 DEF IosEmulation, Says, AppleClean
  <2>3. CASE AppleProcessSize
    BY <2>3 DEF AppleProcessSize, AppleClean, MachineInv, CleanMachineIsClean
  <2>4. CASE TracerMoves
    <3>1. /\ said' = said /\ machine' = [machine EXCEPT !.tracer = ~machine.tracer]
          /\ AppleClean
      BY <2>4 DEF TracerMoves, MachineInv, CleanMachineIsClean
    <3>2. machine'.stated = machine.stated /\ machine'.os = machine.os
      BY <1>0, <3>1, SourcesOf
    <3> QED BY <3>1, <3>2 DEF AppleClean
  <2>5. ~AppleProcessRecord
    <3> SUFFICES ASSUME AppleProcessRecord PROVE FALSE
      OBVIOUS
    <3>1. PICK wanted \in call, length \in {0, 1} :
            said'.is = traced(wanted, length, machine.tracer)
      BY DEF AppleProcessRecord, Says
    <3>2. wanted \in {0, 2}
      BY <1>0
    <3> QED BY <3>1, <3>2 DEF traced
  <2>6. ~(\/ WindowsFirmwareSize \/ FirmwareMoves \/ WindowsFirmwareTable
          \/ WindowsDebugger \/ ApplePrepareWorker \/ Default)
    BY DEF WindowsFirmwareSize, FirmwareMoves, WindowsFirmwareTable, WindowsDebugger,
           ApplePrepareWorker, ApplePrepare, Says, Default
  <2> QED BY <2>1, <2>2, <2>3, <2>4, <2>5, <2>6
<1>3. machine' \in Machine
  <2>1. CASE FirmwareMoves
    <3>1. machine \in [kind : {"smbios"}, table : Tables]
      BY <1>0, <2>1, SourcesOf DEF FirmwareMoves
    <3>2. machine' \in [kind : {"smbios"}, table : Tables]
      BY <2>1, <3>1 DEF FirmwareMoves
    <3> QED BY <3>2 DEF Machine
  <2>2. CASE TracerMoves
    <3>1. CASE machine.kind = "windows"
      <4>1. machine \in [kind : {"windows"}, tracer : BOOLEAN]
        BY <1>0, <3>1, SourcesOf
      <4>2. machine' \in [kind : {"windows"}, tracer : BOOLEAN]
        BY <2>2, <4>1 DEF TracerMoves
      <4> QED BY <4>2 DEF Machine
    <3>2. CASE machine.kind = "apple"
      <4> DEFINE Mac == [kind : {"apple"}, os : {"MacOs"}, tracer : BOOLEAN,
                         stated : {"0", "1", "ENOENT", "error", "size"}]
                 Phone == [kind : {"apple"}, os : {"Ios"}, tracer : BOOLEAN,
                           stated : {"iPhone", "iPad", "iPod", "arm64", "x86_64",
                                     "AppleTV", "error", "size", "binary", "empty"}]
      <4>1. machine \in Mac \/ machine \in Phone
        BY <1>0, <3>2, SourcesOf
      <4>2. machine' \in Mac \/ machine' \in Phone
        BY <2>2, <4>1 DEF TracerMoves
      <4> QED BY <4>2 DEF Machine
    <3> QED BY <2>2, <3>1, <3>2 DEF TracerMoves
  <2>3. CASE ~FirmwareMoves /\ ~TracerMoves
    BY <1>0, <2>3 DEF WindowsFirmwareSize, WindowsFirmwareTable, WindowsDebugger,
           MacEmulation, IosEmulation, AppleProcessSize, AppleProcessRecord,
           ApplePrepareWorker, Default, Says
  <2> QED BY <2>1, <2>2, <2>3
<1>4. machine'.kind = "apple" => call' \in {{}, {0}, {2}}
  BY <1>0, <1>1 DEF WindowsFirmwareSize, FirmwareMoves, WindowsFirmwareTable,
         WindowsDebugger, MacEmulation, IosEmulation, AppleProcessSize,
         AppleProcessRecord, ApplePrepareWorker, TracerMoves, Default
<1> DEFINE answers == CASE said.of = "emulation" -> Observation(MachineHost)
                        [] said.of = "device" -> Observation(SystemBuild)
                        [] said.of = "verified_boot" -> Observation(BootVerification)
                        [] said.of = "tracer" -> Observation(TracerState)
                        [] said.of = "lifecycle" -> WorkerSetup
                        [] OTHER -> {"none", NO_PROBE}
<1>5. (said.is \in answers)'
  <2>1. CASE WindowsFirmwareSize \/ FirmwareMoves \/ AppleProcessSize \/ TracerMoves
    <3>1. said' = said
      BY <2>1 DEF WindowsFirmwareSize, FirmwareMoves, AppleProcessSize, TracerMoves
    <3> QED BY <1>0, <3>1 DEF MachineTypeOK
  <2>2. CASE WindowsFirmwareTable
    <3>1. said'.of = "emulation" /\ said'.is \in {"Failed", "VirtualMachine", "Hardware"}
      BY <2>2 DEF WindowsFirmwareTable, Says, WindowsMachineHost
    <3> QED BY <3>1 DEF Observation, MachineHost
  <2>3. CASE WindowsDebugger
    <3>1. said'.of = "tracer" /\ said'.is \in {"Failed", "Present", "Absent"}
      BY <2>3 DEF WindowsDebugger, Says, WindowsTracer
    <3> QED BY <3>1 DEF Observation, TracerState
  <2>4. CASE MacEmulation
    <3>1. machine.stated \in {"0", "1", "ENOENT", "error", "size"}
      BY <1>0, <2>4, SourcesOf DEF MacEmulation
    <3>2. /\ said'.of = "emulation"
          /\ said'.is \in {"Failed", "VirtualMachine", "Hardware", "Unsupported"}
      BY <2>4, <3>1 DEF MacEmulation, Says, MacMachineHost
    <3> QED BY <3>2 DEF Observation, MachineHost
  <2>5. CASE IosEmulation
    <3>1. said'.of = "emulation" /\ said'.is \in {"Failed", "Simulated", "Hardware"}
      BY <2>5 DEF IosEmulation, Says, IosMachineHost, classify
    <3> QED BY <3>1 DEF Observation, MachineHost
  <2>6. CASE AppleProcessRecord
    <3>1. PICK wanted \in call, length \in {0, 1} :
            said' = [of |-> "tracer", is |-> traced(wanted, length, machine.tracer),
                     lost |-> {}]
      BY <2>6 DEF AppleProcessRecord, Says
    <3>2. wanted \in {0, 2}
      BY <1>0, <2>6 DEF AppleProcessRecord
    <3>3. traced(wanted, length, machine.tracer) \in {"Failed", "Present", "Absent"}
      BY <3>2 DEF traced
    <3> QED BY <3>1, <3>3 DEF Observation, TracerState
  <2>7. CASE ApplePrepareWorker
    <3>1. said'.of = "lifecycle" /\ said'.is \in {"Prepared", "Failed"}
      BY <2>7 DEF ApplePrepareWorker, Says, ApplePrepare
    <3> QED BY <3>1 DEF WorkerSetup
  <2>8. CASE Default
    <3>1. said'.is = NO_PROBE /\ said'.of # "lifecycle"
      BY <2>8 DEF Default, Says, Unanswered
    <3> QED BY <3>1 DEF Observation, NO_PROBE
  <2> QED BY <2>1, <2>2, <2>3, <2>4, <2>5, <2>6, <2>7, <2>8
<1> QED BY <1>0, <1>1, <1>2, <1>3, <1>4, <1>5 DEF MachineInv, MachineTypeOK

\* The worker of Android: it joins the machine of the host, or the running one, and
\* leaves none (lifecycle.rs:36-64, jvm.rs:100-136).
LEMMA WorkerKeeps ==
  ASSUME MachineInv, AndroidPrepareWorker
  PROVE  MachineInv'
<1>1. /\ machine \in Machine /\ member \in Addresses \cup {0}
      /\ machine.kind = "jvm" /\ UNCHANGED <<machine, call>>
      /\ machine.given # 0 => member \in {0, machine.given}
  BY DEF MachineInv, MachineTypeOK, WorkerJoinsHostMachine, AndroidPrepareWorker, Says
<1> DEFINE running(lost) == IF lost = {} THEN machine.running ELSE 0
           address(lost) == VmAddress(machine.given, running(lost))
           env(lost, refuse) ==
             CASE refuse -> "error"
               [] ~refuse -> IF member = address(lost) THEN "ok" ELSE "detached"
           reply(lost, refuse, attach) ==
             AttachAsDaemon(address(lost), env(lost, refuse), attach)
<1>2. PICK lost \in SUBSET {"running"}, refuse \in BOOLEAN, attach \in BOOLEAN :
        /\ Says("lifecycle", reply(lost, refuse, attach).setup, lost)
        /\ member' = IF reply(lost, refuse, attach).joins THEN address(lost) ELSE member
  BY DEF AndroidPrepareWorker
<1> DEFINE a == address(lost)
           e == env(lost, refuse)
<1>3. a \in Addresses \cup {0} /\ (machine.given # 0 => a = machine.given)
  <2>1. machine.given \in Addresses \cup {0} /\ machine.running \in Addresses \cup {0}
    BY <1>1, SourcesOf
  <2> QED BY <2>1 DEF VmAddress
<1>4. e \in {"error", "ok", "detached"} /\ (e = "ok" => member = a)
  <2> HIDE DEF address
  <2> QED OBVIOUS
<1>5. /\ said' = [of |-> "lifecycle", is |-> AttachAsDaemon(a, e, attach).setup,
                  lost |-> lost]
      /\ member' = IF AttachAsDaemon(a, e, attach).joins THEN a ELSE member
  BY <1>2 DEF Says
<1> HIDE DEF a, e
<1>6. \/ /\ AttachAsDaemon(a, e, attach) = [setup |-> "Failed", joins |-> FALSE]
      \/ /\ AttachAsDaemon(a, e, attach) = [setup |-> "Prepared", joins |-> FALSE]
         /\ a # 0 /\ member = a
      \/ /\ AttachAsDaemon(a, e, attach) = [setup |-> "Prepared", joins |-> TRUE]
         /\ a # 0
  <2>1. CASE a = 0 \/ e = "error"
    BY <2>1, <1>4 DEF AttachAsDaemon
  <2>2. CASE a # 0 /\ e = "ok"
    BY <2>2, <1>4 DEF AttachAsDaemon
  <2>3. CASE a # 0 /\ e = "detached" /\ attach
    BY <2>3 DEF AttachAsDaemon
  <2>4. CASE a # 0 /\ e = "detached" /\ ~attach
    BY <2>4 DEF AttachAsDaemon
  <2> QED BY <1>4, <2>1, <2>2, <2>3, <2>4
<1>7. /\ said'.of = "lifecycle" /\ said'.is \in {"Prepared", "Failed"}
      /\ member' \in {member, a} /\ (said'.is = "Prepared" => member' # 0)
  BY <1>5, <1>6
<1>8. MachineTypeOK'
  BY <1>1, <1>3, <1>7 DEF MachineTypeOK, WorkerSetup
<1>9. CleanMachineIsClean'
  BY <1>7 DEF CleanMachineIsClean
<1>10. WorkerJoinsHostMachine'
  BY <1>1, <1>3, <1>7 DEF WorkerJoinsHostMachine
<1> QED BY <1>1, <1>8, <1>9, <1>10 DEF MachineInv

\* Before the first probe nothing is said, and no thread is attached.
LEMMA MachineInitHolds == MachineInit => MachineInv
BY DEF MachineInit, MachineInv, MachineTypeOK, CleanMachineIsClean,
       WorkerJoinsHostMachine, NO_PROBE

\* Every probe, and every move of the system, keeps the inductive invariant.
LEMMA MachineStepKeeps == MachineInv /\ [MachineNext]_machineVars => MachineInv'
<1> SUFFICES ASSUME MachineInv, [MachineNext]_machineVars PROVE MachineInv'
  OBVIOUS
<1>1. CASE UNCHANGED machineVars
  BY <1>1 DEF machineVars, MachineInv, MachineTypeOK, CleanMachineIsClean, BuildClean,
              BoardClean, BootClean, DmiClean, AppleClean, WorkerJoinsHostMachine
<1> QED BY <1>1, AndroidKeeps, LinuxKeeps, KernelKeeps, WorkerKeeps DEF MachineNext

\* A tracer that is there when the kernel answers is not reported absent, however
\* short the two answers are (process.rs:76-142, debug.rs:27-39).
THEOREM TracerReported == MachineSpec => TracerSeen
<1>1. MachineSpec => []MachineInv
  BY MachineInitHolds, MachineStepKeeps, PTL DEF MachineSpec
<1>2. MachineInv /\ [MachineNext]_machineVars
        => [(AppleProcessRecord \/ WindowsDebugger) /\ said'.of = "tracer"
              /\ said'.is = "Absent" => ~machine.tracer]_machineVars
  <2> SUFFICES ASSUME MachineInv, AppleProcessRecord \/ WindowsDebugger,
                      said'.is = "Absent"
               PROVE  ~machine.tracer
    OBVIOUS
  <2>1. CASE WindowsDebugger
    BY <2>1 DEF WindowsDebugger, Says, WindowsTracer
  <2>2. CASE AppleProcessRecord
    <3>1. PICK wanted \in call, length \in {0, 1} :
            said' = [of |-> "tracer", is |-> traced(wanted, length, machine.tracer),
                     lost |-> {}]
      BY <2>2 DEF AppleProcessRecord, Says
    <3>2. wanted \in {0, 2}
      BY <2>2 DEF AppleProcessRecord, MachineInv
    <3> QED BY <3>1, <3>2 DEF traced
  <2> QED BY <2>1, <2>2
<1> QED BY <1>1, <1>2, PTL DEF MachineSpec, TracerSeen

-----------------------------------------------------------------------------
(***************************************************************************)
(* The firmware table. A run of strings ends with the first two zero bytes *)
(* behind its start, and e is the offset behind them.                      *)
(***************************************************************************)

RunEnds(bytes, from, e) ==
  /\ e \in from + 2 .. Len(bytes) /\ bytes[e - 1] = 0 /\ bytes[e] = 0
  /\ \A x \in from + 2 .. e - 1 : ~(bytes[x - 1] = 0 /\ bytes[x] = 0)

\* run_end() finds it, and nothing else (smbios/system.rs:87-95).
LEMMA RunEndIs ==
  ASSUME NEW bytes \in Seq(Nat), NEW from \in Nat
  PROVE  /\ \A e : RunEnds(bytes, from, e) => run_end(bytes, from) = {e}
         /\ run_end(bytes, from) # {} =>
              \E e \in from + 2 .. Len(bytes) :
                RunEnds(bytes, from, e) /\ run_end(bytes, from) = {e}
<1> DEFINE N == Len(bytes)
           ends == {c \in from .. N - 2 : Byte(bytes, c) = 0 /\ Byte(bytes, c + 1) = 0}
<1>0. N \in Nat /\ ends \in SUBSET Nat
  OBVIOUS
<1>1. \A c \in from .. N - 2 :
        c \in ends <=> bytes[(c + 2) - 1] = 0 /\ bytes[c + 2] = 0
  BY DEF Byte
<1>2. run_end(bytes, from) = IF ends = {} THEN {} ELSE {Min(ends) + 2}
  BY DEF run_end
<1>3. ends \subseteq from .. N - 2
  OBVIOUS
<1> HIDE DEF ends, N
<1>4. ASSUME NEW e, RunEnds(bytes, from, e) PROVE run_end(bytes, from) = {e}
  <2>1. /\ e \in Nat /\ from + 2 <= e /\ e <= N /\ bytes[e - 1] = 0 /\ bytes[e] = 0
        /\ \A x \in from + 2 .. e - 1 : ~(bytes[x - 1] = 0 /\ bytes[x] = 0)
    BY <1>0, <1>4 DEF RunEnds, N
  <2>2. e - 2 \in from .. N - 2 /\ (e - 2) + 2 = e
    BY <1>0, <2>1
  <2>3. e - 2 \in ends
    BY <1>1, <2>1, <2>2
  <2>4. Min(ends) \in ends /\ Min(ends) <= e - 2
    BY <1>0, <2>3, MinOfSet
  <2>5. ASSUME Min(ends) # e - 2 PROVE FALSE
    <3> DEFINE m == Min(ends)
    <3>1. m \in from .. N - 2 /\ bytes[(m + 2) - 1] = 0 /\ bytes[m + 2] = 0
      BY <1>1, <1>3, <2>4
    <3>a. m # e - 2 /\ m <= e - 2
      BY <2>4, <2>5
    <3>b. m \in Int /\ e \in Int
      BY <1>0, <2>1, <3>1
    <3> HIDE DEF m
    <3>2. m < e - 2
      BY <3>a, <3>b
    <3>3. m + 2 \in from + 2 .. e - 1
      BY <1>0, <2>1, <3>1, <3>2
    <3> QED BY <2>1, <3>1, <3>3
  <2>6. Min(ends) + 2 = e
    BY <2>1, <2>5
  <2> QED BY <1>2, <2>3, <2>6
<1>5. ASSUME run_end(bytes, from) # {}
      PROVE  \E e \in from + 2 .. N : RunEnds(bytes, from, e) /\ run_end(bytes, from) = {e}
  <2> DEFINE m == Min(ends)
  <2>1. ends # {} /\ run_end(bytes, from) = {m + 2}
    BY <1>2, <1>5
  <2>2. m \in ends /\ \A y \in ends : m <= y
    BY <1>0, <2>1, MinOfSet
  <2> HIDE DEF m
  <2>3. m \in from .. N - 2 /\ bytes[(m + 2) - 1] = 0 /\ bytes[m + 2] = 0
    BY <1>1, <1>3, <2>2
  <2>4. m + 2 \in from + 2 .. N
    BY <1>0, <2>3
  <2>5. ASSUME NEW x \in from + 2 .. (m + 2) - 1, bytes[x - 1] = 0, bytes[x] = 0 PROVE FALSE
    <3>1. x - 2 \in from .. N - 2 /\ (x - 2) + 2 = x /\ x - 2 < m
      BY <1>0, <2>3
    <3>2. x - 2 \in ends
      BY <1>1, <2>5, <3>1
    <3>3. m <= x - 2
      BY <2>2, <3>2
    <3> QED BY <1>0, <2>3, <3>1, <3>3
  <2>6. RunEnds(bytes, from, m + 2)
    BY <2>3, <2>4, <2>5 DEF RunEnds, N
  <2> QED BY <2>1, <2>4, <2>6
<1> QED BY <1>4, <1>5 DEF N

\* One step of the walk over a table, when walk has what follows it.
WalkBody(bytes, walk, c) ==
  IF c + HEADER_BYTES > Len(bytes) THEN {}
  ELSE LET start == c + Byte(bytes, c + 1)
           end == run_end(bytes, start)
       IN  IF \/ Byte(bytes, c) = END_OF_TABLE
              \/ Byte(bytes, c + 1) < HEADER_BYTES \/ end = {} THEN {}
           ELSE LET e == CHOOSE x \in end : TRUE
                IN  IF Byte(bytes, c) = SYSTEM_INFORMATION
                    THEN Names(bytes, c, start, e) ELSE walk[e]

\* A structure that the walk can pass: it is none that ends the table, and its
\* strings end at e.
Passable(bytes, c, e) ==
  /\ c + HEADER_BYTES <= Len(bytes)
  /\ Byte(bytes, c) # END_OF_TABLE /\ Byte(bytes, c + 1) >= HEADER_BYTES
  /\ RunEnds(bytes, c + Byte(bytes, c + 1), e)

LEMMA HeaderTyped ==
  ASSUME NEW bytes \in Seq(Nat), NEW c \in Nat, c + HEADER_BYTES <= Len(bytes)
  PROVE  /\ Byte(bytes, c) \in Nat /\ Byte(bytes, c + 1) \in Nat
         /\ c + Byte(bytes, c + 1) \in Nat
<1>1. c + 1 \in 1 .. Len(bytes) /\ (c + 1) + 1 \in 1 .. Len(bytes)
  BY DEF HEADER_BYTES
<1>2. bytes[c + 1] \in Nat /\ bytes[(c + 1) + 1] \in Nat
  BY <1>1
<1> QED BY <1>2 DEF Byte

LEMMA WalkStep ==
  ASSUME NEW bytes \in Seq(Nat), NEW c \in Nat, NEW walk
  PROVE  /\ \A e : Passable(bytes, c, e) =>
              /\ e \in c + 6 .. Len(bytes)
              /\ WalkBody(bytes, walk, c)
                   = IF Byte(bytes, c) = SYSTEM_INFORMATION
                     THEN Names(bytes, c, c + Byte(bytes, c + 1), e) ELSE walk[e]
         /\ (\A e \in Nat : ~Passable(bytes, c, e)) => WalkBody(bytes, walk, c) = {}
<1> DEFINE start == c + Byte(bytes, c + 1)
           end == run_end(bytes, start)
<1>1. ASSUME NEW e, Passable(bytes, c, e)
      PROVE  /\ e \in c + 6 .. Len(bytes)
             /\ WalkBody(bytes, walk, c)
                  = IF Byte(bytes, c) = SYSTEM_INFORMATION
                    THEN Names(bytes, c, start, e) ELSE walk[e]
  <2>1. /\ c + HEADER_BYTES <= Len(bytes) /\ Byte(bytes, c) # END_OF_TABLE
        /\ Byte(bytes, c + 1) >= HEADER_BYTES /\ RunEnds(bytes, start, e)
    BY <1>1 DEF Passable
  <2>2. start \in Nat /\ Byte(bytes, c + 1) \in Nat
    BY <2>1, HeaderTyped
  <2>3. end = {e}
    <3> HIDE DEF start
    <3> QED BY <2>1, <2>2, RunEndIs
  <2>4. e \in start + 2 .. Len(bytes)
    BY <2>1 DEF RunEnds
  <2>5. e \in c + 6 .. Len(bytes)
    BY <2>1, <2>2, <2>4 DEF HEADER_BYTES
  <2>6. (CHOOSE x \in end : TRUE) = e
    <3> HIDE DEF end
    <3> QED BY <2>3
  <2>7. ~(c + HEADER_BYTES > Len(bytes)) /\ ~(Byte(bytes, c + 1) < HEADER_BYTES)
    BY <2>1, <2>2 DEF HEADER_BYTES
  <2>8. end # {}
    BY <2>3
  <2>9. WalkBody(bytes, walk, c)
          = IF Byte(bytes, c) = SYSTEM_INFORMATION THEN Names(bytes, c, start, e) ELSE walk[e]
    BY <2>1, <2>6, <2>7, <2>8 DEF WalkBody
  <2> QED BY <2>5, <2>9
<1>2. ASSUME \A e \in Nat : ~Passable(bytes, c, e) PROVE WalkBody(bytes, walk, c) = {}
  <2>1. SUFFICES ASSUME /\ ~(c + HEADER_BYTES > Len(bytes)) /\ Byte(bytes, c) # END_OF_TABLE
                        /\ ~(Byte(bytes, c + 1) < HEADER_BYTES) /\ end # {}
                 PROVE  FALSE
    BY DEF WalkBody
  <2>2. c + HEADER_BYTES <= Len(bytes)
    BY <2>1 DEF HEADER_BYTES
  <2>3. start \in Nat /\ Byte(bytes, c + 1) \in Nat
    BY <2>2, HeaderTyped
  <2>4. PICK e \in start + 2 .. Len(bytes) : RunEnds(bytes, start, e)
    <3> HIDE DEF start
    <3> QED BY <2>1, <2>3, RunEndIs
  <2>5. e \in Nat
    BY <2>3, <2>4
  <2>6. Byte(bytes, c + 1) >= HEADER_BYTES
    BY <2>1, <2>3 DEF HEADER_BYTES
  <2>7. Passable(bytes, c, e)
    BY <2>1, <2>2, <2>4, <2>6 DEF Passable
  <2> QED BY <1>2, <2>5, <2>7
<1> QED BY <1>1, <1>2

\* The walk that system_information() makes (smbios/system.rs:51-81).
Walks(bytes, walk) == \A c \in 0 .. Len(bytes) : walk[c] = WalkBody(bytes, walk, c)

LEMMA WalkExists ==
  ASSUME NEW bytes \in Seq(Nat)
  PROVE  \E walk : Walks(bytes, walk) /\ system_information(bytes) = walk[0]
<1> DEFINE N == Len(bytes)
           S == {{}} \cup {Names(bytes, c, s, e) : c \in Nat, s \in Nat, e \in Nat}
           body == [x \in (0 .. N) \X [0 .. N -> S] |-> WalkBody(bytes, x[2], x[1])]
           Def(f) == [c \in 0 .. N |-> WalkBody(bytes, f, c)]
           F == CHOOSE f : f = Def(f)
<1>0. N \in Nat /\ {} \in S
  OBVIOUS
<1>1. ASSUME NEW c \in 0 .. N, NEW f \in [0 .. N -> S] PROVE WalkBody(bytes, f, c) \in S
  <2>1. CASE \E e \in Nat : Passable(bytes, c, e)
    <3>1. PICK e \in Nat : Passable(bytes, c, e)
      BY <2>1
    <3>2. /\ e \in c + 6 .. N
          /\ WalkBody(bytes, f, c)
               = IF Byte(bytes, c) = SYSTEM_INFORMATION
                 THEN Names(bytes, c, c + Byte(bytes, c + 1), e) ELSE f[e]
      BY <3>1, WalkStep
    <3>3. c + Byte(bytes, c + 1) \in Nat
      BY <3>1, HeaderTyped DEF Passable
    <3>4. Names(bytes, c, c + Byte(bytes, c + 1), e) \in S
      BY <3>3
    <3> HIDE DEF S, N
    <3>5. f[e] \in S
      BY <1>0, <3>2
    <3> QED BY <3>2, <3>4, <3>5
  <2>2. CASE ~\E e \in Nat : Passable(bytes, c, e)
    <3>1. WalkBody(bytes, f, c) = {}
      BY <2>2, WalkStep
    <3> QED BY <3>1
  <2> QED BY <2>1, <2>2
<1> HIDE DEF S
<1>2. body \in [(0 .. N) \X [0 .. N -> S] -> S]
  <2>1. ASSUME NEW x \in (0 .. N) \X [0 .. N -> S] PROVE WalkBody(bytes, x[2], x[1]) \in S
    <3>1. x[1] \in 0 .. N /\ x[2] \in [0 .. N -> S]
      OBVIOUS
    <3> QED BY <1>1, <3>1
  <2> QED BY <2>1
<1>3. ASSUME NEW c \in 0 .. N, NEW f \in [0 .. N -> S]
      PROVE  body[<<c, f>>] = WalkBody(bytes, f, c)
  <2>1. <<c, f>> \in (0 .. N) \X [0 .. N -> S]
    OBVIOUS
  <2> QED BY <2>1
<1> HIDE DEF body
<1>4. LooksUp(body, N, S)
  <2>1. ASSUME NEW c \in 0 .. N, NEW f \in [0 .. N -> S], NEW g \in [0 .. N -> S],
               \A e \in c + 1 .. N : f[e] = g[e]
        PROVE  WalkBody(bytes, f, c) = WalkBody(bytes, g, c)
    <3>1. CASE \E e \in Nat : Passable(bytes, c, e)
      <4>1. PICK e \in Nat : Passable(bytes, c, e)
        BY <3>1
      <4>2. e \in c + 6 .. N
        BY <4>1, WalkStep
      <4>3. f[e] = g[e]
        BY <1>0, <2>1, <4>2
      <4>4. /\ WalkBody(bytes, f, c)
                 = IF Byte(bytes, c) = SYSTEM_INFORMATION
                   THEN Names(bytes, c, c + Byte(bytes, c + 1), e) ELSE f[e]
            /\ WalkBody(bytes, g, c)
                 = IF Byte(bytes, c) = SYSTEM_INFORMATION
                   THEN Names(bytes, c, c + Byte(bytes, c + 1), e) ELSE g[e]
        BY <4>1, WalkStep
      <4> QED BY <4>3, <4>4
    <3>2. CASE ~\E e \in Nat : Passable(bytes, c, e)
      BY <3>2, WalkStep, SMTT(30)
    <3> QED BY <3>1, <3>2
  <2>2. ASSUME NEW c \in 0 .. N, NEW f \in [0 .. N -> S], NEW g \in [0 .. N -> S],
               \A e \in c + 1 .. N : f[e] = g[e]
        PROVE  body[<<c, f>>] = body[<<c, g>>]
    <3>1. WalkBody(bytes, f, c) = WalkBody(bytes, g, c)
      BY <2>1, <2>2
    <3>2. body[<<c, f>>] = WalkBody(bytes, f, c) /\ body[<<c, g>>] = WalkBody(bytes, g, c)
      BY <1>3
    <3> QED BY <3>1, <3>2
  <2> HIDE DEF N
  <2> QED BY <2>2 DEF LooksUp
<1>5. PICK h \in [0 .. N -> S] : Settles(h, body, 0, N)
  <2> HIDE DEF N
  <2> QED BY <1>0, <1>2, <1>4, DownwardRecursion
<1>6. h = Def(h)
  <2>1. \A c \in 0 .. N : h[c] = WalkBody(bytes, h, c)
    BY <1>3, <1>5 DEF Settles
  <2> HIDE DEF N
  <2> QED BY <2>1
<1>7. F = Def(F)
  <2> HIDE DEF Def
  <2> QED BY <1>6
<1>8. system_information(bytes) = F[0]
  BY DEF system_information, WalkBody
<1> HIDE DEF F
<1>9. Walks(bytes, F)
  <2>1. \A c \in 0 .. N : F[c] = WalkBody(bytes, F, c)
    BY <1>7
  <2> QED BY <2>1 DEF Walks
<1> QED BY <1>8, <1>9

OneOf(set) == CHOOSE s \in set : TRUE

\* The two names in a run of strings.
NamesIn(strings, m, p) == {<<a, b>> : a \in string(strings, m), b \in string(strings, p)}

LEMMA NamesAre ==
  ASSUME NEW bytes, NEW c, NEW start, NEW e, ~(start < c + 6)
  PROVE  Names(bytes, c, start, e)
           = NamesIn(OneOf(Slice(bytes, start, e - 2)),
                     Byte(bytes, c + 4), Byte(bytes, c + 5))
BY DEF Names, NamesIn, OneOf

\* A table that is cut short gives the same names or none (smbios/system.rs:44-81).
LEMMA CutRead ==
  ASSUME NEW bytes \in Seq(Nat), NEW cut \in 0 .. Len(bytes)
  PROVE  system_information(SubSeq(bytes, 1, cut)) \in {{}, system_information(bytes)}
<1> DEFINE part == SubSeq(bytes, 1, cut)
<1>1. /\ part \in Seq(Nat) /\ Len(part) = cut /\ cut \in Nat /\ Len(bytes) \in Nat
      /\ \A i \in 1 .. cut : part[i] = bytes[i]
  OBVIOUS
<1>2. PICK walk : Walks(bytes, walk) /\ system_information(bytes) = walk[0]
  BY WalkExists
<1> HIDE DEF part
<1>3. PICK short : Walks(part, short) /\ system_information(part) = short[0]
  BY <1>1, WalkExists
<1> DEFINE Same(c) == short[c] = {} \/ short[c] = walk[c]
           T == {c \in 0 .. cut : \A e \in c .. cut : Same(e)}
<1>4. \A c \in 0 .. cut : /\ short[c] = WalkBody(part, short, c)
                          /\ walk[c] = WalkBody(bytes, walk, c)
  BY <1>1, <1>2, <1>3 DEF Walks
<1>5. ASSUME NEW c \in 0 .. cut, NEW e \in Nat, Passable(part, c, e)
      PROVE  /\ Passable(bytes, c, e) /\ e \in c + 6 .. cut
             /\ Byte(part, c) = Byte(bytes, c) /\ Byte(part, c + 1) = Byte(bytes, c + 1)
             /\ LET start == c + Byte(bytes, c + 1)
                IN  Names(part, c, start, e) = Names(bytes, c, start, e)
  <2>1. c \in Nat /\ c + 4 <= cut
    BY <1>1, <1>5 DEF Passable, HEADER_BYTES
  <2>2. Byte(part, c) = Byte(bytes, c) /\ Byte(part, c + 1) = Byte(bytes, c + 1)
    <3>1. c + 1 \in 1 .. cut /\ (c + 1) + 1 \in 1 .. cut
      <4>1. cut \in Nat
        BY <1>1
      <4> QED BY <2>1, <4>1
    <3> QED BY <1>1, <3>1 DEF Byte
  <2> DEFINE start == c + Byte(bytes, c + 1)
  <2>3. start \in Nat
    <3>1. c + HEADER_BYTES <= Len(bytes)
      BY <1>1, <2>1 DEF HEADER_BYTES
    <3> QED BY <2>1, <3>1, HeaderTyped
  <2>4. RunEnds(part, start, e)
    BY <1>5, <2>2 DEF Passable
  <2> HIDE DEF start
  <2>5. e \in start + 2 .. cut
    BY <1>1, <2>4 DEF RunEnds
  <2>6. RunEnds(bytes, start, e)
    <3>1. part[e - 1] = bytes[e - 1] /\ part[e] = bytes[e]
      <4>1. e - 1 \in 1 .. cut /\ e \in 1 .. cut
        BY <1>1, <2>3, <2>5
      <4> QED BY <1>1, <4>1
    <3>2. ASSUME NEW x \in start + 2 .. e - 1
          PROVE  part[x - 1] = bytes[x - 1] /\ part[x] = bytes[x]
      <4>1. x - 1 \in 1 .. cut /\ x \in 1 .. cut
        BY <1>1, <2>3, <2>5
      <4> QED BY <1>1, <4>1
    <3>3. e \in start + 2 .. Len(bytes)
      BY <1>1, <2>3, <2>5
    <3> QED BY <2>4, <3>1, <3>2, <3>3 DEF RunEnds
  <2>7. Passable(bytes, c, e)
    <3>1. c + HEADER_BYTES <= Len(bytes)
      BY <1>1, <2>1 DEF HEADER_BYTES
    <3> QED BY <1>5, <2>2, <2>6, <3>1 DEF Passable, start
  <2>8. e \in c + 6 .. cut
    BY <1>1, <1>5, <2>1, WalkStep
  <2>9. Names(part, c, start, e) = Names(bytes, c, start, e)
    <3>1. CASE start < c + 6
      BY <3>1 DEF Names
    <3>2. CASE ~(start < c + 6)
      <4>1. Byte(part, c + 4) = Byte(bytes, c + 4) /\ Byte(part, c + 5) = Byte(bytes, c + 5)
        <5>1. (c + 4) + 1 \in 1 .. cut /\ (c + 5) + 1 \in 1 .. cut
          BY <1>1, <2>1, <2>3, <2>5, <3>2
        <5> QED BY <1>1, <5>1 DEF Byte
      <4>2. Slice(part, start, e - 2) = Slice(bytes, start, e - 2)
        <5>0. start + 2 <= e /\ e <= cut /\ cut <= Len(bytes) /\ Len(part) = cut
          BY <1>1, <2>3, <2>5
        <5>1. start <= e - 2 /\ e - 2 <= Len(part) /\ e - 2 <= Len(bytes)
          BY <1>1, <2>3, <5>0
        <5>2. SubSeq(part, start + 1, e - 2) = SubSeq(bytes, start + 1, e - 2)
          <6>1. \A i \in start + 1 .. e - 2 : part[i] = bytes[i]
            <7>1. \A i \in start + 1 .. e - 2 : i \in 1 .. cut
              BY <1>1, <2>3, <2>5
            <7> QED BY <1>1, <7>1
          <6> QED BY <1>1, <2>3, <2>5, <6>1
        <5> QED BY <5>1, <5>2 DEF Slice
      <4> QED BY <3>2, <4>1, <4>2, NamesAre
    <3> QED BY <3>1, <3>2
  <2> QED BY <2>2, <2>7, <2>8, <2>9 DEF start
<1>6. ASSUME NEW c \in 0 .. cut, \A e \in c + 1 .. cut : Same(e) PROVE Same(c)
  <2>1. CASE \E e \in Nat : Passable(part, c, e)
    <3>1. PICK e \in Nat : Passable(part, c, e)
      BY <2>1
    <3> DEFINE start == c + Byte(bytes, c + 1)
    <3>2. /\ Passable(bytes, c, e) /\ e \in c + 6 .. cut
          /\ Byte(part, c) = Byte(bytes, c) /\ Byte(part, c + 1) = Byte(bytes, c + 1)
          /\ Names(part, c, start, e) = Names(bytes, c, start, e)
      BY <1>5, <3>1
    <3>3. short[c] = IF Byte(bytes, c) = SYSTEM_INFORMATION
                     THEN Names(bytes, c, start, e) ELSE short[e]
      <4>1. WalkBody(part, short, c)
              = IF Byte(part, c) = SYSTEM_INFORMATION
                THEN Names(part, c, c + Byte(part, c + 1), e) ELSE short[e]
        BY <1>1, <3>1, WalkStep, SMTT(30)
      <4> QED BY <1>4, <3>2, <4>1
    <3>4. walk[c] = IF Byte(bytes, c) = SYSTEM_INFORMATION
                    THEN Names(bytes, c, start, e) ELSE walk[e]
      <4>1. WalkBody(bytes, walk, c)
              = IF Byte(bytes, c) = SYSTEM_INFORMATION
                THEN Names(bytes, c, start, e) ELSE walk[e]
        BY <3>2, WalkStep
      <4> QED BY <1>4, <4>1
    <3>5. e \in c + 1 .. cut
      BY <1>1, <3>2
    <3>6. short[e] = {} \/ short[e] = walk[e]
      BY <1>6, <3>5
    <3> HIDE DEF start
    <3> QED BY <3>3, <3>4, <3>6
  <2>2. CASE ~\E e \in Nat : Passable(part, c, e)
    <3>0. c \in Nat
      BY <1>1
    <3>1. WalkBody(part, short, c) = {}
      BY <1>1, <2>2, <3>0, WalkStep
    <3> QED BY <1>4, <3>1
  <2> QED BY <2>1, <2>2
<1> HIDE DEF Same
<1>7. cut \in T
  <2>1. Same(cut)
    <3>1. \A e \in cut + 1 .. cut : Same(e)
      BY <1>1
    <3> QED BY <1>1, <1>6, <3>1
  <2> QED BY <1>1, <2>1
<1>8. ASSUME NEW c \in 0 .. cut - 1, c + 1 \in T PROVE c \in T
  <2>1. c \in 0 .. cut /\ \A e \in c + 1 .. cut : Same(e)
    BY <1>1, <1>8
  <2>2. Same(c)
    BY <1>6, <2>1
  <2>3. \A e \in c .. cut : e = c \/ e \in c + 1 .. cut
    BY <1>1
  <2> QED BY <2>1, <2>2, <2>3
<1>9. Same(0)
  <2> HIDE DEF T
  <2>1. \A c \in 0 .. cut : c \in T
    BY <1>1, <1>7, <1>8, DownwardInduction
  <2>2. 0 \in T
    BY <1>1, <2>1
  <2> QED BY <1>1, <2>2 DEF T
<1>10. short[0] = {} \/ short[0] = walk[0]
  BY <1>9 DEF Same
<1> QED BY <1>2, <1>3, <1>10 DEF part

-----------------------------------------------------------------------------
(* A run of strings: string k fills the bytes behind o[k - 1], and a zero  *)
(* byte at o[k] ends it.                                                   *)

Zeroed(st) == FlattenSeq([k \in DOMAIN st |-> Append(st[k], 0)])

NoZeros(st) == \A k \in 1 .. Len(st) : \A i \in 1 .. Len(st[k]) : st[k][i] # 0

StringAt(o, run, st, k) ==
  /\ o[k - 1] \in Nat /\ o[k] \in Nat /\ Len(st[k]) \in Nat
  /\ o[k] = o[k - 1] + Len(st[k]) + 1 /\ run[o[k]] = 0
  /\ \A j \in 1 .. Len(st[k]) : run[o[k - 1] + j] = st[k][j]

StringLayout(o, run, st) ==
  /\ o[0] = 0 /\ Len(run) = o[Len(st)]
  /\ \A k \in 1 .. Len(st) : StringAt(o, run, st, k)

LEMMA ZeroAdded ==
  ASSUME NEW t \in Seq(Nat)
  PROVE  /\ Append(t, 0) \in Seq(Nat) /\ Len(Append(t, 0)) = Len(t) + 1
         /\ Append(t, 0)[Len(t) + 1] = 0
         /\ \A j \in 1 .. Len(t) : Append(t, 0)[j] = t[j]
OBVIOUS

LEMMA RunLaidOut ==
  ASSUME NEW st \in Seq(Seq(Nat))
  PROVE  /\ Zeroed(st) \in Seq(Nat)
         /\ \E o \in [0 .. Len(st) -> Nat] : StringLayout(o, Zeroed(st), st)
<1> DEFINE n == Len(st)
           parts == [k \in DOMAIN st |-> Append(st[k], 0)]
           run == FlattenSeq(parts)
           A == Seq(Nat)
<1>0. n \in Nat /\ DOMAIN st = 1 .. n /\ \A k \in 1 .. n : st[k] \in Seq(Nat) /\ Len(st[k]) \in Nat
  OBVIOUS
<1>1. ASSUME NEW k \in 1 .. n
      PROVE  /\ parts[k] \in A /\ Len(parts[k]) = Len(st[k]) + 1
             /\ parts[k][Len(st[k]) + 1] = 0
             /\ \A j \in 1 .. Len(st[k]) : parts[k][j] = st[k][j]
  <2> DEFINE t == st[k]
  <2>1. t \in Seq(Nat) /\ parts[k] = Append(t, 0)
    BY <1>0
  <2> HIDE DEF t, parts
  <2>2. /\ parts[k] \in Seq(Nat) /\ Len(parts[k]) = Len(t) + 1
        /\ parts[k][Len(t) + 1] = 0
        /\ \A j \in 1 .. Len(t) : parts[k][j] = t[j]
    BY <2>1, ZeroAdded
  <2> QED BY <2>2 DEF t
<1>2. parts \in Seq(A) /\ Len(parts) = n
  <2>1. parts = [k \in 1 .. n |-> parts[k]]
    BY <1>0
  <2> HIDE DEF parts, n, A
  <2>2. \A k \in 1 .. n : parts[k] \in A
    BY <1>1
  <2>3. n \in Nat
    BY <1>0
  <2>4. [k \in 1 .. n |-> parts[k]] \in Seq(A)
    BY <2>2, <2>3
  <2>5. Len([k \in 1 .. n |-> parts[k]]) = n
    BY <2>3
  <2> QED BY <2>1, <2>4, <2>5
<1> HIDE DEF parts
<1>3. run \in Seq(Nat)
  BY <1>2, FlattenPositions
<1>4. PICK o \in [0 .. Len(parts) -> Nat] : Lies(o, run, parts)
  BY <1>2, FlattenPositions
<1>5. /\ o[0] = 0 /\ Len(run) = o[n]
      /\ \A k \in 1 .. n : /\ o[k] = o[k - 1] + Len(parts[k])
                           /\ \A j \in 1 .. Len(parts[k]) : run[o[k - 1] + j] = parts[k][j]
  BY <1>2, <1>4 DEF Lies
<1> HIDE DEF run, n, A
<1>6. ASSUME NEW k \in 1 .. n PROVE StringAt(o, run, st, k)
  <2> DEFINE m == Len(st[k])
             u == o[k - 1]
             v == o[k]
  <2>1. k - 1 \in 0 .. n /\ k \in 0 .. n
    BY <1>0
  <2>2. u \in Nat /\ v \in Nat
    BY <1>2, <1>4, <2>1
  <2>3. Len(parts[k]) = m + 1 /\ m \in Nat
    BY <1>0, <1>1
  <2>4. v = u + Len(parts[k])
    BY <1>5
  <2>5. parts[k][m + 1] = 0 /\ \A j \in 1 .. m : parts[k][j] = st[k][j]
    BY <1>1
  <2>6. \A j \in 1 .. Len(parts[k]) : run[u + j] = parts[k][j]
    BY <1>5
  <2> HIDE DEF m, u, v
  <2>7. v = u + m + 1 /\ v = u + (m + 1) /\ m + 1 \in 1 .. Len(parts[k])
    BY <2>2, <2>3, <2>4
  <2>8. run[v] = 0
    BY <2>5, <2>6, <2>7
  <2>9. ASSUME NEW j \in 1 .. m PROVE run[u + j] = st[k][j]
    <3>1. j \in 1 .. Len(parts[k])
      BY <2>3
    <3> QED BY <2>5, <2>6, <3>1
  <2> QED BY <2>2, <2>3, <2>7, <2>8, <2>9 DEF m, u, v, StringAt
<1>7. StringLayout(o, run, st)
  BY <1>5, <1>6 DEF StringLayout, n
<1> QED BY <1>2, <1>3, <1>4, <1>7 DEF Zeroed, run, parts, n

\* The zero bytes of a run are the ends of its strings.
ZeroFree(o, run, k) == \A i \in o[k - 1] + 1 .. o[k] - 1 : run[i] # 0

LEMMA ZerosOfRun ==
  ASSUME NEW st \in Seq(Seq(Nat)), NEW run, NEW o, NoZeros(st), NEW k \in 1 .. Len(st),
         StringAt(o, run, st, k)
  PROVE  ZeroFree(o, run, k)
<1> DEFINE m == Len(st[k])
           u == o[k - 1]
           v == o[k]
<1>1. /\ u \in Nat /\ v \in Nat /\ m \in Nat /\ v = u + m + 1
      /\ \A j \in 1 .. m : run[u + j] = st[k][j]
  BY DEF StringAt
<1>2. \A j \in 1 .. m : st[k][j] # 0
  BY DEF NoZeros
<1> HIDE DEF m, u, v
<1>3. ASSUME NEW i \in u + 1 .. v - 1 PROVE run[i] # 0
  <2>1. i - u \in 1 .. m /\ u + (i - u) = i
    BY <1>1
  <2> QED BY <1>1, <1>2, <2>1
<1> QED BY <1>3 DEF ZeroFree, u, v

\* A run of strings of which only the first can be empty ends with its first two
\* zero bytes.
ClosesOnce(run) ==
  /\ run \in Seq(Nat) /\ Len(run) \in Nat \ {0} /\ run[Len(run)] = 0
  /\ \A j \in 1 .. Len(run) - 1 : ~(run[j] = 0 /\ run[j + 1] = 0)

LEMMA RunCloses ==
  ASSUME NEW st \in Seq(Seq(Nat)), Len(st) # 0, NoZeros(st),
         \A k \in 2 .. Len(st) : Len(st[k]) # 0
  PROVE  ClosesOnce(Zeroed(st))
<1> DEFINE run == Zeroed(st)
           n == Len(st)
<1>0. n \in Nat /\ n \in 1 .. n
  OBVIOUS
<1>1. PICK o \in [0 .. n -> Nat] : StringLayout(o, run, st)
  BY RunLaidOut
<1>2. run \in Seq(Nat) /\ Len(run) \in Nat
  BY RunLaidOut
<1> HIDE DEF run
<1>3. /\ o[0] = 0 /\ Len(run) = o[n] /\ o[n] \in Nat
      /\ \A k \in 1 .. n : StringAt(o, run, st, k)
  BY <1>0, <1>1 DEF StringLayout
<1>4. \A k \in 1 .. n : ZeroFree(o, run, k)
  BY <1>3, ZerosOfRun
<1>5. run[Len(run)] = 0 /\ Len(run) # 0
  <2>1. StringAt(o, run, st, n)
    BY <1>0, <1>3
  <2> QED BY <1>3, <2>1 DEF StringAt
<1>6. ASSUME NEW j \in 1 .. Len(run) - 1, run[j] = 0, run[j + 1] = 0 PROVE FALSE
  <2>1. j \in 1 .. o[n] /\ j < o[n]
    BY <1>2, <1>3
  <2> HIDE DEF n
  <2>2. PICK k \in 1 .. n : o[k - 1] < j /\ j <= o[k]
    BY <1>0, <1>1, <1>3, <2>1, CellOfPart
  <2>3. j = o[k]
    <3> DEFINE u == o[k - 1]
               v == o[k]
    <3>1. u \in Nat /\ v \in Nat
      BY <1>3 DEF StringAt
    <3>2. \A i \in u + 1 .. v - 1 : run[i] # 0
      BY <1>4 DEF ZeroFree
    <3> HIDE DEF u, v
    <3>3. u < j /\ j <= v
      BY <2>2 DEF u, v
    <3>4. j \in Int
      BY <1>2
    <3>5. j = v
      BY <1>6, <3>1, <3>2, <3>3, <3>4
    <3> QED BY <3>5 DEF v
  <2>4. k + 1 \in 2 .. n /\ (k + 1) - 1 = k /\ k + 1 \in 1 .. n
    <3>1. k # n
      BY <2>1, <2>3
    <3> QED BY <1>0, <3>1
  <2>5. StringAt(o, run, st, k + 1) /\ ZeroFree(o, run, k + 1)
    BY <1>3, <1>4, <2>4
  <2> DEFINE w == o[k + 1]
             m == Len(st[k + 1])
  <2>6. w \in Nat /\ m \in Nat /\ w = j + m + 1 /\ m # 0
    BY <2>3, <2>4, <2>5 DEF StringAt, n
  <2>7. \A i \in j + 1 .. w - 1 : run[i] # 0
    BY <2>3, <2>4, <2>5 DEF ZeroFree
  <2>8. j \in Nat
    BY <1>2
  <2> HIDE DEF w, m
  <2>9. j + 1 \in j + 1 .. w - 1
    BY <2>6, <2>8
  <2> QED BY <1>6, <2>7, <2>9
<1> QED BY <1>2, <1>5, <1>6 DEF ClosesOnce, run

\* Behind a structure, such a run and one more zero byte are what run_end() looks for.
LEMMA RunEndsBehind ==
  ASSUME NEW run, ClosesOnce(run), NEW bytes, NEW c \in Nat,
         c + Len(run) + 1 <= Len(bytes), Len(bytes) \in Nat,
         \A j \in 1 .. Len(run) : bytes[c + j] = run[j],
         bytes[c + Len(run) + 1] = 0
  PROVE  RunEnds(bytes, c, c + Len(run) + 1)
<1> DEFINE m == Len(run)
           e == c + m + 1
<1>1. /\ m \in Nat \ {0} /\ run[m] = 0
      /\ \A j \in 1 .. m - 1 : ~(run[j] = 0 /\ run[j + 1] = 0)
  BY DEF ClosesOnce
<1> HIDE DEF m
<1>2. e \in c + 2 .. Len(bytes) /\ e - 1 = c + m /\ m \in 1 .. m
  BY <1>1 DEF m
<1>3. bytes[e - 1] = 0 /\ bytes[e] = 0
  BY <1>1, <1>2 DEF m
<1>4. ASSUME NEW x \in c + 2 .. e - 1, bytes[x - 1] = 0, bytes[x] = 0 PROVE FALSE
  <2> DEFINE j == x - 1 - c
  <2>1. /\ j \in 1 .. m - 1 /\ j \in 1 .. m /\ j + 1 \in 1 .. m
        /\ c + j = x - 1 /\ c + (j + 1) = x
    BY <1>1
  <2> HIDE DEF j, e
  <2>2. run[j] = 0 /\ run[j + 1] = 0
    BY <1>4, <2>1 DEF m
  <2> QED BY <1>1, <2>1, <2>2
<1> QED BY <1>2, <1>3, <1>4 DEF RunEnds, m

\* split() goes from one zero byte to the next (smbios/system.rs:97-110).
LEMMA NextMarkIs ==
  ASSUME NEW bytes \in Seq(Nat), NEW from \in Nat
  PROVE  /\ NextMark(bytes, from) \in Nat
         /\ \A e \in Nat : /\ e = Len(bytes) + 1 \/ (e \in from + 1 .. Len(bytes) /\ bytes[e] = 0)
                           /\ \A i \in from + 1 .. Len(bytes) : bytes[i] = 0 => e <= i
                           => NextMark(bytes, from) = e
<1> DEFINE N == Len(bytes)
           S == {i \in from + 1 .. N : bytes[i] = 0} \cup {N + 1}
<1>0. N \in Nat
  OBVIOUS
<1>1. S \in SUBSET Nat /\ S # {}
  BY <1>0
<1>2. Min(S) \in S /\ \A y \in S : Min(S) <= y
  <2> HIDE DEF S
  <2> QED BY <1>1, MinOfSet
<1>3. NextMark(bytes, from) = Min(S)
  BY DEF NextMark
<1> DEFINE m == Min(S)
<1> HIDE DEF m, N
<1>4. m \in Nat
  <2> HIDE DEF S
  <2> QED BY <1>1, <1>2 DEF m
<1>5. ASSUME NEW e \in Nat,
             e = N + 1 \/ (e \in from + 1 .. N /\ bytes[e] = 0),
             \A i \in from + 1 .. N : bytes[i] = 0 => e <= i
      PROVE  m = e
  <2>1. e \in S
    BY <1>5
  <2>2. m <= e
    <3> HIDE DEF S
    <3> QED BY <1>2, <2>1 DEF m
  <2>3. m = N + 1 \/ (m \in from + 1 .. N /\ bytes[m] = 0)
    <3>1. m \in S
      BY <1>2 DEF m
    <3> QED BY <3>1
  <2>4. e <= N + 1
    BY <1>0, <1>5
  <2>5. e <= m
    BY <1>0, <1>4, <1>5, <2>3, <2>4
  <2> QED BY <1>4, <2>2, <2>5
<1> QED BY <1>3, <1>4, <1>5 DEF m, N

Marks(bytes, mark) ==
  mark[0] = 0 /\ \A k \in 1 .. Len(bytes) + 1 : mark[k] = NextMark(bytes, mark[k - 1])

Cut(bytes, mark) ==
  [k \in {j \in 1 .. Len(bytes) + 1 : mark[j - 1] <= Len(bytes)} |->
     SubSeq(bytes, mark[k - 1] + 1, mark[k] - 1)]

LEMMA MarksExist ==
  ASSUME NEW bytes \in Seq(Nat)
  PROVE  \E mark : Marks(bytes, mark) /\ Pieces(bytes) = Cut(bytes, mark)
<1> DEFINE N == Len(bytes) + 1
           next == [x \in Nat \X Nat |-> NextMark(bytes, x[2])]
           Def(f) == [k \in 0 .. N |-> IF k = 0 THEN 0 ELSE NextMark(bytes, f[k - 1])]
           F == CHOOSE f : f = Def(f)
<1>0. N \in Nat
  OBVIOUS
<1>1. next \in [Nat \X Nat -> Nat]
  <2>1. ASSUME NEW x \in Nat \X Nat PROVE NextMark(bytes, x[2]) \in Nat
    <3>1. x[2] \in Nat
      OBVIOUS
    <3> QED BY <3>1, NextMarkIs
  <2> QED BY <2>1
<1>2. \A k \in Nat, y \in Nat : next[<<k, y>>] = NextMark(bytes, y)
  OBVIOUS
<1> HIDE DEF next, N
<1>3. PICK Q \in [0 .. N -> Nat] : Recurs(Q, 0, next, N)
  BY <1>0, <1>1, BoundedRecursion
<1>4. Q = Def(Q)
  <2>1. Q[0] = 0 /\ \A k \in 1 .. N : Q[k] = next[<<k, Q[k - 1]>>]
    BY <1>3 DEF Recurs
  <2>2. ASSUME NEW k \in 0 .. N
        PROVE  Q[k] = IF k = 0 THEN 0 ELSE NextMark(bytes, Q[k - 1])
    <3>1. CASE k = 0
      BY <2>1, <3>1
    <3>2. CASE k # 0
      <4>1. k \in 1 .. N /\ k - 1 \in 0 .. N /\ k \in Nat
        BY <1>0, <3>2
      <4>2. Q[k - 1] \in Nat
        BY <1>3, <4>1
      <4> QED BY <1>2, <2>1, <3>2, <4>1, <4>2
    <3> QED BY <3>1, <3>2
  <2> QED BY <1>3, <2>2
<1>5. F = Def(F)
  <2> HIDE DEF Def
  <2> QED BY <1>4
<1>6. Pieces(bytes) = Cut(bytes, F)
  BY DEF Pieces, Cut, N
<1> HIDE DEF F
<1>7. Marks(bytes, F)
  <2>1. \A k \in 0 .. N : F[k] = IF k = 0 THEN 0 ELSE NextMark(bytes, F[k - 1])
    BY <1>5
  <2>2. F[0] = 0
    BY <1>0, <2>1
  <2>3. \A k \in 1 .. N : k \in 0 .. N /\ k # 0
    BY <1>0
  <2>4. \A k \in 1 .. N : F[k] = NextMark(bytes, F[k - 1])
    BY <2>1, <2>3
  <2> QED BY <2>2, <2>4 DEF Marks, N
<1> QED BY <1>6, <1>7

\* The strings of a run, without the zero byte behind the last one.
Unclosed(st) == SubSeq(Zeroed(st), 1, Len(Zeroed(st)) - 1)

Splits(pieces, st) ==
  DOMAIN pieces = 1 .. Len(st) /\ \A k \in 1 .. Len(st) : pieces[k] = st[k]

LEMMA SliceIs ==
  ASSUME NEW s \in Seq(Nat), NEW a \in Nat \ {0}, NEW b \in Nat, a <= b + 1, b <= Len(s)
  PROVE  /\ SubSeq(s, a, b) \in Seq(Nat) /\ Len(SubSeq(s, a, b)) = b - a + 1
         /\ \A i \in 1 .. b - a + 1 : SubSeq(s, a, b)[i] = s[a + i - 1]
BY Sliced

LEMMA PiecesAre ==
  ASSUME NEW st \in Seq(Seq(Nat)), Len(st) # 0, NoZeros(st)
  PROVE  Unclosed(st) \in Seq(Nat) /\ Splits(Pieces(Unclosed(st)), st)
<1> DEFINE run == Zeroed(st)
           n == Len(st)
           W == SubSeq(run, 1, Len(run) - 1)
           L == Len(W)
<1>0. n \in Nat /\ n \in 1 .. n
  OBVIOUS
<1>1. PICK o \in [0 .. n -> Nat] : StringLayout(o, run, st)
  BY RunLaidOut
<1>2. run \in Seq(Nat) /\ Len(run) \in Nat
  BY RunLaidOut
<1> HIDE DEF run
<1>3. /\ o[0] = 0 /\ Len(run) = o[n] /\ o[n] \in Nat
      /\ \A k \in 1 .. n : StringAt(o, run, st, k)
  BY <1>0, <1>1 DEF StringLayout
<1>4. \A k \in 1 .. n : ZeroFree(o, run, k)
  BY <1>3, ZerosOfRun
<1>5. ASSUME NEW k \in 1 .. n PROVE o[k - 1] \in Nat /\ o[k] \in Nat /\ o[k - 1] + 1 <= o[k]
  <2>1. StringAt(o, run, st, k)
    BY <1>3
  <2> QED BY <2>1 DEF StringAt
<1> HIDE DEF n
<1>6. \A i \in 0 .. n, k \in 0 .. n : i <= k => o[i] <= o[k]
  <2>1. \A k \in 1 .. n : o[k - 1] <= o[k]
    BY <1>5
  <2> QED BY <1>0, <1>1, <2>1, OffsetsGrow
<1>7. \A k \in 0 .. n : k <= o[k]
  <2> DEFINE T == {k \in 0 .. n : k <= o[k]}
  <2>1. 0 \in T
    BY <1>0, <1>3
  <2>2. ASSUME NEW k \in 0 .. n - 1, k \in T PROVE k + 1 \in T
    <3>1. k + 1 \in 1 .. n /\ k + 1 \in 0 .. n /\ (k + 1) - 1 = k /\ k \in Nat
      BY <1>0
    <3>2. o[k] \in Nat /\ o[k + 1] \in Nat /\ o[k] + 1 <= o[k + 1]
      BY <1>5, <3>1
    <3>3. k <= o[k]
      BY <2>2
    <3>4. k + 1 <= o[k + 1]
      BY <3>1, <3>2, <3>3
    <3> QED BY <3>1, <3>4
  <2> HIDE DEF T
  <2>3. \A k \in 0 .. n : k \in T
    BY <1>0, <2>1, <2>2, BoundedInduction
  <2> QED BY <2>3 DEF T
<1>8. n <= o[n] /\ 1 <= o[n]
  BY <1>0, <1>3, <1>7
<1>9. W \in Seq(Nat) /\ L = o[n] - 1 /\ L \in Nat /\ \A i \in 1 .. L : W[i] = run[i]
  <2> DEFINE q == o[n]
  <2>1. q \in Nat /\ 1 <= q /\ Len(run) = q
    BY <1>3, <1>8
  <2> HIDE DEF q
  <2>2. /\ W \in Seq(Nat) /\ L = (q - 1) - 1 + 1
        /\ \A i \in 1 .. (q - 1) - 1 + 1 : W[i] = run[1 + i - 1]
    <3>1. q - 1 \in Nat /\ 1 <= (q - 1) + 1 /\ q - 1 <= Len(run)
      BY <2>1
    <3>2. W = SubSeq(run, 1, q - 1)
      BY <2>1
    <3> HIDE DEF W
    <3> QED BY <1>2, <3>1, <3>2, SliceIs
  <2> HIDE DEF W, L
  <2>3. \A i \in 1 .. (q - 1) - 1 + 1 : 1 + i - 1 = i
    BY <2>1
  <2>4. (q - 1) - 1 + 1 = q - 1 /\ q - 1 \in Nat
    BY <2>1
  <2> QED BY <2>2, <2>3, <2>4 DEF q
<1> HIDE DEF W, L
<1>10. PICK mark : Marks(W, mark) /\ Pieces(W) = Cut(W, mark)
  BY <1>9, MarksExist
<1>11. mark[0] = 0 /\ \A k \in 1 .. L + 1 : mark[k] = NextMark(W, mark[k - 1])
  BY <1>10 DEF Marks, L
<1>12. ASSUME NEW k \in 1 .. n PROVE NextMark(W, o[k - 1]) = o[k]
  <2> DEFINE u == o[k - 1]
             v == o[k]
  <2>1. u \in Nat /\ v \in Nat /\ u + 1 <= v
    BY <1>5
  <2>2. v <= L + 1
    <3>1. k \in 0 .. n /\ n \in 0 .. n /\ k <= n
      BY <1>0
    <3>2. o[k] <= o[n]
      BY <1>6, <3>1
    <3> QED BY <1>3, <1>9, <3>2
  <2>3. run[v] = 0 /\ \A i \in u + 1 .. v - 1 : run[i] # 0
    BY <1>3, <1>4 DEF StringAt, ZeroFree
  <2> HIDE DEF u, v
  <2>4. v = L + 1 \/ (v \in u + 1 .. L /\ W[v] = 0)
    <3>1. L \in Nat /\ (v = L + 1 \/ (v \in u + 1 .. L /\ v \in 1 .. L))
      BY <1>9, <2>1, <2>2
    <3>2. v \in 1 .. L => W[v] = run[v]
      BY <1>9
    <3> QED BY <2>3, <3>1, <3>2
  <2>5. ASSUME NEW i \in u + 1 .. L, W[i] = 0 PROVE v <= i
    <3>1. i \in 1 .. L /\ i \in Int
      BY <1>9, <2>1
    <3>2. run[i] = 0
      BY <1>9, <2>5, <3>1
    <3>3. i \notin u + 1 .. v - 1
      BY <2>3, <3>2
    <3> QED BY <1>9, <2>1, <3>1, <3>3
  <2>6. NextMark(W, u) = v
    BY <1>9, <2>1, <2>4, <2>5, NextMarkIs DEF L
  <2> QED BY <2>6 DEF u, v
<1>13. \A k \in 0 .. n : mark[k] = o[k]
  <2> DEFINE T == {k \in 0 .. n : mark[k] = o[k]}
  <2>1. 0 \in T
    BY <1>0, <1>3, <1>11
  <2>2. ASSUME NEW k \in 0 .. n - 1, k \in T PROVE k + 1 \in T
    <3>0. n <= L + 1 /\ L \in Nat
      BY <1>0, <1>3, <1>8, <1>9
    <3>1. k + 1 \in 1 .. n /\ k + 1 \in 0 .. n /\ (k + 1) - 1 = k /\ k + 1 \in 1 .. L + 1
      BY <1>0, <3>0
    <3>2. mark[k] = o[k]
      BY <2>2
    <3>3. mark[k + 1] = NextMark(W, mark[k])
      BY <1>11, <3>1
    <3>4. NextMark(W, o[k]) = o[k + 1]
      BY <1>12, <3>1
    <3> QED BY <3>1, <3>2, <3>3, <3>4
  <2> HIDE DEF T
  <2>3. \A k \in 0 .. n : k \in T
    BY <1>0, <2>1, <2>2, BoundedInduction
  <2> QED BY <2>3 DEF T
<1>14. ASSUME NEW k \in n .. L + 1 PROVE mark[k] = L + 1
  <2> DEFINE T == {j \in 0 .. (L + 1) - n : mark[n + j] = L + 1}
             D == (L + 1) - n
  <2>0. D \in Nat /\ n + 0 = n
    BY <1>0, <1>3, <1>8, <1>9
  <2>1. 0 \in T
    <3>1. mark[n] = L + 1
      BY <1>0, <1>3, <1>9, <1>13
    <3> QED BY <2>0, <3>1
  <2>2. ASSUME NEW j \in 0 .. D - 1, j \in T PROVE j + 1 \in T
    <3>0. n \in Nat /\ L \in Nat /\ j \in Nat /\ j + 1 <= D
      BY <1>0, <1>9, <2>0
    <3>1. /\ n + (j + 1) \in 1 .. L + 1 /\ (n + (j + 1)) - 1 = n + j /\ j + 1 \in 0 .. D
      BY <3>0
    <3>2. mark[n + (j + 1)] = NextMark(W, L + 1)
      <4>1. mark[n + j] = L + 1
        BY <2>2
      <4> QED BY <1>11, <3>1, <4>1
    <3>3. NextMark(W, L + 1) = L + 1
      <4>0. L \in Nat
        BY <1>9
      <4>1. L + 1 \in Nat /\ \A i \in (L + 1) + 1 .. L : FALSE
        BY <4>0
      <4> QED BY <1>9, <4>1, NextMarkIs DEF L
    <3> QED BY <3>1, <3>2, <3>3
  <2>3. k - n \in 0 .. D /\ n + (k - n) = k
    BY <1>0, <1>9
  <2> HIDE DEF T, D
  <2>4. \A j \in 0 .. D : j \in T
    BY <2>0, <2>1, <2>2, BoundedInduction
  <2>5. k - n \in T
    BY <2>3, <2>4
  <2> QED BY <2>3, <2>5 DEF T
<1>15. {j \in 1 .. L + 1 : mark[j - 1] <= L} = 1 .. n
  <2>1. ASSUME NEW j \in 1 .. n PROVE j \in 1 .. L + 1 /\ mark[j - 1] <= L
    <3>1. j \in 1 .. L + 1 /\ j - 1 \in 0 .. n /\ j \in 0 .. n /\ n \in 0 .. n /\ j <= n
      BY <1>0, <1>3, <1>8, <1>9
    <3>2. mark[j - 1] = o[j - 1] /\ o[j] <= o[n]
      BY <1>6, <1>13, <3>1
    <3>3. o[j - 1] \in Nat /\ o[j] \in Nat /\ o[j - 1] + 1 <= o[j]
      BY <1>5
    <3> QED BY <1>3, <1>9, <3>1, <3>2, <3>3
  <2>2. ASSUME NEW j \in 1 .. L + 1, mark[j - 1] <= L PROVE j \in 1 .. n
    <3>1. ASSUME j \notin 1 .. n PROVE j - 1 \in n .. L + 1
      BY <1>0, <1>9, <3>1
    <3>2. ASSUME j \notin 1 .. n PROVE mark[j - 1] = L + 1
      BY <1>14, <3>1, <3>2
    <3> QED BY <1>9, <2>2, <3>2
  <2> QED BY <2>1, <2>2
<1>16. ASSUME NEW k \in 1 .. n PROVE SubSeq(W, mark[k - 1] + 1, mark[k] - 1) = st[k]
  <2> DEFINE u == o[k - 1]
             v == o[k]
             t == st[k]
  <2>1. mark[k - 1] = u /\ mark[k] = v
    <3>1. k - 1 \in 0 .. n /\ k \in 0 .. n
      BY <1>0
    <3> QED BY <1>13, <3>1
  <2>2. /\ u \in Nat /\ v \in Nat /\ Len(t) \in Nat /\ v = u + Len(t) + 1
        /\ \A j \in 1 .. Len(t) : run[u + j] = t[j]
    BY <1>3 DEF StringAt
  <2>3. v <= L + 1
    <3>1. k \in 0 .. n /\ n \in 0 .. n /\ k <= n
      BY <1>0
    <3>2. o[k] <= o[n]
      BY <1>6, <3>1
    <3> QED BY <1>3, <1>9, <3>2
  <2>4. t \in Seq(Nat)
    BY DEF n
  <2> HIDE DEF u, v, t
  <2> DEFINE s == SubSeq(W, u + 1, v - 1)
  <2>5. s \in Seq(Nat) /\ Len(s) = Len(t) /\ \A i \in 1 .. Len(t) : s[i] = W[u + i]
    <3>1. /\ u + 1 \in Nat \ {0} /\ v - 1 \in Nat /\ u + 1 <= (v - 1) + 1 /\ v - 1 <= L
          /\ (v - 1) - (u + 1) + 1 = Len(t)
      BY <1>9, <2>2, <2>3
    <3>2. \A i \in 1 .. Len(t) : (u + 1) + i - 1 = u + i
      BY <2>2
    <3>3. /\ s \in Seq(Nat) /\ Len(s) = (v - 1) - (u + 1) + 1
          /\ \A i \in 1 .. (v - 1) - (u + 1) + 1 : s[i] = W[(u + 1) + i - 1]
      BY <1>9, <3>1, SliceIs DEF L
    <3> HIDE DEF s
    <3> DEFINE d == Len(t)
               r == (v - 1) - (u + 1) + 1
    <3>4. r = d /\ Len(s) = r
      BY <3>1, <3>3
    <3>5. \A i \in 1 .. r : s[i] = W[(u + 1) + i - 1]
      BY <3>3
    <3> HIDE DEF r
    <3>6. \A i \in 1 .. d : s[i] = W[(u + 1) + i - 1]
      BY <3>4, <3>5
    <3>7. \A i \in 1 .. d : s[i] = W[u + i]
      BY <3>2, <3>6
    <3> QED BY <3>3, <3>4, <3>7
  <2>6. ASSUME NEW i \in 1 .. Len(t) PROVE s[i] = t[i]
    <3>1. u + i \in 1 .. L
      <4> DEFINE m == Len(t)
      <4>0. i \in 1 .. m
        OBVIOUS
      <4>1. u \in Nat /\ m \in Nat /\ L \in Nat /\ v = u + m + 1 /\ v <= L + 1
        BY <1>9, <2>2, <2>3
      <4> HIDE DEF m, L
      <4>2. u + m <= L
        BY <4>1
      <4> QED BY <4>0, <4>1, <4>2, PositionIn
    <3> HIDE DEF s
    <3> QED BY <1>9, <2>2, <2>5, <3>1
  <2>7. s = t
    <3> HIDE DEF s
    <3> QED BY <2>4, <2>5, <2>6, SameSequence
  <2> QED BY <2>1, <2>7 DEF t
<1>17. Splits(Pieces(W), st)
  <2>1. Cut(W, mark) = [k \in 1 .. n |-> SubSeq(W, mark[k - 1] + 1, mark[k] - 1)]
    BY <1>15 DEF Cut, L
  <2> QED BY <1>10, <1>16, <2>1 DEF Splits, n
<1> QED BY <1>9, <1>17 DEF W, run, Unclosed

-----------------------------------------------------------------------------
(* A structure, its strings and the byte behind them.                      *)

\* What FirmwareAssumption states about one structure.
WellFormed(s) ==
  /\ s \in Structure /\ s.kind # END_OF_TABLE
  /\ \A j \in DOMAIN s.strings :
       /\ s.strings[j] # <<>>
       /\ \A i \in DOMAIN s.strings[j] : s.strings[j][i] # 0

LEMMA StringsHeld ==
  ASSUME NEW s, WellFormed(s)
  PROVE  /\ Strings(s) \in Seq(Seq(Nat)) /\ Len(Strings(s)) # 0 /\ NoZeros(Strings(s))
         /\ \A k \in 2 .. Len(Strings(s)) : Len(Strings(s)[k]) # 0
<1> DEFINE A == Seq(Nat)
           given == s.strings
<1>1. given \in Seq(A)
  BY DEF WellFormed, Structure
<1>2. \A j \in DOMAIN given : given[j] # <<>> /\ \A i \in DOMAIN given[j] : given[j][i] # 0
  BY DEF WellFormed
<1>3. \A t \in A : Len(t) = 0 => t = <<>>
  OBVIOUS
<1>4. <<>> \in A /\ Len(<<>>) = 0 /\ \A t \in A : DOMAIN t = 1 .. Len(t)
  OBVIOUS
<1> HIDE DEF A, given
<1>5. CASE given = <<>>
  <2> DEFINE e == <<>>
  <2>1. Strings(s) = <<e>>
    BY <1>5 DEF Strings, given
  <2>2. e \in A /\ Len(e) = 0
    BY <1>4
  <2> HIDE DEF e
  <2>3. <<e>> \in Seq(A) /\ Len(<<e>>) = 1 /\ <<e>>[1] = e
    BY <2>2
  <2>4. NoZeros(<<e>>)
    BY <2>2, <2>3 DEF NoZeros
  <2>5. \A k \in 2 .. Len(<<e>>) : FALSE
    BY <2>3
  <2> QED BY <2>1, <2>3, <2>4, <2>5 DEF A
<1>6. CASE given # <<>>
  <2>1. Strings(s) = given
    BY <1>6 DEF Strings, given
  <2>2. Len(given) # 0 /\ Len(given) \in Nat /\ DOMAIN given = 1 .. Len(given)
    BY <1>1, <1>6
  <2>3. ASSUME NEW k \in 1 .. Len(given)
        PROVE  Len(given[k]) # 0 /\ \A i \in 1 .. Len(given[k]) : given[k][i] # 0
    <3> DEFINE t == given[k]
    <3>1. t \in A /\ t # <<>> /\ \A i \in DOMAIN t : t[i] # 0
      BY <1>1, <1>2, <2>2
    <3> HIDE DEF t
    <3>2. Len(t) # 0 /\ DOMAIN t = 1 .. Len(t)
      BY <1>3, <1>4, <3>1
    <3> QED BY <3>1, <3>2 DEF t
  <2>4. NoZeros(given)
    BY <2>3 DEF NoZeros
  <2>5. \A k \in 2 .. Len(given) : k \in 1 .. Len(given)
    BY <2>2
  <2>6. \A k \in 2 .. Len(given) : Len(given[k]) # 0
    BY <2>3, <2>5
  <2> QED BY <1>1, <2>1, <2>2, <2>4, <2>6 DEF A
<1> QED BY <1>5, <1>6

\* The bytes of a structure behind the first c bytes.
StructureAt(bytes, c, s) ==
  LET x == 6 + s.extra
      z == Zeroed(Strings(s))
  IN  /\ c + x + Len(z) + 1 <= Len(bytes)
      /\ bytes[c + 1] = s.kind /\ bytes[c + 2] = x
      /\ bytes[c + 5] = s.m /\ bytes[c + 6] = s.p
      /\ \A j \in 1 .. Len(z) : bytes[c + x + j] = z[j]
      /\ bytes[c + x + Len(z) + 1] = 0

LEMMA SixBytes ==
  ASSUME NEW a \in Nat, NEW b \in Nat, NEW c \in Nat, NEW d \in Nat
  PROVE  LET head == <<a, b, 0, 0, c, d>>
         IN  /\ head \in Seq(Nat) /\ Len(head) = 6
             /\ head[1] = a /\ head[2] = b /\ head[5] = c /\ head[6] = d
OBVIOUS

LEMMA StructureBytes ==
  ASSUME NEW s, WellFormed(s)
  PROVE  /\ Structured(s) \in Seq(Nat)
         /\ Len(Structured(s)) = 6 + s.extra + Len(Zeroed(Strings(s))) + 1
         /\ StructureAt(Structured(s), 0, s)
<1> DEFINE head == <<s.kind, HEADER_BYTES + 2 + s.extra, 0, 0, s.m, s.p>>
           gap == [i \in 1 .. s.extra |-> 0]
           z == Zeroed(Strings(s))
           end == <<0>>
           a == head \o gap
           b == a \o z
           all == b \o end
<1>1. s.kind \in Nat /\ s.extra \in Nat /\ s.m \in Nat /\ s.p \in Nat
  BY DEF WellFormed, Structure
<1>2. HEADER_BYTES + 2 + s.extra = 6 + s.extra
  BY <1>1 DEF HEADER_BYTES
<1>3. /\ head \in Seq(Nat) /\ Len(head) = 6 /\ head[1] = s.kind /\ head[2] = 6 + s.extra
      /\ head[5] = s.m /\ head[6] = s.p
  <2> DEFINE l == HEADER_BYTES + 2 + s.extra
  <2>1. l \in Nat /\ l = 6 + s.extra
    BY <1>1, <1>2
  <2>2. /\ head \in Seq(Nat) /\ Len(head) = 6 /\ head[1] = s.kind /\ head[2] = l
        /\ head[5] = s.m /\ head[6] = s.p
    BY <1>1, <2>1, SixBytes
  <2> QED BY <2>1, <2>2
<1>4. gap \in Seq(Nat) /\ Len(gap) = s.extra
  BY <1>1
<1>5. z \in Seq(Nat) /\ Len(z) \in Nat
  BY StringsHeld, RunLaidOut
<1>6. end \in Seq(Nat) /\ Len(end) = 1 /\ end[1] = 0
  OBVIOUS
<1>7. Structured(s) = all
  BY DEF Structured, Zeroed
<1> HIDE DEF head, gap, z, end
<1>8. a \in Seq(Nat) /\ Joins(a, head, gap)
  BY <1>3, <1>4, Joined
<1> HIDE DEF a
<1>9. b \in Seq(Nat) /\ Joins(b, a, z)
  BY <1>5, <1>8, Joined
<1> HIDE DEF b
<1>10. all \in Seq(Nat) /\ Joins(all, b, end)
  BY <1>6, <1>9, Joined
<1> HIDE DEF all
<1> DEFINE x == 6 + s.extra
           n == Len(z)
<1>11. x \in Nat /\ x >= 6 /\ n \in Nat
  BY <1>1, <1>5
<1>12. Len(a) = x /\ \A i \in 1 .. 6 : a[i] = head[i]
  BY <1>3, <1>4, <1>8 DEF Joins
<1>13. /\ Len(b) = x + n /\ (\A i \in 1 .. x : b[i] = a[i])
       /\ \A i \in 1 .. n : b[x + i] = z[i]
  BY <1>9, <1>12 DEF Joins
<1>14. /\ Len(all) = x + n + 1 /\ (\A i \in 1 .. x + n : all[i] = b[i])
       /\ all[x + n + 1] = 0
  <2>1. 1 \in 1 .. Len(end)
    BY <1>6
  <2> QED BY <1>6, <1>10, <1>13, <2>1 DEF Joins
<1> HIDE DEF x, n
<1>15. ASSUME NEW i \in 1 .. 6 PROVE all[i] = head[i]
  <2>1. i \in 1 .. x + n /\ i \in 1 .. x
    BY <1>11
  <2> QED BY <1>12, <1>13, <1>14, <2>1
<1>16. all[1] = s.kind /\ all[2] = x /\ all[5] = s.m /\ all[6] = s.p
  BY <1>3, <1>15 DEF x
<1>17. ASSUME NEW j \in 1 .. n PROVE all[x + j] = z[j]
  <2>1. x + j \in 1 .. x + n
    BY <1>11
  <2> QED BY <1>13, <1>14, <2>1
<1>18. StructureAt(all, 0, s)
  <2>1. 0 + 1 = 1 /\ 0 + 2 = 2 /\ 0 + 5 = 5 /\ 0 + 6 = 6 /\ 0 + x = x /\ 0 + x + n + 1 = x + n + 1
    BY <1>11
  <2>2. 0 + x + n + 1 <= Len(all)
    BY <1>11, <1>14
  <2>3. /\ all[0 + 1] = s.kind /\ all[0 + 2] = x /\ all[0 + 5] = s.m /\ all[0 + 6] = s.p
        /\ all[0 + x + n + 1] = 0
    BY <1>14, <1>16, <2>1
  <2>4. \A j \in 1 .. n : all[0 + x + j] = z[j]
    BY <1>17, <2>1
  <2> QED BY <2>2, <2>3, <2>4 DEF StructureAt, x, n, z
<1> QED BY <1>7, <1>10, <1>14, <1>18 DEF x, n, z

\* The walk passes a structure, or takes the names from its own strings.
LEMMA StructureSteps ==
  ASSUME NEW bytes \in Seq(Nat), NEW c \in Nat, NEW s, WellFormed(s),
         StructureAt(bytes, c, s), NEW walk
  PROVE  WalkBody(bytes, walk, c)
           = IF s.kind = SYSTEM_INFORMATION THEN NamesIn(Unclosed(Strings(s)), s.m, s.p)
             ELSE walk[c + (6 + s.extra + Len(Zeroed(Strings(s))) + 1)]
<1> DEFINE x == 6 + s.extra
           z == Zeroed(Strings(s))
           n == Len(z)
           start == c + x
           e == start + n + 1
<1>1. x \in Nat /\ x >= 6 /\ s.kind # END_OF_TABLE
  BY DEF WellFormed, Structure
<1>2. ClosesOnce(z)
  BY StringsHeld, RunCloses
<1>3. z \in Seq(Nat) /\ n \in Nat \ {0}
  BY <1>2 DEF ClosesOnce
<1>4. /\ c + x + n + 1 <= Len(bytes)
      /\ bytes[c + 1] = s.kind /\ bytes[c + 2] = x
      /\ bytes[c + 5] = s.m /\ bytes[c + 6] = s.p
      /\ \A j \in 1 .. n : bytes[c + x + j] = z[j]
      /\ bytes[c + x + n + 1] = 0
  BY DEF StructureAt
<1>5. Unclosed(Strings(s)) = SubSeq(z, 1, n - 1)
  BY DEF Unclosed
<1> HIDE DEF x, z
<1>6. Len(bytes) \in Nat /\ start \in Nat
  BY <1>1
<1> HIDE DEF n
<1>7. RunEnds(bytes, start, e)
  <2> HIDE DEF start
  <2> QED BY <1>2, <1>4, <1>6, RunEndsBehind DEF n, start
<1>8. Byte(bytes, c) = s.kind /\ Byte(bytes, c + 1) = x
      /\ Byte(bytes, c + 4) = s.m /\ Byte(bytes, c + 5) = s.p
  <2>1. (c + 1) + 1 = c + 2 /\ (c + 4) + 1 = c + 5 /\ (c + 5) + 1 = c + 6
    OBVIOUS
  <2> QED BY <1>4, <2>1 DEF Byte
<1>9. Passable(bytes, c, e)
  <2>1. c + HEADER_BYTES <= Len(bytes) /\ x >= HEADER_BYTES
    BY <1>1, <1>3, <1>4, <1>6 DEF HEADER_BYTES
  <2> QED BY <1>1, <1>7, <1>8, <2>1 DEF Passable
<1>10. WalkBody(bytes, walk, c)
         = IF s.kind = SYSTEM_INFORMATION THEN Names(bytes, c, start, e) ELSE walk[e]
  <2> HIDE DEF e
  <2>1. WalkBody(bytes, walk, c)
          = IF Byte(bytes, c) = SYSTEM_INFORMATION
            THEN Names(bytes, c, c + Byte(bytes, c + 1), e) ELSE walk[e]
    BY <1>9, WalkStep
  <2> QED BY <1>8, <2>1
<1>11. Slice(bytes, start, e - 2) = {SubSeq(z, 1, n - 1)}
  <2>1. /\ start \in Nat /\ start + 1 \in Nat \ {0} /\ e - 2 \in Nat /\ start <= e - 2
        /\ e - 2 <= Len(bytes) /\ start + 1 <= (e - 2) + 1
        /\ (e - 2) - (start + 1) + 1 = n - 1
    <3>1. start + n + 1 <= Len(bytes) /\ e = start + n + 1
      BY <1>4
    <3> HIDE DEF start, e
    <3> QED BY <1>3, <1>6, <3>1
  <2>2. Slice(bytes, start, e - 2) = {SubSeq(bytes, start + 1, e - 2)}
    <3> HIDE DEF e, start
    <3> QED BY <2>1 DEF Slice
  <2> DEFINE p == SubSeq(bytes, start + 1, e - 2)
             q == SubSeq(z, 1, n - 1)
  <2>3. /\ p \in Seq(Nat) /\ Len(p) = n - 1
        /\ \A i \in 1 .. n - 1 : p[i] = bytes[(start + 1) + i - 1]
    <3> HIDE DEF e, start
    <3> DEFINE a == start + 1
               b == e - 2
    <3>1. a \in Nat \ {0} /\ b \in Nat /\ a <= b + 1 /\ b <= Len(bytes) /\ b - a + 1 = n - 1
      BY <2>1
    <3>2. p = SubSeq(bytes, a, b)
      OBVIOUS
    <3> HIDE DEF a, b, p
    <3>3. /\ p \in Seq(Nat) /\ Len(p) = n - 1
          /\ \A i \in 1 .. n - 1 : p[i] = bytes[a + i - 1]
      BY <3>1, <3>2, SliceIs
    <3> QED BY <3>3 DEF a
  <2>4. /\ q \in Seq(Nat) /\ Len(q) = (n - 1) - 1 + 1
        /\ \A i \in 1 .. (n - 1) - 1 + 1 : q[i] = z[1 + i - 1]
    <3>1. n - 1 \in Nat /\ 1 <= (n - 1) + 1 /\ n - 1 <= Len(z)
      BY <1>3 DEF n
    <3> QED BY <1>3, <3>1, SliceIs
  <2>5. Len(q) = n - 1 /\ \A i \in 1 .. n - 1 : q[i] = z[i]
    <3>1. (n - 1) - 1 + 1 = n - 1 /\ \A i \in 1 .. n - 1 : 1 + i - 1 = i
      BY <1>3
    <3> HIDE DEF q
    <3> QED BY <2>4, <3>1
  <2>6. ASSUME NEW i \in 1 .. n - 1 PROVE p[i] = q[i]
    <3>1. i \in 1 .. n /\ (start + 1) + i - 1 = start + i
      BY <1>3, <1>6
    <3>2. bytes[start + i] = z[i]
      BY <1>4, <3>1
    <3> HIDE DEF p, q, start
    <3> QED BY <2>3, <2>5, <3>1, <3>2
  <2>7. p = q
    <3> HIDE DEF p, q
    <3> QED BY <2>3, <2>4, <2>5, <2>6, SameSequence
  <2> QED BY <2>2, <2>7
<1>12. OneOf(Slice(bytes, start, e - 2)) = Unclosed(Strings(s))
  <2> DEFINE w == SubSeq(z, 1, n - 1)
  <2> HIDE DEF w
  <2>1. OneOf({w}) = w
    BY DEF OneOf
  <2>2. Slice(bytes, start, e - 2) = {w}
    BY <1>11 DEF w
  <2>3. w = Unclosed(Strings(s))
    BY <1>5 DEF w
  <2> QED BY <2>1, <2>2, <2>3
<1>13. Names(bytes, c, start, e) = NamesIn(Unclosed(Strings(s)), s.m, s.p)
  <2>1. ~(start < c + 6)
    BY <1>1
  <2>2. Names(bytes, c, start, e)
          = NamesIn(OneOf(Slice(bytes, start, e - 2)), Byte(bytes, c + 4), Byte(bytes, c + 5))
    <3> HIDE DEF start, e
    <3> QED BY <2>1, NamesAre
  <2> QED BY <1>8, <1>12, <2>2
<1>14. e = c + (x + n + 1)
  BY <1>1, <1>3
<1> QED BY <1>10, <1>13, <1>14 DEF x, n, z

\* A string by its number: none for zero (smbios/system.rs:97-110).
Numbered(st, k) == IF k = 0 THEN <<>> ELSE st[k]

LEMMA StringIs ==
  ASSUME NEW st \in Seq(Seq(Nat)), Len(st) # 0, NoZeros(st), NEW k \in Nat
  PROVE  string(Unclosed(st), k)
           = IF k \in 0 .. Len(st) THEN {text \in {Numbered(st, k)} : Utf8(text)} ELSE {}
<1> DEFINE w == Unclosed(st)
           n == Len(st)
<1>1. n \in Nat
  OBVIOUS
<1>2. DOMAIN Pieces(w) = 1 .. n /\ \A j \in 1 .. n : Pieces(w)[j] = st[j]
  BY PiecesAre DEF Splits
<1> HIDE DEF w, n
<1>3. CASE k = 0
  <2>1. string(w, k) = {<<>>}
    BY <1>3 DEF string
  <2>2. Numbered(st, k) = <<>> /\ Utf8(<<>>) /\ k \in 0 .. n
    BY <1>1, <1>3 DEF Numbered, Utf8
  <2> QED BY <2>1, <2>2 DEF w, n
<1>4. CASE k # 0 /\ k \notin 0 .. n
  <2>1. k \notin 1 .. n
    BY <1>1, <1>4
  <2>2. string(w, k) = {}
    BY <1>2, <1>4, <2>1 DEF string
  <2> QED BY <1>4, <2>2 DEF w, n
<1>5. CASE k # 0 /\ k \in 0 .. n
  <2>1. k \in 1 .. n
    BY <1>1, <1>5
  <2>2. string(w, k) = {text \in {Pieces(w)[k]} : Utf8(text)}
    BY <1>2, <1>5, <2>1 DEF string
  <2>3. Pieces(w)[k] = Numbered(st, k)
    BY <1>2, <1>5, <2>1 DEF Numbered
  <2> QED BY <1>5, <2>2, <2>3 DEF w, n
<1> QED BY <1>3, <1>4, <1>5

-----------------------------------------------------------------------------
(* The table: structure k fills the bytes behind o[k - 1].                 *)

LEMMA StructureMoves ==
  ASSUME NEW b, NEW s, WellFormed(s), StructureAt(b, 0, s),
         Len(b) = 6 + s.extra + Len(Zeroed(Strings(s))) + 1,
         NEW bytes, Len(bytes) \in Nat, NEW c \in Nat, c + Len(b) <= Len(bytes),
         \A i \in 1 .. Len(b) : bytes[c + i] = b[i]
  PROVE  StructureAt(bytes, c, s)
<1> DEFINE x == 6 + s.extra
           z == Zeroed(Strings(s))
           n == Len(z)
<1>1. x \in Nat /\ x >= 6
  BY DEF WellFormed, Structure
<1>2. n \in Nat
  BY StringsHeld, RunLaidOut
<1>3. /\ b[0 + 1] = s.kind /\ b[0 + 2] = x /\ b[0 + 5] = s.m /\ b[0 + 6] = s.p
      /\ \A j \in 1 .. n : b[0 + x + j] = z[j]
      /\ b[0 + x + n + 1] = 0
  BY DEF StructureAt
<1>4. Len(b) = x + n + 1
  OBVIOUS
<1> HIDE DEF x, n
<1>5. /\ 1 \in 1 .. Len(b) /\ 2 \in 1 .. Len(b) /\ 5 \in 1 .. Len(b) /\ 6 \in 1 .. Len(b)
      /\ x + n + 1 \in 1 .. Len(b)
  <2> DEFINE l == Len(b)
  <2>1. l = x + n + 1
    BY <1>4
  <2> HIDE DEF l
  <2>2. 1 \in 1 .. l /\ 2 \in 1 .. l /\ 5 \in 1 .. l /\ 6 \in 1 .. l /\ l \in 1 .. l
    BY <1>1, <1>2, <2>1
  <2> QED BY <2>1, <2>2 DEF l
<1>6. /\ bytes[c + 1] = s.kind /\ bytes[c + 2] = x /\ bytes[c + 5] = s.m
      /\ bytes[c + 6] = s.p
  <2>1. b[1] = s.kind /\ b[2] = x /\ b[5] = s.m /\ b[6] = s.p
    BY <1>3
  <2> QED BY <1>5, <2>1
<1>7. bytes[c + x + n + 1] = 0
  <2>1. c + (x + n + 1) = c + x + n + 1 /\ 0 + x + n + 1 = x + n + 1
    BY <1>1, <1>2
  <2>2. bytes[c + (x + n + 1)] = b[x + n + 1]
    BY <1>5
  <2> QED BY <1>3, <2>1, <2>2
<1>8. ASSUME NEW j \in 1 .. n PROVE bytes[c + x + j] = z[j]
  <2>1. x + j \in 1 .. Len(b) /\ c + (x + j) = c + x + j /\ 0 + x + j = x + j
    BY <1>1, <1>2, <1>4, SMTT(30)
  <2>2. bytes[c + (x + j)] = b[x + j]
    BY <2>1
  <2> QED BY <1>3, <2>1, <2>2
<1>9. c + x + n + 1 <= Len(bytes)
  BY <1>1, <1>2, <1>4
<1> QED BY <1>6, <1>7, <1>8, <1>9 DEF StructureAt, x, n

TableBytes(table) == SubSeq(RawTable(table), RAW_HEADER + 1, Len(RawTable(table)))

TableLayout(o, bytes, table) ==
  /\ o[0] = 0
  /\ \A k \in 1 .. Len(table) :
       /\ o[k - 1] \in Nat
       /\ o[k] = o[k - 1] + (6 + table[k].extra + Len(Zeroed(Strings(table[k]))) + 1)
       /\ StructureAt(bytes, o[k - 1], table[k])
  /\ o[Len(table)] \in Nat /\ Len(bytes) = o[Len(table)] + 6
  /\ bytes[o[Len(table)] + 1] = END_OF_TABLE

LEMMA TableLaidOut ==
  ASSUME NEW table \in Seq(Structure), \A k \in 1 .. Len(table) : WellFormed(table[k])
  PROVE  /\ TableBytes(table) \in Seq(Nat)
         /\ \E o : TableLayout(o, TableBytes(table), table)
<1> DEFINE n == Len(table)
           parts == [k \in DOMAIN table |-> Structured(table[k])]
           flat == FlattenSeq(parts)
           A == Seq(Nat)
           header == [i \in 1 .. RAW_HEADER |-> 0]
           tail == <<END_OF_TABLE, HEADER_BYTES, 0, 0, 0, 0>>
           a == header \o flat
           raw == a \o tail
           bytes == SubSeq(raw, 9, Len(raw))
<1>0. n \in Nat /\ DOMAIN table = 1 .. n
  OBVIOUS
<1>1. ASSUME NEW k \in 1 .. n
      PROVE  /\ parts[k] \in A /\ WellFormed(table[k])
             /\ Len(parts[k]) = 6 + table[k].extra + Len(Zeroed(Strings(table[k]))) + 1
             /\ StructureAt(parts[k], 0, table[k])
  <2>1. parts[k] = Structured(table[k]) /\ WellFormed(table[k])
    BY <1>0
  <2> HIDE DEF parts
  <2> QED BY <2>1, StructureBytes
<1>2. parts \in Seq(A) /\ Len(parts) = n
  <2>1. parts = [k \in 1 .. n |-> parts[k]]
    BY <1>0
  <2> HIDE DEF parts, n, A
  <2>2. \A k \in 1 .. n : parts[k] \in A
    BY <1>1
  <2>3. n \in Nat
    BY <1>0
  <2>4. [k \in 1 .. n |-> parts[k]] \in Seq(A)
    BY <2>2, <2>3
  <2>5. Len([k \in 1 .. n |-> parts[k]]) = n
    BY <2>3
  <2> QED BY <2>1, <2>4, <2>5
<1>3. TableBytes(table) = bytes
  BY DEF TableBytes, RawTable, RAW_HEADER
<1> HIDE DEF parts
<1>4. flat \in Seq(Nat)
  BY <1>2, FlattenPositions
<1>5. PICK o \in [0 .. Len(parts) -> Nat] : Lies(o, flat, parts)
  BY <1>2, FlattenPositions
<1>6. /\ o[0] = 0 /\ Len(flat) = o[n]
      /\ \A k \in 1 .. n : /\ o[k] = o[k - 1] + Len(parts[k])
                           /\ \A j \in 1 .. Len(parts[k]) : flat[o[k - 1] + j] = parts[k][j]
  BY <1>2, <1>5 DEF Lies
<1> HIDE DEF flat, n
<1>7. header \in Seq(Nat) /\ Len(header) = 8
  BY DEF RAW_HEADER
<1>8. tail \in Seq(Nat) /\ Len(tail) = 6 /\ tail[1] = END_OF_TABLE
  BY DEF END_OF_TABLE, HEADER_BYTES
<1> HIDE DEF header, tail
<1>9. a \in Seq(Nat) /\ Joins(a, header, flat)
  BY <1>4, <1>7, Joined
<1> HIDE DEF a
<1>10. raw \in Seq(Nat) /\ Joins(raw, a, tail)
  BY <1>8, <1>9, Joined
<1> HIDE DEF raw
<1> DEFINE f == Len(flat)
<1>11. f \in Nat
  BY <1>4
<1>12. Len(a) = 8 + f /\ \A i \in 1 .. f : a[8 + i] = flat[i]
  BY <1>7, <1>9 DEF Joins
<1> HIDE DEF f
<1>13. /\ Len(raw) = 8 + f + 6 /\ (\A i \in 1 .. 8 + f : raw[i] = a[i])
       /\ raw[8 + f + 1] = END_OF_TABLE
  <2>1. 1 \in 1 .. Len(tail)
    BY <1>8
  <2> QED BY <1>8, <1>10, <1>12, <2>1 DEF Joins
<1>14. bytes \in Seq(Nat) /\ Len(bytes) = f + 6 /\ \A i \in 1 .. f + 6 : bytes[i] = raw[8 + i]
  <2> DEFINE b == Len(raw)
  <2>1. b \in Nat /\ 9 <= b + 1 /\ b <= Len(raw) /\ 9 \in Nat \ {0}
        /\ b - 9 + 1 = f + 6 /\ \A i \in 1 .. f + 6 : 9 + i - 1 = 8 + i
    BY <1>11, <1>13
  <2>2. /\ bytes \in Seq(Nat) /\ Len(bytes) = b - 9 + 1
        /\ \A i \in 1 .. b - 9 + 1 : bytes[i] = raw[9 + i - 1]
    <3>1. bytes = SubSeq(raw, 9, b)
      OBVIOUS
    <3> HIDE DEF b, bytes
    <3> QED BY <1>10, <2>1, <3>1, SliceIs
  <2> HIDE DEF b, bytes
  <2> QED BY <2>1, <2>2
<1> HIDE DEF bytes
<1>15. ASSUME NEW i \in 1 .. f PROVE bytes[i] = flat[i]
  <2>1. i \in 1 .. f + 6 /\ 8 + i \in 1 .. 8 + f
    BY <1>11
  <2> QED BY <1>12, <1>13, <1>14, <2>1
<1>16. bytes[f + 1] = END_OF_TABLE
  <2>1. f + 1 \in 1 .. f + 6 /\ 8 + (f + 1) = 8 + f + 1
    BY <1>11
  <2> QED BY <1>13, <1>14, <2>1
<1>17. \A k \in 1 .. n : o[k - 1] \in Nat /\ o[k] \in Nat
  <2>1. \A k \in 1 .. n : k - 1 \in 0 .. n /\ k \in 0 .. n
    BY <1>0 DEF n
  <2> QED BY <1>2, <1>5, <2>1
<1>18. o[n] = f /\ n \in Nat
  BY <1>0, <1>6 DEF f, n
<1>19. \A i \in 0 .. n, k \in 0 .. n : i <= k => o[i] <= o[k]
  <2>1. ASSUME NEW k \in 1 .. n PROVE o[k - 1] <= o[k]
    <3> DEFINE l == Len(parts[k])
    <3>1. l \in Nat /\ o[k] = o[k - 1] + l
      BY <1>1, <1>6 DEF A
    <3> HIDE DEF l
    <3> QED BY <1>17, <3>1
  <2>2. o \in [0 .. n -> Nat]
    BY <1>2, <1>5
  <2> QED BY <1>18, <2>1, <2>2, OffsetsGrow
<1>20. ASSUME NEW k \in 1 .. n PROVE StructureAt(bytes, o[k - 1], table[k])
  <2> DEFINE b == parts[k]
             c == o[k - 1]
             d == o[k]
  <2>1. /\ b \in Seq(Nat) /\ WellFormed(table[k]) /\ StructureAt(b, 0, table[k])
        /\ Len(b) = 6 + table[k].extra + Len(Zeroed(Strings(table[k]))) + 1
    BY <1>1 DEF A
  <2>2. c \in Nat /\ d \in Nat /\ d = c + Len(b) /\ \A j \in 1 .. Len(b) : flat[c + j] = b[j]
    BY <1>6, <1>17
  <2>3. d <= f
    <3>1. k \in 0 .. n /\ n \in 0 .. n /\ k <= n
      BY <1>18
    <3> QED BY <1>18, <1>19, <3>1
  <2> HIDE DEF b, c, d
  <2>4. Len(b) \in Nat /\ Len(bytes) \in Nat /\ c + Len(b) <= Len(bytes)
    BY <1>11, <1>14, <2>1, <2>2, <2>3
  <2>5. ASSUME NEW i \in 1 .. Len(b) PROVE bytes[c + i] = b[i]
    <3>1. c + i \in 1 .. f
      BY <1>11, <2>2, <2>3, <2>4
    <3> QED BY <1>15, <2>2, <3>1
  <2>6. StructureAt(bytes, c, table[k])
    BY <2>1, <2>2, <2>4, <2>5, StructureMoves
  <2> QED BY <2>6 DEF c
<1>21. TableLayout(o, bytes, table)
  <2>1. ASSUME NEW k \in 1 .. n
        PROVE  o[k] = o[k - 1] + (6 + table[k].extra + Len(Zeroed(Strings(table[k]))) + 1)
    BY <1>1, <1>6
  <2>2. o[n] \in Nat /\ Len(bytes) = o[n] + 6 /\ bytes[o[n] + 1] = END_OF_TABLE
    BY <1>11, <1>14, <1>16, <1>18
  <2> QED BY <1>6, <1>17, <1>20, <2>1, <2>2 DEF TableLayout, n
<1> QED BY <1>3, <1>14, <1>21

Readable(pairs) == {x \in pairs : Utf8(x[1]) /\ Utf8(x[2])}

\* The two strings with the numbers m and p, when the run holds both.
Pair(st, m, p) ==
  IF ~({m, p} \subseteq 0 .. Len(st)) THEN {} ELSE {<<Numbered(st, m), Numbered(st, p)>>}

LEMMA PairRead ==
  ASSUME NEW st \in Seq(Seq(Nat)), Len(st) # 0, NoZeros(st), NEW m \in Nat, NEW p \in Nat
  PROVE  NamesIn(Unclosed(st), m, p) = Readable(Pair(st, m, p))
<1> DEFINE w == Unclosed(st)
           a == Numbered(st, m)
           b == Numbered(st, p)
           D == 0 .. Len(st)
<1>1. /\ string(w, m) = IF m \in D THEN {text \in {a} : Utf8(text)} ELSE {}
      /\ string(w, p) = IF p \in D THEN {text \in {b} : Utf8(text)} ELSE {}
  BY StringIs
<1>2. NamesIn(w, m, p) = {<<x, y>> : x \in string(w, m), y \in string(w, p)}
  BY DEF NamesIn
<1>3. Pair(st, m, p) = IF m \in D /\ p \in D THEN {<<a, b>>} ELSE {}
  BY DEF Pair
<1> HIDE DEF w, a, b, D
<1>4. CASE m \in D /\ p \in D /\ Utf8(a) /\ Utf8(b)
  <2>1. string(w, m) = {a} /\ string(w, p) = {b}
    BY <1>1, <1>4
  <2>2. NamesIn(w, m, p) = {<<a, b>>}
    BY <1>2, <2>1
  <2>3. Readable({<<a, b>>}) = {<<a, b>>}
    BY <1>4 DEF Readable
  <2> QED BY <1>3, <1>4, <2>2, <2>3 DEF w
<1>5. CASE ~(m \in D /\ p \in D /\ Utf8(a) /\ Utf8(b))
  <2>1. string(w, m) = {} \/ string(w, p) = {}
    BY <1>1, <1>5
  <2>2. NamesIn(w, m, p) = {}
    BY <1>2, <2>1
  <2>3. Readable(Pair(st, m, p)) = {}
    <3>1. CASE m \in D /\ p \in D
      <4>1. ~(Utf8(a) /\ Utf8(b))
        BY <1>5, <3>1
      <4>2. Readable({<<a, b>>}) = {}
        BY <4>1 DEF Readable
      <4> QED BY <1>3, <3>1, <4>2
    <3>2. CASE ~(m \in D /\ p \in D)
      BY <1>3, <3>2 DEF Readable
    <3> QED BY <3>1, <3>2
  <2> QED BY <2>2, <2>3 DEF w
<1> QED BY <1>4, <1>5

\* The walk finds what the firmware wrote: the names in the first structure of the
\* kind, and none when there is no such structure (smbios/system.rs:44-81).
LEMMA TableRead ==
  ASSUME NEW table \in Seq(Structure), \A k \in 1 .. Len(table) : WellFormed(table[k])
  PROVE  /\ TableBytes(table) \in Seq(Nat)
         /\ system_information(TableBytes(table)) = Readable(FirstNames(table))
<1> DEFINE n == Len(table)
           bytes == TableBytes(table)
           Is(k) == table[k].kind = SYSTEM_INFORMATION
           found == {k \in DOMAIN table : table[k].kind = SYSTEM_INFORMATION}
<1>0. n \in Nat /\ DOMAIN table = 1 .. n
  OBVIOUS
<1>1. bytes \in Seq(Nat)
  BY TableLaidOut
<1>2. PICK o : TableLayout(o, bytes, table)
  BY TableLaidOut
<1> HIDE DEF bytes
<1>3. PICK walk : Walks(bytes, walk) /\ system_information(bytes) = walk[0]
  BY <1>1, WalkExists
<1>4. Len(bytes) \in Nat /\ \A c \in 0 .. Len(bytes) : walk[c] = WalkBody(bytes, walk, c)
  BY <1>1, <1>3 DEF Walks
<1>5. /\ o[0] = 0 /\ o[n] \in Nat /\ Len(bytes) = o[n] + 6
      /\ bytes[o[n] + 1] = END_OF_TABLE
  BY <1>2 DEF TableLayout
<1>6. ASSUME NEW k \in 1 .. n
      PROVE  walk[o[k - 1]] = IF Is(k)
                              THEN NamesIn(Unclosed(Strings(table[k])), table[k].m, table[k].p)
                              ELSE walk[o[k]]
  <2> DEFINE s == table[k]
             c == o[k - 1]
             l == 6 + s.extra + Len(Zeroed(Strings(s))) + 1
  <2>1. c \in Nat /\ o[k] = c + l /\ StructureAt(bytes, c, s) /\ WellFormed(s)
    BY <1>2 DEF TableLayout
  <2>2. l \in Nat
    <3>1. s.extra \in Nat
      BY <2>1 DEF WellFormed, Structure
    <3>2. Len(Zeroed(Strings(s))) \in Nat
      BY <2>1, StringsHeld, RunLaidOut
    <3> QED BY <3>1, <3>2
  <2>3. c \in 0 .. Len(bytes)
    <3> DEFINE e == s.extra
               y == Len(Zeroed(Strings(s)))
    <3>1. c + (6 + e) + y + 1 <= Len(bytes)
      BY <2>1 DEF StructureAt
    <3>2. e \in Nat
      BY <2>1 DEF WellFormed, Structure
    <3>3. y \in Nat
      BY <2>1, StringsHeld, RunLaidOut
    <3> HIDE DEF e, y, c
    <3> QED BY <1>4, <2>1, <3>1, <3>2, <3>3
  <2>4. walk[c] = WalkBody(bytes, walk, c)
    BY <1>4, <2>3
  <2>5. WalkBody(bytes, walk, c)
          = IF s.kind = SYSTEM_INFORMATION THEN NamesIn(Unclosed(Strings(s)), s.m, s.p)
            ELSE walk[c + l]
    <3> HIDE DEF c, s
    <3> QED BY <1>1, <2>1, StructureSteps
  <2> QED BY <2>1, <2>4, <2>5
<1>7. walk[o[n]] = {}
  <2> DEFINE c == o[n]
  <2>1. c \in Nat /\ c \in 0 .. Len(bytes)
    BY <1>4, <1>5
  <2>2. \A e \in Nat : ~Passable(bytes, c, e)
    BY <1>5 DEF Passable, Byte
  <2> HIDE DEF c
  <2>3. WalkBody(bytes, walk, c) = {}
    BY <1>1, <2>1, <2>2, WalkStep
  <2> QED BY <1>4, <2>1, <2>3 DEF c
<1> HIDE DEF n
<1>8. ASSUME NEW last \in 0 .. n, \A k \in 1 .. last : ~Is(k)
      PROVE  walk[0] = walk[o[last]]
  <2> DEFINE T == {k \in 0 .. last : walk[0] = walk[o[k]]}
  <2>0. last \in Nat
    BY <1>0
  <2>1. 0 \in T
    BY <1>5, <2>0
  <2>2. ASSUME NEW k \in 0 .. last - 1, k \in T PROVE k + 1 \in T
    <3>1. k + 1 \in 1 .. n /\ k + 1 \in 1 .. last /\ k + 1 \in 0 .. last /\ (k + 1) - 1 = k
      BY <1>0, <2>0 DEF n
    <3>2. walk[o[k]] = walk[o[k + 1]]
      BY <1>6, <1>8, <3>1
    <3>3. walk[0] = walk[o[k]]
      BY <2>2
    <3> QED BY <3>1, <3>2, <3>3
  <2> HIDE DEF T
  <2>3. \A k \in 0 .. last : k \in T
    BY <2>0, <2>1, <2>2, BoundedInduction
  <2>4. last \in T
    BY <2>0, <2>3
  <2> QED BY <2>4 DEF T
<1>9. CASE found = {}
  <2>1. \A k \in 1 .. n : ~Is(k)
    BY <1>0, <1>9 DEF n
  <2>2. walk[0] = {}
    BY <1>0, <1>7, <1>8, <2>1 DEF n
  <2>3. FirstNames(table) = {}
    BY <1>9 DEF FirstNames
  <2>4. Readable(FirstNames(table)) = {}
    BY <2>3 DEF Readable
  <2> QED BY <1>1, <1>3, <2>2, <2>4 DEF bytes
<1>10. CASE found # {}
  <2> DEFINE f == Min(found)
             s == table[f]
             st == Strings(s)
  <2>1. found \in SUBSET Nat /\ found \subseteq 1 .. n
    BY <1>0 DEF n
  <2>2. f \in found /\ \A y \in found : f <= y
    <3> HIDE DEF found
    <3> QED BY <1>10, <2>1, MinOfSet
  <2>3. FirstNames(table) = Pair(st, s.m, s.p)
    <3> HIDE DEF found
    <3>1. FirstNames(table)
            = IF found = {} \/ ~{s.m, s.p} \subseteq 0 .. Len(st) THEN {}
              ELSE {<<Numbered(st, s.m), Numbered(st, s.p)>>}
      BY DEF FirstNames, Numbered, found
    <3> QED BY <1>10, <3>1 DEF Pair
  <2> HIDE DEF f
  <2>4. f \in 1 .. n /\ Is(f)
    BY <1>0, <2>2 DEF n
  <2>5. f - 1 \in 0 .. n /\ \A k \in 1 .. f - 1 : k \in 1 .. n /\ ~(f <= k)
    BY <1>0, <2>4 DEF n
  <2>6. \A k \in 1 .. f - 1 : ~Is(k)
    BY <1>0, <2>2, <2>5 DEF n
  <2>7. walk[0] = walk[o[f - 1]]
    BY <1>8, <2>5, <2>6
  <2>8. walk[o[f - 1]] = NamesIn(Unclosed(st), s.m, s.p)
    BY <1>6, <2>4
  <2>9. WellFormed(s)
    BY <2>4 DEF n
  <2>10. NamesIn(Unclosed(st), s.m, s.p) = Readable(Pair(st, s.m, s.p))
    <3>1. s.m \in Nat /\ s.p \in Nat
      BY <2>9 DEF WellFormed, Structure
    <3> HIDE DEF s
    <3>2. st \in Seq(Seq(Nat)) /\ Len(st) # 0 /\ NoZeros(st)
      BY <2>9, StringsHeld
    <3> HIDE DEF st
    <3> QED BY <3>1, <3>2, PairRead
  <2> QED BY <1>1, <1>3, <2>3, <2>7, <2>8, <2>10 DEF bytes
<1> QED BY <1>9, <1>10

\* Whatever table a machine holds, and wherever a read of it is cut.
LEMMA FirmwareRead ==
  ASSUME NEW table \in Tables, NEW names, names = Readable(FirstNames(table))
  PROVE  /\ system_information(TableBytes(table)) = names
         /\ \A cut \in 0 .. Len(TableBytes(table)) :
              system_information(SubSeq(TableBytes(table), 1, cut)) \in {{}, names}
<1> DEFINE bytes == TableBytes(table)
<1>1. table \in Seq(Structure)
  BY MachinesAssumption
<1>2. ASSUME NEW k \in 1 .. Len(table) PROVE WellFormed(table[k])
  <2>1. k \in DOMAIN table /\ table[k] \in Structure
    BY <1>1
  <2> QED BY <2>1, FirmwareAssumption DEF WellFormed
<1>3. bytes \in Seq(Nat) /\ system_information(bytes) = names
  BY <1>1, <1>2, TableRead
<1> HIDE DEF bytes
<1>4. \A cut \in 0 .. Len(bytes) : system_information(SubSeq(bytes, 1, cut)) \in {{}, names}
  BY <1>3, CutRead
<1> QED BY <1>3, <1>4 DEF bytes

\* An answer of the Windows probe is about the table of its second call, whatever
\* machine answered the first (firmware.rs:52-83, windows/emulation.rs:29-50).
LEMMA FirmwareAnswers ==
  ASSUME MachineInv, WindowsFirmwareTable
  PROVE  FirmwareAnswered
<1> DEFINE raw == RawTable(machine.table)
           names == FirmwareNames(machine.table)
<1>1. machine.table \in Tables
  BY SourcesOf DEF MachineInv, MachineTypeOK, WindowsFirmwareTable
<1>2. system_information(TableBytes(machine.table)) = names
  BY <1>1, FirmwareRead DEF FirmwareNames, Readable
<1>3. PICK size \in call, bytes \in {raw, <<>>} :
        said'.is = WindowsMachineHost(size, bytes)
  BY DEF WindowsFirmwareTable, Says
<1> DEFINE identity == UNION {system_information(t) : t \in smbios_table(size, bytes)}
<1>4. smbios_table(size, bytes) \in {{}, {TableBytes(machine.table)}}
  <2>1. CASE bytes = <<>>
    BY <2>1 DEF smbios_table
  <2>2. CASE bytes = raw
    BY <2>2 DEF smbios_table, TableBytes
  <2> QED BY <1>3, <2>1, <2>2
<1>5. identity \in {{}, names}
  <2>1. CASE smbios_table(size, bytes) = {}
    BY <2>1
  <2>2. CASE smbios_table(size, bytes) = {TableBytes(machine.table)}
    BY <1>2, <2>2
  <2> QED BY <1>4, <2>1, <2>2
<1>6. said'.is = IF identity = {} THEN "Failed"
                 ELSE LET n == CHOOSE n \in identity : TRUE
                      IN  IF names_a_monitor(n[1], n[2]) THEN "VirtualMachine"
                          ELSE "Hardware"
  BY <1>3 DEF WindowsMachineHost
<1> HIDE DEF identity, names
<1>7. CASE identity = {}
  <2>1. said'.is = "Failed"
    BY <1>6, <1>7
  <2> QED BY <2>1 DEF FirmwareAnswered
<1>8. CASE identity # {}
  <2> DEFINE n == CHOOSE n \in identity : TRUE
  <2>1. n \in names
    BY <1>5, <1>8
  <2>2. said'.is = IF names_a_monitor(n[1], n[2]) THEN "VirtualMachine" ELSE "Hardware"
    BY <1>6, <1>8
  <2> HIDE DEF n
  <2>3. CASE names_a_monitor(n[1], n[2])
    <3>1. said'.is = "VirtualMachine"
      BY <2>2, <2>3
    <3> QED BY <2>1, <2>3, <3>1 DEF FirmwareAnswered, names
  <2>4. CASE ~names_a_monitor(n[1], n[2])
    <3>1. said'.is = "Hardware"
      BY <2>2, <2>4
    <3> QED BY <2>1, <2>4, <3>1 DEF FirmwareAnswered, names
  <2> QED BY <2>3, <2>4
<1> QED BY <1>7, <1>8

\* For every set of firmware tables and Java machines, and every limit on the table:
\* an answer is of its kind, a clean one rests on sources that were read and states
\* what they state, the walk over a table finds the names that the firmware wrote and
\* on every cut of it the same ones or none, an answer about a table is about the one
\* of the second call, and the worker thread stays with the host's machine
\* (device.rs:48-100, emulation.rs:55-115, verified_boot.rs:67-143, dmi.rs:50-92,
\* firmware.rs:52-83, smbios/system.rs:44-110, lifecycle.rs:36-64).
THEOREM MachineAnswers == MachineSpec => MachineAnswersTrue
<1>1. MachineSpec => []MachineInv
  BY MachineInitHolds, MachineStepKeeps, PTL DEF MachineSpec
<1>2. MachineInv => FirmwareTableRead
  <2> SUFFICES ASSUME MachineInv, machine.kind = "smbios" PROVE FirmwareTableRead
    BY DEF FirmwareTableRead
  <2> DEFINE table == machine.table
             names == Readable(FirstNames(table))
  <2>1. table \in Tables
    BY SourcesOf DEF MachineInv, MachineTypeOK
  <2>2. /\ system_information(TableBytes(table)) = names
        /\ \A cut \in 0 .. Len(TableBytes(table)) :
             system_information(SubSeq(TableBytes(table), 1, cut)) \in {{}, names}
    <3> HIDE DEF table, names
    <3> QED BY <2>1, FirmwareRead DEF names
  <2> QED BY <2>2 DEF FirmwareTableRead, FirmwareNames, TableBytes, Readable
<1>3. MachineInv => /\ MachineTypeOK /\ CleanMachineIsClean
                    /\ FirmwareTableRead /\ WorkerJoinsHostMachine
  BY <1>2 DEF MachineInv
<1>4. MachineInv /\ [MachineNext]_machineVars => [FirmwareAnswered]_machineVars
  <2>1. ASSUME MachineInv PROVE FirmwareAnswered
    <3>1. CASE WindowsFirmwareTable
      BY <2>1, <3>1, FirmwareAnswers
    <3>2. CASE ~WindowsFirmwareTable
      BY <3>2 DEF FirmwareAnswered
    <3> QED BY <3>1, <3>2
  <2> QED BY <2>1
<1> QED BY <1>1, <1>3, <1>4, PTL DEF MachineSpec, MachineAnswersTrue

-----------------------------------------------------------------------------
(***************************************************************************)
(* The archive of an Android package: what the build tools write is what   *)
(* the reader takes out.                                                   *)
(***************************************************************************)

\* The cells t lie behind the first c cells of s.
Holds(s, c, t) == c + Len(t) <= Len(s) /\ \A i \in 1 .. Len(t) : s[c + i] = t[i]

LEMMA PartIs ==
  ASSUME NEW s \in Seq(Nat), NEW c \in Nat, NEW t \in Seq(Nat), Holds(s, c, t)
  PROVE  SubSeq(s, c + 1, c + Len(t)) = t
<1> DEFINE m == Len(t)
           a == c + 1
           b == c + m
           r == SubSeq(s, a, b)
           l == b - a + 1
<1>0. \A i \in 1 .. m : s[c + i] = t[i]
  BY DEF Holds
<1>1. m \in Nat /\ c + 1 \in Nat \ {0} /\ b \in Nat /\ c + 1 <= b + 1 /\ b <= Len(s)
  BY DEF Holds
<1>2. b - (c + 1) + 1 = m /\ \A i \in 1 .. m : (c + 1) + i - 1 = c + i
  BY <1>1
<1>3. r \in Seq(Nat) /\ Len(r) = l /\ \A i \in 1 .. l : r[i] = s[a + i - 1]
  <2>1. a \in Nat \ {0} /\ b \in Nat /\ a <= b + 1 /\ b <= Len(s)
    BY <1>1
  <2> HIDE DEF a, b
  <2> QED BY <2>1, SliceIs
<1>4. l = m
  BY <1>2
<1>5. \A i \in 1 .. m : a + i - 1 = c + i
  BY <1>2
<1> HIDE DEF r, a, l
<1>6. Len(r) = m /\ \A i \in 1 .. m : r[i] = s[c + i]
  BY <1>3, <1>4, <1>5
<1>7. \A i \in 1 .. m : r[i] = t[i]
  BY <1>0, <1>6
<1>8. r = t
  BY <1>3, <1>6, <1>7, SameSequence
<1> QED BY <1>8 DEF r, a

\* get() of a range that is there.
LEMMA CellsAre ==
  ASSUME NEW s \in Seq(Nat), NEW c \in Nat, NEW t \in Seq(Nat), Holds(s, c, t),
         NEW e, e = c + Len(t)
  PROVE  Cells(s, c, e) = {t}
<1>1. 0 <= c /\ c <= e /\ e <= Len(s)
  BY DEF Holds
<1>2. SubSeq(s, c + 1, e) = t
  BY PartIs
<1> QED BY <1>1, <1>2 DEF Cells

\* element() takes what a length stands in front of (apk/signing.rs:155-169).
LEMMA ElementIs ==
  ASSUME NEW s \in Seq(Nat), NEW c \in Nat, NEW t \in Seq(Nat), NEW d \in Nat, d = c + 1,
         s[d] = Len(t), Holds(s, d, t)
  PROVE  element(s, c) = {t}
<1>1. Cell(s, c) = {Len(t)}
  <2>1. c < Len(s)
    BY DEF Holds
  <2> QED BY <2>1 DEF Cell
<1>2. Cells(s, d, d + Len(t)) = {t}
  BY CellsAre
<1> QED BY <1>1, <1>2 DEF element

LEMMA PrefixedIs ==
  ASSUME NEW t \in Seq(Nat)
  PROVE  /\ Prefixed(t) \in Seq(Nat) /\ Len(Prefixed(t)) = Len(t) + 1
         /\ Prefixed(t)[1] = Len(t) /\ \A i \in 1 .. Len(t) : Prefixed(t)[1 + i] = t[i]
         /\ element(Prefixed(t), 0) = {t}
<1> DEFINE h == <<Len(t)>>
           p == h \o t
<1>1. h \in Seq(Nat) /\ Len(h) = 1 /\ h[1] = Len(t) /\ Len(t) \in Nat
  OBVIOUS
<1> HIDE DEF h
<1>2. p \in Seq(Nat) /\ Joins(p, h, t)
  BY <1>1, Joined
<1>3. Prefixed(t) = p
  BY DEF Prefixed, h
<1> HIDE DEF p
<1>4. /\ Len(p) = Len(t) + 1 /\ p[1] = Len(t)
      /\ \A i \in 1 .. Len(t) : p[1 + i] = t[i]
  BY <1>1, <1>2 DEF Joins
<1>5. element(p, 0) = {t}
  <2>1. 0 \in Nat /\ 1 \in Nat /\ 1 = 0 + 1 /\ 1 + Len(t) <= Len(p)
    BY <1>1, <1>4
  <2>2. Holds(p, 1, t)
    BY <1>4, <2>1 DEF Holds
  <2> QED BY <1>2, <1>4, <2>1, <2>2, ElementIs
<1> QED BY <1>2, <1>3, <1>4, <1>5

LEMMA FirstIs ==
  ASSUME NEW t \in Seq(Nat)
  PROVE  first({Prefixed(t)}) = {t}
<1>1. first({Prefixed(t)}) = element(Prefixed(t), 0)
  BY DEF first
<1> QED BY <1>1, PrefixedIs

\* A scheme that is whole gives its certificate, and one that is cut none
\* (apk/signing.rs:137-153).
LEMMA CertificateIs ==
  ASSUME NEW s \in [scheme : Nat, cert : Nat, whole : BOOLEAN]
  PROVE  /\ SchemeValue(s) \in Seq(Nat)
         /\ certificate(SchemeValue(s)) = IF s.whole THEN {<<s.cert>>} ELSE {}
<1> DEFINE c == <<s.cert>>
           p == Prefixed(c)
           e == Prefixed(<<>>)
           d == e \o Prefixed(p)
           x == Prefixed(d)
           y == Prefixed(x)
<1>0. c \in Seq(Nat) /\ <<>> \in Seq(Nat) /\ s.whole \in BOOLEAN
  OBVIOUS
<1>1. CASE s.whole
  <2>1. SchemeValue(s) = Prefixed(y)
    BY <1>1 DEF SchemeValue
  <2> HIDE DEF c
  <2>2. p \in Seq(Nat) /\ first({p}) = {c}
    BY <1>0, PrefixedIs, FirstIs
  <2> HIDE DEF p
  <2> DEFINE q == Prefixed(p)
  <2>3. /\ q \in Seq(Nat) /\ Len(q) = Len(p) + 1 /\ q[1] = Len(p)
        /\ \A i \in 1 .. Len(p) : q[1 + i] = p[i]
    BY <2>2, PrefixedIs
  <2>4. e \in Seq(Nat) /\ Len(e) = 1 /\ e[1] = 0
    <3> DEFINE n == <<>>
    <3>1. n \in Seq(Nat) /\ Len(n) = 0
      OBVIOUS
    <3> HIDE DEF n
    <3>2. /\ Prefixed(n) \in Seq(Nat) /\ Len(Prefixed(n)) = Len(n) + 1
          /\ Prefixed(n)[1] = Len(n)
      BY <3>1, PrefixedIs
    <3> QED BY <3>1, <3>2 DEF n
  <2> HIDE DEF q, e
  <2>5. d \in Seq(Nat) /\ Joins(d, e, q)
    BY <2>3, <2>4, Joined DEF q
  <2> HIDE DEF d
  <2>6. /\ Len(d) = Len(p) + 2 /\ d[1] = 0 /\ d[2] = Len(p)
        /\ \A i \in 1 .. Len(p) : d[2 + i] = p[i]
    <3>0. Len(p) \in Nat
      BY <2>2
    <3>1. Len(d) = 1 + Len(q) /\ (\A i \in 1 .. 1 : d[i] = e[i])
          /\ \A i \in 1 .. Len(q) : d[1 + i] = q[i]
      BY <2>4, <2>5 DEF Joins
    <3>2. 1 \in 1 .. Len(q) /\ \A i \in 1 .. Len(p) : 1 + i \in 1 .. Len(q)
      BY <2>3, <3>0
    <3>3. d[1] = 0 /\ d[1 + 1] = Len(p)
      BY <2>3, <2>4, <3>1, <3>2
    <3>4. ASSUME NEW i \in 1 .. Len(p) PROVE d[2 + i] = p[i]
      <4>1. 1 + (1 + i) = 2 + i
        BY <3>0
      <4>2. d[1 + (1 + i)] = q[1 + i]
        BY <3>1, <3>2
      <4> QED BY <2>3, <4>1, <4>2
    <3> QED BY <2>3, <3>0, <3>1, <3>3, <3>4
  <2>7. x \in Seq(Nat) /\ first({x}) = {d}
    BY <2>5, PrefixedIs, FirstIs
  <2> HIDE DEF x
  <2>8. y \in Seq(Nat) /\ first({y}) = {x}
    BY <2>7, PrefixedIs, FirstIs
  <2> HIDE DEF y
  <2>9. Prefixed(y) \in Seq(Nat) /\ first({Prefixed(y)}) = {y}
    BY <2>8, PrefixedIs, FirstIs
  <2>10. element(d, 0) = {<<>>}
    <3> DEFINE n == <<>>
    <3>1. n \in Seq(Nat) /\ Len(n) = 0
      OBVIOUS
    <3> HIDE DEF n
    <3>2. 1 + Len(n) <= Len(d) /\ d[1] = Len(n) /\ 1 = 0 + 1
          /\ \A i \in 1 .. Len(n) : d[1 + i] = n[i]
      <4>1. Len(d) >= 2
        BY <2>2, <2>6
      <4> QED BY <2>5, <2>6, <3>1, <4>1
    <3>3. Holds(d, 1, n)
      BY <3>2 DEF Holds
    <3>4. d \in Seq(Nat) /\ n \in Seq(Nat) /\ d[1] = Len(n)
      BY <2>5, <3>1, <3>2
    <3>5. 0 \in Nat /\ 1 \in Nat /\ 1 = 0 + 1
      OBVIOUS
    <3>6. element(d, 0) = {n}
      BY <3>3, <3>4, <3>5, ElementIs
    <3> QED BY <3>6 DEF n
  <2>11. element(d, 1) = {p}
    <3>1. Len(p) \in Nat /\ 2 = 1 + 1
      BY <2>2
    <3>2. 2 + Len(p) <= Len(d) /\ d[2] = Len(p) /\ \A i \in 1 .. Len(p) : d[2 + i] = p[i]
      BY <2>6, <3>1
    <3>3. Holds(d, 2, p)
      BY <3>2 DEF Holds
    <3> QED BY <2>2, <2>5, <3>1, <3>2, <3>3, ElementIs
  <2>12. certificate(Prefixed(y)) = {c}
    <3>1. UNION {UNION {element(w, 1 + Len(digests)) : digests \in element(w, 0)} : w \in {d}}
            = {p}
      <4>1. 1 + Len(<<>>) = 1
        OBVIOUS
      <4>2. UNION {element(d, 1 + Len(digests)) : digests \in element(d, 0)} = {p}
        BY <2>10, <2>11, <4>1
      <4> QED BY <4>2
    <3>2. certificate(Prefixed(y))
            = first(UNION {UNION {element(w, 1 + Len(digests)) : digests \in element(w, 0)} :
                             w \in first(first(first({Prefixed(y)})))})
      BY DEF certificate
    <3> QED BY <2>2, <2>7, <2>8, <2>9, <3>1, <3>2
  <2> QED BY <1>1, <2>1, <2>9, <2>12 DEF c
<1>2. CASE ~s.whole
  <2> DEFINE v == <<9>>
  <2>1. SchemeValue(s) = v /\ v \in Seq(Nat) /\ Len(v) = 1 /\ v[1] = 9
    BY <1>2 DEF SchemeValue
  <2> HIDE DEF v
  <2>2. Cell(v, 0) = {9} /\ Cells(v, 0 + 1, 0 + 1 + 9) = {}
    BY <2>1 DEF Cell, Cells
  <2>3. element(v, 0) = {}
    BY <2>2 DEF element
  <2>4. first({v}) = {} /\ first({}) = {}
    BY <2>3 DEF first
  <2>5. certificate(v) = {}
    BY <2>4 DEF certificate
  <2> QED BY <1>2, <2>1, <2>5
<1> QED BY <1>0, <1>1, <1>2

Signer == [scheme : Nat, cert : Nat, whole : BOOLEAN]

Entry(s) == <<Len(SchemeValue(s)) + 1, s.scheme>> \o SchemeValue(s)

LEMMA EntryIs ==
  ASSUME NEW s \in Signer
  PROVE  /\ Entry(s) \in Seq(Nat) /\ Len(SchemeValue(s)) \in Nat
         /\ Len(Entry(s)) = Len(SchemeValue(s)) + 2
         /\ Entry(s)[1] = Len(SchemeValue(s)) + 1 /\ Entry(s)[2] = s.scheme
         /\ Holds(Entry(s), 2, SchemeValue(s))
<1> DEFINE v == SchemeValue(s)
           l == Len(v) + 1
           h == <<l, s.scheme>>
           e == h \o v
<1>1. v \in Seq(Nat) /\ Len(v) \in Nat /\ s.scheme \in Nat
  BY CertificateIs DEF Signer
<1> HIDE DEF v
<1>2. l \in Nat
  BY <1>1
<1>3. Entry(s) = e
  BY DEF Entry, v
<1> HIDE DEF l
<1>4. h \in Seq(Nat) /\ Len(h) = 2 /\ h[1] = l /\ h[2] = s.scheme
  BY <1>1, <1>2
<1> HIDE DEF h
<1>5. e \in Seq(Nat) /\ Joins(e, h, v)
  BY <1>1, <1>4, Joined
<1> HIDE DEF e
<1>6. /\ Len(e) = Len(v) + 2 /\ e[1] = l /\ e[2] = s.scheme
      /\ \A i \in 1 .. Len(v) : e[2 + i] = v[i]
  BY <1>1, <1>4, <1>5 DEF Joins
<1>7. Holds(e, 2, v)
  BY <1>1, <1>6 DEF Holds
<1> QED BY <1>1, <1>3, <1>5, <1>6, <1>7 DEF v, l

EntryAt(block, c, s) ==
  /\ block[c + 1] = Len(SchemeValue(s)) + 1 /\ block[c + 2] = s.scheme
  /\ Holds(block, c + 2, SchemeValue(s))

\* The signing block: a size, the schemes one behind the other, the size and the
\* magic number.
BlockLayout(o, block, a) ==
  /\ o[0] = 0
  /\ \A k \in 1 .. Len(a.signers) :
       /\ o[k - 1] \in Nat /\ o[k] \in Nat /\ o[k] <= o[Len(a.signers)]
       /\ o[k] = o[k - 1] + (Len(SchemeValue(a.signers[k])) + 2)
       /\ EntryAt(block, 1 + o[k - 1], a.signers[k])
  /\ LET f == o[Len(a.signers)]
     IN  /\ f \in Nat /\ Len(block) = f + 3
         /\ block[1] = IF a.flaw = "sizes" THEN (f + 2) + 1 ELSE f + 2
         /\ block[f + 2] = f + 2
         /\ block[f + 3] = IF a.flaw = "magic" THEN 0 ELSE MAGIC

LEMMA BlockLaidOut ==
  ASSUME NEW a \in Archive
  PROVE  Block(a) \in Seq(Nat) /\ \E o : BlockLayout(o, Block(a), a)
<1> DEFINE st == a.signers
           n == Len(st)
           parts == [k \in DOMAIN st |-> Entry(st[k])]
           flat == FlattenSeq(parts)
           A == Seq(Nat)
           f == Len(flat)
           size == f + FOOTER
           start == IF a.flaw = "sizes" THEN size + 1 ELSE size
           mark == IF a.flaw = "magic" THEN 0 ELSE MAGIC
           h == <<start>>
           t == <<size, mark>>
           b == h \o flat
           block == b \o t
<1>1. Block(a) = block
  BY DEF Block, Entry
<1>a. st \in Seq(Signer)
  BY DEF Archive, Signer
<1> HIDE DEF st
<1>0. n \in Nat /\ DOMAIN st = 1 .. n /\ \A k \in 1 .. n : st[k] \in Signer
  <2> DEFINE T == Signer
  <2>1. st \in Seq(T)
    BY <1>a
  <2> HIDE DEF T
  <2>2. n \in Nat /\ DOMAIN st = 1 .. n /\ \A k \in 1 .. n : st[k] \in T
    BY <2>1
  <2> QED BY <2>2 DEF T
<1>2. ASSUME NEW k \in 1 .. n PROVE parts[k] = Entry(st[k]) /\ parts[k] \in A
  <2>1. parts[k] = Entry(st[k])
    BY <1>0
  <2> QED BY <1>0, <2>1, EntryIs
<1>3. parts \in Seq(A) /\ Len(parts) = n
  <2>1. parts = [k \in 1 .. n |-> parts[k]]
    BY <1>0
  <2> HIDE DEF parts, n, A
  <2>2. \A k \in 1 .. n : parts[k] \in A
    BY <1>2
  <2>3. n \in Nat
    BY <1>0
  <2>4. [k \in 1 .. n |-> parts[k]] \in Seq(A)
    BY <2>2, <2>3
  <2>5. Len([k \in 1 .. n |-> parts[k]]) = n
    BY <2>3
  <2> QED BY <2>1, <2>4, <2>5
<1> HIDE DEF parts
<1>4. flat \in Seq(Nat)
  BY <1>3, FlattenPositions
<1>5. PICK o \in [0 .. Len(parts) -> Nat] : Lies(o, flat, parts)
  BY <1>3, FlattenPositions
<1>6. /\ o[0] = 0 /\ Len(flat) = o[n]
      /\ \A k \in 1 .. n : /\ o[k] = o[k - 1] + Len(parts[k])
                           /\ \A j \in 1 .. Len(parts[k]) : flat[o[k - 1] + j] = parts[k][j]
  BY <1>3, <1>5 DEF Lies
<1>7. f \in Nat /\ f = o[n]
  BY <1>4, <1>6
<1> HIDE DEF flat, n, f
<1>8. size \in Nat /\ size = f + 2 /\ start \in Nat /\ mark \in Nat
  BY <1>7 DEF FOOTER, MAGIC
<1> HIDE DEF size, start, mark
<1>9. h \in Seq(Nat) /\ Len(h) = 1 /\ h[1] = start
  BY <1>8
<1>10. t \in Seq(Nat) /\ Len(t) = 2 /\ t[1] = size /\ t[2] = mark
  BY <1>8
<1> HIDE DEF h, t
<1>11. b \in Seq(Nat) /\ Joins(b, h, flat)
  BY <1>4, <1>9, Joined
<1> HIDE DEF b
<1>12. block \in Seq(Nat) /\ Joins(block, b, t)
  BY <1>10, <1>11, Joined
<1> HIDE DEF block
<1>13. Len(b) = f + 1 /\ b[1] = start /\ \A i \in 1 .. f : b[1 + i] = flat[i]
  BY <1>7, <1>9, <1>11 DEF Joins, f
<1>14. /\ Len(block) = (f + 1) + 2 /\ (\A i \in 1 .. f + 1 : block[i] = b[i])
       /\ block[(f + 1) + 1] = size /\ block[(f + 1) + 2] = mark
  <2>1. 1 \in 1 .. Len(t) /\ 2 \in 1 .. Len(t)
    BY <1>10
  <2> QED BY <1>10, <1>12, <1>13, <2>1 DEF Joins
<1>15. Len(block) = f + 3 /\ block[1] = start /\ block[f + 2] = size /\ block[f + 3] = mark
  <2>1. (f + 1) + 2 = f + 3 /\ (f + 1) + 1 = f + 2 /\ 1 \in 1 .. f + 1
    BY <1>7
  <2> QED BY <1>13, <1>14, <2>1
<1>16. ASSUME NEW i \in 1 .. f PROVE block[1 + i] = flat[i]
  <2>1. 1 + i \in 1 .. f + 1
    BY <1>7
  <2> QED BY <1>13, <1>14, <2>1
<1>17. \A k \in 1 .. n : o[k - 1] \in Nat /\ o[k] \in Nat
  <2>1. \A k \in 1 .. n : k - 1 \in 0 .. n /\ k \in 0 .. n
    BY <1>0 DEF n
  <2> QED BY <1>3, <1>5, <2>1
<1>18. \A i \in 0 .. n, k \in 0 .. n : i <= k => o[i] <= o[k]
  <2>1. ASSUME NEW k \in 1 .. n PROVE o[k - 1] <= o[k]
    <3> DEFINE l == Len(parts[k])
    <3>1. l \in Nat /\ o[k] = o[k - 1] + l
      BY <1>2, <1>6 DEF A
    <3> HIDE DEF l
    <3> QED BY <1>17, <3>1
  <2>2. o \in [0 .. n -> Nat] /\ n \in Nat
    BY <1>0, <1>3, <1>5 DEF n
  <2> QED BY <2>1, <2>2, OffsetsGrow
<1>19. ASSUME NEW k \in 1 .. n
       PROVE  /\ o[k] = o[k - 1] + (Len(SchemeValue(st[k])) + 2) /\ o[k] <= f
              /\ EntryAt(block, 1 + o[k - 1], st[k])
  <2> DEFINE e == parts[k]
             u == o[k - 1]
             v == SchemeValue(st[k])
             w == o[k]
             m == Len(v)
  <2>1. st[k] \in Signer /\ e = Entry(st[k])
    BY <1>0, <1>2 DEF n
  <2>2. /\ e \in Seq(Nat) /\ m \in Nat /\ Len(e) = m + 2 /\ e[1] = m + 1
        /\ e[2] = st[k].scheme /\ Holds(e, 2, v)
    BY <2>1, EntryIs
  <2>3. u \in Nat /\ w \in Nat /\ w = u + Len(e) /\ \A j \in 1 .. Len(e) : flat[u + j] = e[j]
    BY <1>6, <1>17
  <2>4. w <= f
    <3>1. k \in 0 .. n /\ n \in 0 .. n /\ k <= n
      BY <1>0 DEF n
    <3> QED BY <1>7, <1>18, <3>1
  <2>5. \A i \in 1 .. m : e[2 + i] = v[i]
    BY <2>2 DEF Holds
  <2> HIDE DEF e, u, v, w, m
  <2>6. w = u + (m + 2)
    BY <2>2, <2>3
  <2>7. f \in Nat /\ u \in Nat /\ m \in Nat /\ m + 2 \in Nat /\ u + (m + 2) <= f
    <3>1. f \in Nat /\ u \in Nat /\ m \in Nat
      BY <1>7, <2>2, <2>3
    <3>2. m + 2 \in Nat
      BY <3>1
    <3> QED BY <2>4, <2>6, <3>1, <3>2
  <2>8. ASSUME NEW j \in 1 .. m + 2 PROVE block[(1 + u) + j] = e[j]
    <3>1. u + j \in 1 .. f
      BY <2>7, PositionIn
    <3>2. 1 + (u + j) = (1 + u) + j
      BY <2>7
    <3>3. block[1 + (u + j)] = flat[u + j]
      BY <1>16, <3>1
    <3>4. flat[u + j] = e[j]
      BY <2>2, <2>3
    <3> QED BY <3>2, <3>3, <3>4
  <2>9. block[(1 + u) + 1] = m + 1 /\ block[(1 + u) + 2] = st[k].scheme
    <3>1. 1 \in 1 .. m + 2 /\ 2 \in 1 .. m + 2
      BY <2>2
    <3> QED BY <2>2, <2>8, <3>1
  <2>10. Holds(block, (1 + u) + 2, v)
    <3>1. ((1 + u) + 2) + m <= Len(block)
      <4>1. ((1 + u) + 2) + m <= f + 3
        BY <2>7
      <4> QED BY <1>15, <4>1
    <3>2. ASSUME NEW i \in 1 .. m PROVE block[((1 + u) + 2) + i] = v[i]
      <4>1. 2 + i \in 1 .. m + 2 /\ (1 + u) + (2 + i) = ((1 + u) + 2) + i
        BY <2>2, <2>3
      <4>2. block[(1 + u) + (2 + i)] = e[2 + i]
        BY <2>8, <4>1
      <4> QED BY <2>5, <4>1, <4>2
    <3> QED BY <3>1, <3>2 DEF Holds, m
  <2> QED BY <2>4, <2>9, <2>10, <2>6 DEF EntryAt, u, v, w, m
<1>20. BlockLayout(o, block, a)
  <2>1. \A k \in 1 .. Len(a.signers) :
          /\ o[k - 1] \in Nat /\ o[k] \in Nat /\ o[k] <= o[Len(a.signers)]
          /\ o[k] = o[k - 1] + (Len(SchemeValue(a.signers[k])) + 2)
          /\ EntryAt(block, 1 + o[k - 1], a.signers[k])
    BY <1>7, <1>17, <1>19 DEF n, st
  <2>2. start = (IF a.flaw = "sizes" THEN (f + 2) + 1 ELSE f + 2)
        /\ mark = (IF a.flaw = "magic" THEN 0 ELSE MAGIC)
    BY <1>8 DEF start, mark
  <2>3. f = o[Len(a.signers)]
    BY <1>7 DEF n, st
  <2>4. /\ f \in Nat /\ Len(block) = f + 3
        /\ block[1] = (IF a.flaw = "sizes" THEN (f + 2) + 1 ELSE f + 2)
        /\ block[f + 2] = f + 2 /\ block[f + 3] = (IF a.flaw = "magic" THEN 0 ELSE MAGIC)
    BY <1>7, <1>8, <1>15, <2>2
  <2> HIDE DEF f
  <2> QED BY <1>6, <2>1, <2>3, <2>4 DEF BlockLayout
<1> QED BY <1>1, <1>12, <1>20

Behind(e, found) == {<<e>> \o rest : rest \in found}

EntryOf(block, at, end) == [id |-> block[at + 2], value |-> SubSeq(block, at + 3, end)]

EntriesBody(block, f, at) ==
  IF at >= Len(block) - FOOTER THEN {<<>>}
  ELSE LET end == at + 1 + block[at + 1]
       IN  IF Cell(block, at + 1) = {} THEN {}
           ELSE UNION {{<<[id |-> block[at + 2], value |-> value]>> \o rest :
                          rest \in f[end]} :
                         value \in Cells(block, at + 2, end)}

LEMMA EntriesStep ==
  ASSUME NEW block \in Seq(Nat), NEW at \in 0 .. Len(block), NEW f,
         NEW end, end = at + 1 + block[at + 1]
  PROVE  /\ at >= Len(block) - FOOTER => EntriesBody(block, f, at) = {<<>>}
         /\ at < Len(block) - FOOTER /\ end \in at + 2 .. Len(block) =>
              EntriesBody(block, f, at) = Behind(EntryOf(block, at, end), f[end])
         /\ at < Len(block) - FOOTER /\ end \notin at + 2 .. Len(block) =>
              EntriesBody(block, f, at) = {}
<1> DEFINE N == Len(block)
           Value(v) == {<<[id |-> block[at + 2], value |-> v]>> \o rest : rest \in f[end]}
<1>0. N \in Nat /\ at \in Nat
  OBVIOUS
<1>1. CASE at >= N - FOOTER
  <2>1. ~(at < N - FOOTER)
    BY <1>0, <1>1 DEF FOOTER
  <2> QED BY <1>1, <2>1 DEF EntriesBody
<1>2. CASE at < N - FOOTER
  <2>0. ~(at >= N - FOOTER) /\ at + 1 < N /\ at + 1 \in 1 .. N
    BY <1>0, <1>2 DEF FOOTER
  <2>1. Cell(block, at + 1) # {}
    BY <2>0 DEF Cell
  <2>2. EntriesBody(block, f, at) = UNION {Value(v) : v \in Cells(block, at + 2, end)}
    BY <2>0, <2>1 DEF EntriesBody
  <2>3. end \in Int
    <3>1. block[at + 1] \in Nat
      BY <2>0
    <3> QED BY <1>0, <3>1
  <2>4. CASE end \in at + 2 .. N
    <3>1. Cells(block, at + 2, end) = {SubSeq(block, (at + 2) + 1, end)}
      BY <1>0, <2>3, <2>4 DEF Cells
    <3>2. (at + 2) + 1 = at + 3
      BY <1>0
    <3>3. EntriesBody(block, f, at) = Value(SubSeq(block, at + 3, end))
      <4> DEFINE w == SubSeq(block, at + 3, end)
      <4>1. Cells(block, at + 2, end) = {w}
        BY <3>1, <3>2
      <4> HIDE DEF w, Value
      <4>2. EntriesBody(block, f, at) = UNION {Value(v) : v \in {w}}
        BY <2>2, <4>1
      <4>3. UNION {Value(v) : v \in {w}} = Value(w)
        OBVIOUS
      <4> QED BY <4>2, <4>3 DEF w
    <3>4. EntriesBody(block, f, at) = Behind(EntryOf(block, at, end), f[end])
      BY <3>3 DEF Behind, EntryOf
    <3> QED BY <2>0, <2>4, <3>4
  <2>5. CASE end \notin at + 2 .. N
    <3>1. Cells(block, at + 2, end) = {}
      BY <1>0, <2>3, <2>5 DEF Cells
    <3>2. EntriesBody(block, f, at) = {}
      BY <2>2, <3>1
    <3> QED BY <2>0, <2>5, <3>2
  <2> QED BY <2>4, <2>5
<1>3. at >= N - FOOTER \/ at < N - FOOTER
  BY <1>0 DEF FOOTER
<1> QED BY <1>1, <1>2, <1>3

\* The walk that signer_certificate() makes over a block (apk/signing.rs:100-121).
Lists(block, from) == \A at \in 0 .. Len(block) : from[at] = EntriesBody(block, from, at)

LEMMA EntriesExist ==
  ASSUME NEW block \in Seq(Nat), Len(block) >= 1
  PROVE  \E from : Lists(block, from) /\ SchemeEntries(block) = from[1]
<1> DEFINE N == Len(block)
           V == [id : Nat, value : Seq(Nat)]
           S == SUBSET Seq(V)
           body == [x \in (0 .. N) \X [0 .. N -> S] |-> EntriesBody(block, x[2], x[1])]
           Def(f) == [at \in 0 .. N |-> EntriesBody(block, f, at)]
           F == CHOOSE f : f = Def(f)
           E(at) == at + 1 + block[at + 1]
<1>0. N \in Nat /\ {} \in S /\ {<<>>} \in S
  OBVIOUS
<1>1. ASSUME NEW at \in 0 .. N, NEW f \in [0 .. N -> S] PROVE EntriesBody(block, f, at) \in S
  <2>1. CASE at >= N - FOOTER
    BY <1>0, <2>1, EntriesStep
  <2>2. CASE at < N - FOOTER /\ E(at) \in at + 2 .. N
    <3> DEFINE end == E(at)
               e == EntryOf(block, at, end)
    <3>1. EntriesBody(block, f, at) = Behind(e, f[end])
      BY <2>2, EntriesStep
    <3>2. end \in 0 .. N
      BY <1>0, <2>2
    <3>3. e \in V
      <4>1. block[at + 2] \in Nat
        <5>1. at + 2 \in 1 .. N
          BY <1>0, <2>2 DEF FOOTER
        <5> QED BY <5>1
      <4>2. SubSeq(block, at + 3, end) \in Seq(Nat)
        <5>0. end \in at + 2 .. N
          BY <2>2
        <5> HIDE DEF end
        <5>1. at + 3 \in Nat \ {0} /\ end \in Nat /\ at + 3 <= end + 1 /\ end <= N
          BY <1>0, <5>0
        <5> QED BY <5>1, SliceIs
      <4> QED BY <4>1, <4>2 DEF EntryOf
    <3> HIDE DEF e, end
    <3>4. f[end] \in S
      <4> HIDE DEF S
      <4> QED BY <3>2
    <3>5. ASSUME NEW rest \in f[end] PROVE <<e>> \o rest \in Seq(V)
      <4>1. rest \in Seq(V)
        BY <3>4
      <4> HIDE DEF V
      <4>2. <<e>> \in Seq(V)
        BY <3>3
      <4> QED BY <4>1, <4>2
    <3>6. Behind(e, f[end]) \in S
      BY <3>5 DEF Behind
    <3> QED BY <3>1, <3>6
  <2>3. CASE at < N - FOOTER /\ E(at) \notin at + 2 .. N
    BY <1>0, <2>3, EntriesStep
  <2>4. at >= N - FOOTER \/ at < N - FOOTER
    BY <1>0 DEF FOOTER
  <2> QED BY <2>1, <2>2, <2>3, <2>4
<1> HIDE DEF S
<1>2. body \in [(0 .. N) \X [0 .. N -> S] -> S]
  <2>1. ASSUME NEW x \in (0 .. N) \X [0 .. N -> S] PROVE EntriesBody(block, x[2], x[1]) \in S
    <3>1. x[1] \in 0 .. N /\ x[2] \in [0 .. N -> S]
      OBVIOUS
    <3> QED BY <1>1, <3>1
  <2> QED BY <2>1
<1>3. ASSUME NEW at \in 0 .. N, NEW f \in [0 .. N -> S]
      PROVE  body[<<at, f>>] = EntriesBody(block, f, at)
  <2>1. <<at, f>> \in (0 .. N) \X [0 .. N -> S]
    OBVIOUS
  <2> QED BY <2>1
<1> HIDE DEF body
<1>4. LooksUp(body, N, S)
  <2>1. ASSUME NEW at \in 0 .. N, NEW f \in [0 .. N -> S], NEW g \in [0 .. N -> S],
               \A e \in at + 1 .. N : f[e] = g[e]
        PROVE  EntriesBody(block, f, at) = EntriesBody(block, g, at)
    <3>1. CASE at >= N - FOOTER
      <4>1. EntriesBody(block, f, at) = {<<>>} /\ EntriesBody(block, g, at) = {<<>>}
        BY <1>0, <3>1, EntriesStep
      <4> QED BY <4>1
    <3>2. CASE at < N - FOOTER /\ E(at) \in at + 2 .. N
      <4> DEFINE end == E(at)
      <4>1. /\ EntriesBody(block, f, at) = Behind(EntryOf(block, at, end), f[end])
            /\ EntriesBody(block, g, at) = Behind(EntryOf(block, at, end), g[end])
        BY <3>2, EntriesStep
      <4>2. end \in at + 2 .. N
        BY <3>2
      <4> HIDE DEF end
      <4>3. end \in at + 1 .. N
        BY <1>0, <4>2
      <4>4. f[end] = g[end]
        BY <2>1, <4>3
      <4> QED BY <4>1, <4>4
    <3>3. CASE at < N - FOOTER /\ E(at) \notin at + 2 .. N
      <4>1. EntriesBody(block, f, at) = {} /\ EntriesBody(block, g, at) = {}
        BY <1>0, <3>3, EntriesStep
      <4> QED BY <4>1
    <3>4. at >= N - FOOTER \/ at < N - FOOTER
      BY <1>0 DEF FOOTER
    <3> QED BY <3>1, <3>2, <3>3, <3>4
  <2> QED BY <1>3, <2>1, SMTT(30) DEF LooksUp
<1>5. PICK h \in [0 .. N -> S] : Settles(h, body, 0, N)
  BY <1>0, <1>2, <1>4, DownwardRecursion
<1>6. h = Def(h)
  <2>1. ASSUME NEW at \in 0 .. N PROVE h[at] = EntriesBody(block, h, at)
    BY <1>3, <1>5 DEF Settles
  <2> QED BY <1>5, <2>1
<1>7. F = Def(F)
  BY <1>6
<1>8. SchemeEntries(block) = F[1]
  BY DEF SchemeEntries, EntriesBody
<1> HIDE DEF F
<1>9. Lists(block, F)
  BY <1>7 DEF Lists
<1> QED BY <1>8, <1>9

\* The schemes of an archive behind its first k.
Listed(a, k) ==
  [i \in 1 .. Len(a.signers) - k |->
     [id |-> a.signers[k + i].scheme, value |-> SchemeValue(a.signers[k + i])]]

LEMMA SignersAre ==
  ASSUME NEW a \in Archive
  PROVE  /\ a.signers \in Seq(Signer) /\ Len(a.signers) \in Nat
         /\ DOMAIN a.signers = 1 .. Len(a.signers)
         /\ \A k \in 1 .. Len(a.signers) : a.signers[k] \in Signer
<1> DEFINE st == a.signers
           T == Signer
<1>1. st \in Seq(T)
  BY DEF Archive, Signer
<1> HIDE DEF st, T
<1>2. Len(st) \in Nat /\ DOMAIN st = 1 .. Len(st) /\ \A k \in 1 .. Len(st) : st[k] \in T
  BY <1>1
<1> QED BY <1>1, <1>2 DEF st, T

\* The sequence f is e and the m elements of g behind it.
Heads(f, e, g, m) ==
  /\ f = [i \in 1 .. m + 1 |-> f[i]] /\ g = [i \in 1 .. m |-> g[i]]
  /\ f[1] = e /\ \A i \in 1 .. m : f[1 + i] = g[i]

LEMMA Headed ==
  ASSUME NEW m \in Nat, NEW f, NEW g, NEW e, Heads(f, e, g, m)
  PROVE  <<e>> \o g = f
<1>a. f = [i \in 1 .. m + 1 |-> f[i]] /\ f[1] = e
  BY DEF Heads
<1>b. g = [i \in 1 .. m |-> g[i]]
  BY DEF Heads
<1>c. \A i \in 1 .. m : f[1 + i] = g[i]
  BY DEF Heads
<1> DEFINE A == {e} \cup {g[i] : i \in 1 .. m}
           h == <<e>>
           p == h \o g
<1>1. h \in Seq(A) /\ Len(h) = 1 /\ h[1] = e
  OBVIOUS
<1>2. g \in Seq(A) /\ Len(g) = m
  <2>1. \A i \in 1 .. m : g[i] \in A
    OBVIOUS
  <2> HIDE DEF A
  <2>2. [i \in 1 .. m |-> g[i]] \in Seq(A)
    BY <2>1
  <2>3. Len([i \in 1 .. m |-> g[i]]) = m
    OBVIOUS
  <2> QED BY <1>b, <2>2, <2>3
<1>3. f \in Seq(A) /\ Len(f) = m + 1
  <2>1. \A i \in 1 .. m + 1 : f[i] \in A
    <3>1. ASSUME NEW i \in 1 .. m + 1, i # 1 PROVE f[i] \in A
      <4>1. i - 1 \in 1 .. m /\ 1 + (i - 1) = i
        BY <3>1
      <4> QED BY <1>c, <4>1
    <3> QED BY <1>a, <3>1
  <2> HIDE DEF A
  <2>2. [i \in 1 .. m + 1 |-> f[i]] \in Seq(A)
    BY <2>1
  <2>3. Len([i \in 1 .. m + 1 |-> f[i]]) = m + 1
    OBVIOUS
  <2> QED BY <1>a, <2>2, <2>3
<1> HIDE DEF A, h
<1>4. p \in Seq(A) /\ Joins(p, h, g)
  BY <1>1, <1>2, Joined
<1>5. Len(p) = m + 1 /\ p[1] = e /\ \A i \in 1 .. m : p[1 + i] = g[i]
  BY <1>1, <1>2, <1>4 DEF Joins
<1> HIDE DEF p
<1>6. ASSUME NEW i \in 1 .. m + 1 PROVE p[i] = f[i]
  <2>1. CASE i = 1
    BY <1>a, <1>5, <2>1
  <2>2. CASE i # 1
    <3>1. i - 1 \in 1 .. m /\ 1 + (i - 1) = i
      BY <2>2
    <3> QED BY <1>c, <1>5, <3>1
  <2> QED BY <2>1, <2>2
<1>7. p = f
  BY <1>3, <1>4, <1>5, <1>6, SameSequence
<1> QED BY <1>7 DEF p, h

\* The walk over the block of an archive lists its schemes in their order.
LEMMA EntriesAre ==
  ASSUME NEW a \in Archive
  PROVE  SchemeEntries(Block(a)) = {Listed(a, 0)}
<1> DEFINE block == Block(a)
           st == a.signers
           n == Len(st)
           N == Len(block)
<1>1. block \in Seq(Nat)
  BY BlockLaidOut
<1>2. PICK o : BlockLayout(o, block, a)
  BY BlockLaidOut
<1> DEFINE f == o[n]
<1> HIDE DEF block
<1>3. n \in Nat /\ \A k \in 1 .. n : st[k] \in Signer
  BY SignersAre
<1>4. /\ o[0] = 0 /\ f \in Nat /\ N = f + 3
      /\ \A k \in 1 .. n : /\ o[k - 1] \in Nat /\ o[k] \in Nat /\ o[k] <= f
                           /\ o[k] = o[k - 1] + (Len(SchemeValue(st[k])) + 2)
                           /\ EntryAt(block, 1 + o[k - 1], st[k])
  BY <1>2 DEF BlockLayout
<1> HIDE DEF st, n, N, f
<1>5. PICK from : Lists(block, from) /\ SchemeEntries(block) = from[1]
  <2>1. Len(block) >= 1
    BY <1>4 DEF N
  <2> QED BY <1>1, <2>1, EntriesExist
<1>6. \A at \in 0 .. N : from[at] = EntriesBody(block, from, at)
  BY <1>5 DEF Lists, N
<1> DEFINE T == {k \in 0 .. n : from[1 + o[k]] = {Listed(a, k)}}
<1>7. n \in T
  <2>1. 1 + f \in 0 .. N /\ 1 + f >= N - FOOTER
    BY <1>4 DEF FOOTER
  <2>2. from[1 + f] = {<<>>}
    <3> DEFINE at == 1 + f
    <3>1. at \in 0 .. Len(block) /\ at >= Len(block) - FOOTER
      BY <2>1 DEF N
    <3>2. from[at] = EntriesBody(block, from, at)
      BY <1>6, <2>1
    <3> HIDE DEF at
    <3>3. EntriesBody(block, from, at) = {<<>>}
      BY <1>1, <3>1, EntriesStep
    <3> QED BY <3>2, <3>3 DEF at
  <2>3. Listed(a, n) = <<>>
    <3>1. 1 .. n - n = {}
      BY <1>3
    <3> QED BY <3>1 DEF Listed, n, st
  <2> QED BY <1>3, <2>2, <2>3 DEF f
<1>8. ASSUME NEW j \in 0 .. n - 1, j + 1 \in T PROVE j \in T
  <2> DEFINE k == j + 1
             s == st[k]
             v == SchemeValue(s)
             m == Len(v)
             u == o[j]
             w == o[k]
             at == 1 + u
             end == 1 + w
  <2>0. k \in 1 .. n /\ k - 1 = j /\ j \in 0 .. n /\ j \in Nat
    BY <1>3
  <2>1. s \in Signer
    BY <1>3, <2>0
  <2>2. v \in Seq(Nat) /\ m \in Nat
    <3>1. v \in Seq(Nat)
      BY <2>1, CertificateIs DEF Signer
    <3> HIDE DEF v
    <3> QED BY <3>1
  <2>3. u \in Nat /\ w \in Nat /\ w <= f /\ w = u + (m + 2) /\ EntryAt(block, at, s)
    BY <1>4, <2>0
  <2>4. from[end] = {Listed(a, k)}
    BY <1>8
  <2> HIDE DEF k, v, m, u, w, s
  <2>5. block[at + 1] = m + 1 /\ block[at + 2] = s.scheme /\ Holds(block, at + 2, v)
    BY <2>3 DEF EntryAt, m, v
  <2>6. /\ at \in 0 .. N /\ at < N - FOOTER /\ end \in at + 2 .. N
        /\ end = at + 1 + (m + 1) /\ end = (at + 2) + m /\ (at + 2) + 1 = at + 3
        /\ at \in Nat /\ end \in Nat
    BY <1>4, <2>2, <2>3 DEF FOOTER
  <2> HIDE DEF at, end
  <2>7. from[at] = Behind(EntryOf(block, at, end), from[end])
    <3>1. at \in 0 .. Len(block) /\ at < Len(block) - FOOTER /\ end \in at + 2 .. Len(block)
      BY <2>6 DEF N
    <3>2. end = at + 1 + block[at + 1]
      BY <2>5, <2>6
    <3>3. EntriesBody(block, from, at) = Behind(EntryOf(block, at, end), from[end])
      BY <1>1, <3>1, <3>2, EntriesStep
    <3> QED BY <1>6, <2>6, <3>3
  <2>8. SubSeq(block, at + 3, end) = v
    <3> DEFINE c == at + 2
    <3>1. c \in Nat /\ Holds(block, c, v) /\ c + 1 = at + 3 /\ c + Len(v) = end
      BY <2>5, <2>6 DEF m
    <3> HIDE DEF c
    <3>2. SubSeq(block, c + 1, c + Len(v)) = v
      BY <1>1, <2>2, <3>1, PartIs
    <3> QED BY <3>1, <3>2
  <2> DEFINE e == [id |-> s.scheme, value |-> v]
             g == Listed(a, k)
             l == Listed(a, j)
             q == n - k
  <2>9. EntryOf(block, at, end) = e
    BY <2>5, <2>8 DEF EntryOf
  <2>10. q \in Nat /\ n - j = q + 1
    BY <1>3, <2>0 DEF k
  <2>11. <<e>> \o g = l
    <3>1. g = [i \in 1 .. q |-> g[i]] /\ \A i \in 1 .. q :
            g[i] = [id |-> st[k + i].scheme, value |-> SchemeValue(st[k + i])]
      BY DEF Listed, n, st
    <3>2. l = [i \in 1 .. q + 1 |-> l[i]] /\ \A i \in 1 .. q + 1 :
            l[i] = [id |-> st[j + i].scheme, value |-> SchemeValue(st[j + i])]
      <4>1. l = [i \in 1 .. n - j |-> l[i]] /\ \A i \in 1 .. n - j :
              l[i] = [id |-> st[j + i].scheme, value |-> SchemeValue(st[j + i])]
        BY DEF Listed, n, st
      <4> HIDE DEF l, q
      <4> QED BY <2>10, <4>1
    <3>3. 1 \in 1 .. q + 1 /\ \A i \in 1 .. q : 1 + i \in 1 .. q + 1 /\ j + (1 + i) = k + i
      BY <2>0, <2>10 DEF k
    <3> HIDE DEF g, l, q
    <3>4. l[1] = e
      BY <3>2, <3>3 DEF k, s, v
    <3>5. \A i \in 1 .. q : l[1 + i] = g[i]
      BY <3>1, <3>2, <3>3
    <3> HIDE DEF e
    <3>6. g = [i \in 1 .. q |-> g[i]]
      BY <3>1
    <3>7. l = [i \in 1 .. q + 1 |-> l[i]]
      BY <3>2
    <3>8. q \in Nat
      BY <2>10
    <3>9. Heads(l, e, g, q)
      BY <3>4, <3>5, <3>6, <3>7 DEF Heads
    <3> QED BY <3>8, <3>9, Headed
  <2> HIDE DEF e, g, l
  <2>12. from[at] = {l}
    <3>1. from[at] = Behind(e, {g})
      BY <2>4, <2>7, <2>9 DEF g
    <3>2. Behind(e, {g}) = {<<e>> \o g}
      BY DEF Behind
    <3> QED BY <2>11, <3>1, <3>2
  <2> QED BY <2>0, <2>12 DEF at, u, l
<1>9. from[1 + o[0]] = {Listed(a, 0)}
  <2> HIDE DEF T
  <2>1. \A k \in 0 .. n : k \in T
    BY <1>3, <1>7, <1>8, DownwardInduction
  <2>2. 0 \in 0 .. n
    BY <1>3
  <2>3. 0 \in T
    BY <2>1, <2>2
  <2> QED BY <2>3 DEF T
<1>10. 1 + o[0] = 1
  BY <1>4
<1> QED BY <1>5, <1>9, <1>10 DEF block

\* v31.or(v3).or(v2) takes the greatest of the schemes that are there.
LEMMA NewestIs ==
  ASSUME NEW K \in SUBSET {SCHEME_V2, SCHEME_V3, SCHEME_V31}, K # {},
         NEW kept, kept = {i \in DOMAIN Newest : Newest[i] \in K}
  PROVE  kept # {} /\ Max(K) \in K /\ Newest[Min(kept)] = Max(K)
<1>0. /\ DOMAIN Newest = 1 .. 3 /\ Newest[1] = 904 /\ Newest[2] = 903 /\ Newest[3] = 902
      /\ K \subseteq {902, 903, 904}
  BY DEF Newest, SCHEME_V2, SCHEME_V3, SCHEME_V31
<1>1. kept \in SUBSET {1, 2, 3} /\ kept # {}
  <2>1. 1 .. 3 = {1, 2, 3}
    OBVIOUS
  <2>2. PICK x \in K : TRUE
    OBVIOUS
  <2>3. x = 904 \/ x = 903 \/ x = 902
    BY <1>0
  <2> QED BY <1>0, <2>1, <2>3
<1>2. Min(kept) \in kept /\ \A y \in kept : Min(kept) <= y
  <2>1. kept \in SUBSET Nat
    BY <1>1
  <2> QED BY <1>1, <2>1, MinOfSet
<1>3. Max(K) \in K /\ \A y \in K : Max(K) >= y
  <2> DEFINE top == 904
  <2>1. top \in Nat /\ K \in SUBSET (0 .. top)
    BY <1>0
  <2> HIDE DEF top
  <2> QED BY <2>1, MaxOfSet
<1> DEFINE m == Min(kept)
           x == Max(K)
<1> HIDE DEF m, x
<1>4. m \in {1, 2, 3} /\ Newest[m] \in K /\ x \in {902, 903, 904}
  <2>1. m \in kept /\ x \in K
    BY <1>2, <1>3 DEF m, x
  <2> QED BY <1>0, <1>1, <2>1
<1>5. x >= Newest[m]
  BY <1>3, <1>4 DEF x
<1>6. PICK i \in {1, 2, 3} : Newest[i] = x
  BY <1>0, <1>4
<1>7. m <= i
  <2>1. i \in kept
    <3>1. i \in 1 .. 3
      BY <1>6
    <3> QED BY <1>0, <1>3, <1>6, <3>1 DEF x
  <2> QED BY <1>2, <2>1 DEF m
<1>8. Newest[m] = x
  BY <1>0, <1>4, <1>5, <1>6, <1>7
<1> QED BY <1>1, <1>3, <1>8 DEF m, x

Chosen(entries) ==
  LET of(id) == {k \in DOMAIN entries :
                   entries[k].id = id /\ certificate(entries[k].value) # {}}
      kept == {i \in DOMAIN Newest : of(Newest[i]) # {}}
  IN  IF kept = {} THEN {}
      ELSE certificate(entries[Min(of(Newest[Min(kept)]))].value)

\* signer_certificate() of a whole block gives the signer that Android takes
\* (apk/signing.rs:84-135).
LEMMA SignerRead ==
  ASSUME NEW a \in Archive
  PROVE  /\ a.flaw = "none" /\ Len(Block(a)) <= MAX_BLOCK =>
              signer_certificate(Block(a)) = SignerOf(a)
         /\ a.flaw = "sizes" => signer_certificate(Block(a)) = {}
<1> DEFINE block == Block(a)
           st == a.signers
           n == Len(st)
           l == Listed(a, 0)
<1>1. PICK o : BlockLayout(o, block, a)
  BY BlockLaidOut
<1> DEFINE f == o[n]
<1>2. /\ f \in Nat /\ Len(block) = f + 3 /\ block[f + 2] = f + 2
      /\ block[1] = IF a.flaw = "sizes" THEN (f + 2) + 1 ELSE f + 2
  BY <1>1 DEF BlockLayout
<1>3. n \in Nat /\ DOMAIN st = 1 .. n /\ \A k \in 1 .. n : st[k] \in Signer
  BY SignersAre
<1>4. SchemeEntries(block) = {l}
  BY EntriesAre
<1>5. block[Len(block) - FOOTER + 1] = f + 2 /\ ~(Len(block) < FOOTER)
  <2> HIDE DEF block, f
  <2>1. Len(block) - FOOTER + 1 = f + 2 /\ ~(Len(block) < FOOTER)
    BY <1>2 DEF FOOTER
  <2> QED BY <1>2, <2>1
<1>6. CASE a.flaw = "sizes"
  <2>1. block[1] # block[Len(block) - FOOTER + 1]
    <3> HIDE DEF block, f
    <3> QED BY <1>2, <1>5, <1>6
  <2>2. signer_certificate(block) = {}
    BY <2>1 DEF signer_certificate
  <2> QED BY <1>6, <2>2
<1>7. CASE a.flaw = "none" /\ Len(block) <= MAX_BLOCK
  <2> DEFINE of(id) == {k \in DOMAIN st : st[k].scheme = id /\ st[k].whole}
             in(id) == {k \in DOMAIN l : l[k].id = id /\ certificate(l[k].value) # {}}
             K == {s \in {SCHEME_V2, SCHEME_V3, SCHEME_V31} : of(s) # {}}
             kept == {i \in DOMAIN Newest : in(Newest[i]) # {}}
  <2>1. ~(Len(block) > MAX_BLOCK \/ Len(block) < FOOTER)
    <3> HIDE DEF block
    <3> QED BY <1>2, <1>5, <1>7, PackageAssumption
  <2>2. block[1] = block[Len(block) - FOOTER + 1]
    BY <1>2, <1>5, <1>7
  <2>3. signer_certificate(block) = Chosen(l)
    <3>1. signer_certificate(block) = UNION {Chosen(entries) : entries \in SchemeEntries(block)}
      BY <2>1, <2>2 DEF signer_certificate, Chosen
    <3> HIDE DEF l, block
    <3> QED BY <1>4, <3>1
  <2>4. /\ DOMAIN l = 1 .. n
        /\ \A k \in 1 .. n : /\ l[k].id = st[k].scheme
                             /\ certificate(l[k].value)
                                  = IF st[k].whole THEN {<<st[k].cert>>} ELSE {}
    <3>1. 1 .. n - 0 = 1 .. n /\ \A k \in 1 .. n : 0 + k = k
      BY <1>3
    <3>2. DOMAIN l = 1 .. n /\ \A k \in 1 .. n :
            l[k] = [id |-> st[k].scheme, value |-> SchemeValue(st[k])]
      BY <3>1 DEF Listed
    <3> HIDE DEF l, n, st
    <3>3. ASSUME NEW k \in 1 .. n
          PROVE  certificate(SchemeValue(st[k])) = IF st[k].whole THEN {<<st[k].cert>>} ELSE {}
      <4>1. st[k] \in Signer
        BY <1>3
      <4> QED BY <4>1, CertificateIs DEF Signer
    <3>4. ASSUME NEW k \in 1 .. n
          PROVE  /\ l[k].id = st[k].scheme
                 /\ certificate(l[k].value) = IF st[k].whole THEN {<<st[k].cert>>} ELSE {}
      <4>1. l[k].id = st[k].scheme /\ l[k].value = SchemeValue(st[k])
        BY <3>2
      <4> QED BY <3>3, <4>1
    <3> QED BY <3>2, <3>4
  <2>5. Chosen(l) = IF kept = {} THEN {}
                    ELSE certificate(l[Min(in(Newest[Min(kept)]))].value)
    <3> HIDE DEF l
    <3> QED BY DEF Chosen
  <2>6. SignerOf(a) = IF K = {} THEN {} ELSE {<<st[Min(of(Max(K)))].cert>>}
    BY <1>7 DEF SignerOf
  <2> HIDE DEF l, st
  <2>7. ASSUME NEW id PROVE in(id) = of(id)
    BY <1>3, <2>4
  <2> HIDE DEF in
  <2>8. kept = {i \in DOMAIN Newest : Newest[i] \in K}
    <3>1. \A i \in DOMAIN Newest : Newest[i] \in {SCHEME_V2, SCHEME_V3, SCHEME_V31}
      <4>1. DOMAIN Newest = {1, 2, 3}
        BY DEF Newest
      <4> QED BY <4>1 DEF Newest
    <3> HIDE DEF of
    <3> QED BY <2>7, <3>1
  <2>9. ASSUME K = {} PROVE signer_certificate(block) = SignerOf(a)
    BY <2>3, <2>5, <2>6, <2>8, <2>9
  <2>10. ASSUME K # {} PROVE signer_certificate(block) = SignerOf(a)
    <3> DEFINE x == Max(K)
               j == Min(of(x))
    <3>0. K \in SUBSET {SCHEME_V2, SCHEME_V3, SCHEME_V31}
      OBVIOUS
    <3>1. kept # {} /\ x \in K /\ Newest[Min(kept)] = x
      <4> HIDE DEF K, kept
      <4> QED BY <2>8, <2>10, <3>0, NewestIs
    <3> HIDE DEF x, kept
    <3>2. of(x) # {}
      BY <3>1
    <3>3. j \in of(x)
      <4>1. of(x) \in SUBSET Nat
        BY <1>3
      <4> HIDE DEF of
      <4> QED BY <3>2, <4>1, MinOfSet
    <3>4. Chosen(l) = certificate(l[j].value)
      BY <2>5, <2>7, <3>1
    <3> HIDE DEF j
    <3>5. certificate(l[j].value) = {<<st[j].cert>>}
      BY <1>3, <2>4, <3>3
    <3> QED BY <2>3, <2>6, <2>10, <3>4, <3>5 DEF x, j
  <2>11. signer_certificate(block) = SignerOf(a)
    BY <2>9, <2>10
  <2> QED BY <1>7, <2>11
<1> QED BY <1>6, <1>7

\* A whole file: the signing block behind its first cell, and the end record with
\* the comment behind the central directory.
FileLayout(cells, a) ==
  LET b == Len(Block(a))
  IN  /\ Len(cells) = (b + 5) + Len(a.comment) /\ Holds(cells, 1, Block(a))
      /\ cells[b + 3] = END /\ cells[b + 4] = b + 1 /\ cells[b + 5] = Len(a.comment)

LEMMA ContentIs ==
  ASSUME NEW a \in Archive
  PROVE  /\ Content(a) \in Seq(Nat)
         /\ a.flaw \notin {"cut", "directory"} => FileLayout(Content(a), a)
<1> DEFINE block == Block(a)
           b == Len(block)
           comment == a.comment
           z == <<0>>
           before == z \o block
           s == before \o z
           record == <<END, Len(before), Len(comment)>>
           t == s \o record
           whole == t \o comment
<1>1. block \in Seq(Nat) /\ comment \in Seq(Nat)
  BY BlockLaidOut DEF Archive
<1>2. b \in Nat /\ Len(comment) \in Nat /\ z \in Seq(Nat) /\ Len(z) = 1
  <2> HIDE DEF block, comment
  <2> QED BY <1>1
<1>3. Content(a) = CASE a.flaw = "cut" -> SubSeq(whole, 1, Len(whole) - 1)
                     [] a.flaw = "directory" -> before
                     [] OTHER -> whole
  BY DEF Content
<1>4. a.flaw \in {"none", "sizes", "magic", "directory", "cut"}
  BY DEF Archive
<1> HIDE DEF block, comment, z
<1>5. before \in Seq(Nat) /\ Joins(before, z, block)
  BY <1>1, <1>2, Joined
<1> HIDE DEF before
<1>6. Len(before) = b + 1 /\ \A i \in 1 .. b : before[1 + i] = block[i]
  <2>1. Len(before) = 1 + b /\ \A i \in 1 .. b : before[1 + i] = block[i]
    BY <1>2, <1>5 DEF Joins
  <2> QED BY <1>2, <2>1
<1>7. s \in Seq(Nat) /\ Joins(s, before, z)
  BY <1>2, <1>5, Joined
<1> HIDE DEF s
<1>8. record \in Seq(Nat) /\ Len(record) = 3 /\ record[1] = END /\ record[2] = Len(before)
      /\ record[3] = Len(comment)
  <2> DEFINE x == Len(before)
             y == Len(comment)
  <2>1. x \in Nat /\ y \in Nat
    BY <1>2, <1>6
  <2> HIDE DEF x, y
  <2>2. /\ <<END, x, y>> \in Seq(Nat) /\ Len(<<END, x, y>>) = 3
        /\ <<END, x, y>>[1] = END /\ <<END, x, y>>[2] = x /\ <<END, x, y>>[3] = y
    BY <2>1 DEF END
  <2> QED BY <2>2 DEF x, y
<1> HIDE DEF record
<1>9. t \in Seq(Nat) /\ Joins(t, s, record)
  BY <1>7, <1>8, Joined
<1> HIDE DEF t
<1>10. whole \in Seq(Nat) /\ Joins(whole, t, comment)
  BY <1>1, <1>9, Joined
<1> HIDE DEF whole
<1>11. /\ Len(s) = b + 2 /\ Len(t) = b + 5 /\ Len(whole) = (b + 5) + Len(comment)
  <2>1. Len(s) = (b + 1) + 1
    BY <1>2, <1>6, <1>7 DEF Joins
  <2>2. Len(t) = Len(s) + 3 /\ Len(whole) = Len(t) + Len(comment)
    BY <1>8, <1>9, <1>10 DEF Joins
  <2> HIDE DEF b
  <2> QED BY <1>2, <2>1, <2>2
<1>12. ASSUME NEW i \in 1 .. b PROVE whole[1 + i] = block[i]
  <2>1. 1 + i \in 1 .. b + 1 /\ 1 + i \in 1 .. b + 2 /\ 1 + i \in 1 .. b + 5
    BY <1>2
  <2>2. whole[1 + i] = t[1 + i] /\ t[1 + i] = s[1 + i] /\ s[1 + i] = before[1 + i]
    BY <1>6, <1>7, <1>9, <1>10, <1>11, <2>1 DEF Joins
  <2> QED BY <1>6, <2>2
<1>13. whole[b + 3] = END /\ whole[b + 4] = b + 1 /\ whole[b + 5] = Len(comment)
  <2>1. /\ (b + 2) + 1 = b + 3 /\ (b + 2) + 2 = b + 4 /\ (b + 2) + 3 = b + 5
        /\ b + 3 \in 1 .. b + 5 /\ b + 4 \in 1 .. b + 5 /\ b + 5 \in 1 .. b + 5
        /\ 1 \in 1 .. 3 /\ 2 \in 1 .. 3 /\ 3 \in 1 .. 3
    BY <1>2
  <2>2. \A i \in 1 .. 3 : t[(b + 2) + i] = record[i]
    BY <1>8, <1>9, <1>11 DEF Joins
  <2>3. \A i \in 1 .. b + 5 : whole[i] = t[i]
    BY <1>10, <1>11 DEF Joins
  <2>4. t[(b + 2) + 1] = END /\ t[(b + 2) + 2] = b + 1 /\ t[(b + 2) + 3] = Len(comment)
    BY <1>6, <1>8, <2>1, <2>2
  <2> QED BY <2>1, <2>3, <2>4
<1>14. Holds(whole, 1, block)
  <2>1. 1 + b <= Len(whole)
    BY <1>2, <1>11
  <2> QED BY <1>12, <2>1 DEF Holds
<1>15. FileLayout(whole, a)
  BY <1>11, <1>13, <1>14 DEF FileLayout, block, comment
<1>16. SubSeq(whole, 1, Len(whole) - 1) \in Seq(Nat)
  <2> DEFINE e == Len(whole) - 1
  <2>1. e \in Nat /\ 1 \in Nat \ {0} /\ 1 <= e + 1 /\ e <= Len(whole)
    <3>1. Len(whole) \in Nat /\ Len(whole) >= 5
      BY <1>2, <1>11
    <3> QED BY <3>1
  <2> HIDE DEF e
  <2>2. SubSeq(whole, 1, e) \in Seq(Nat)
    BY <1>10, <2>1, SliceIs
  <2> QED BY <2>2 DEF e
<1>17. CASE a.flaw = "cut"
  <2>1. Content(a) = SubSeq(whole, 1, Len(whole) - 1)
    BY <1>3, <1>17
  <2> QED BY <1>16, <1>17, <2>1
<1>18. CASE a.flaw = "directory"
  <2>1. Content(a) = before
    BY <1>3, <1>18
  <2> QED BY <1>5, <1>18, <2>1
<1>19. CASE a.flaw \notin {"cut", "directory"}
  <2>1. Content(a) = whole
    BY <1>3, <1>19
  <2> QED BY <1>10, <1>15, <2>1
<1> QED BY <1>17, <1>18, <1>19

\* central_directory_offset() of the tail of a file finds its own end record, if
\* there is one (apk/zip.rs:49-90).
LEMMA TailRead ==
  ASSUME NEW a \in Archives, hold.cells = Content(a)
  PROVE  central_directory_offset(ReadTail)
           = IF a.flaw \in {"cut", "directory"} THEN {} ELSE {Len(Block(a)) + 1}
<1> DEFINE cells == Content(a)
           n == Len(cells)
           t == Min({n, MAX_TAIL})
           d == n - t
           tail == SubSeq(cells, d + 1, n)
           found == {at \in 0 .. Len(tail) - END_SIZE :
                       tail[at + 1] = END /\ at + END_SIZE + tail[at + 3] = Len(tail)}
<1>0. a \in Archive /\ MAX_TAIL \in Nat
  BY PackageAssumption
<1>1. cells \in Seq(Nat)
  BY <1>0, ContentIs
<1>2. ReadTail = tail
  BY DEF ReadTail
<1>3. central_directory_offset(tail) = IF found = {} THEN {} ELSE {tail[Max(found) + 2]}
  BY DEF central_directory_offset
<1>4. EndRecords(a) = {at \in 0 .. n - END_SIZE :
                         cells[at + 1] = END /\ at + END_SIZE + cells[at + 3] = n}
  BY DEF EndRecords
<1> HIDE DEF cells
<1>6. n \in Nat
  BY <1>1
<1> HIDE DEF n
<1>7. t \in Nat /\ t <= n /\ (t = n \/ t = MAX_TAIL)
  <2> DEFINE S == {n, MAX_TAIL}
  <2>1. S \in SUBSET Nat /\ S # {} /\ n \in S
    BY <1>0, <1>6
  <2> HIDE DEF S
  <2>2. Min(S) \in S /\ \A y \in S : Min(S) <= y
    BY <2>1, MinOfSet
  <2> QED BY <1>0, <1>6, <2>1, <2>2 DEF S
<1> HIDE DEF t
<1>8. d \in Nat /\ d + t = n /\ n - (d + 1) + 1 = t
  BY <1>6, <1>7
<1> HIDE DEF d
<1>9. Len(tail) = t /\ \A i \in 1 .. t : tail[i] = cells[d + i]
  <2> DEFINE c == d + 1
  <2>1. c \in Nat \ {0} /\ n \in Nat /\ c <= n + 1 /\ n <= Len(cells) /\ n - c + 1 = t
        /\ \A i \in 1 .. t : c + i - 1 = d + i
    BY <1>6, <1>7, <1>8 DEF n
  <2> HIDE DEF c
  <2>2. Len(SubSeq(cells, c, n)) = n - c + 1
        /\ \A i \in 1 .. n - c + 1 : SubSeq(cells, c, n)[i] = cells[c + i - 1]
    BY <1>1, <2>1, SliceIs
  <2>3. Len(SubSeq(cells, c, n)) = t /\ \A i \in 1 .. t : SubSeq(cells, c, n)[i] = cells[d + i]
    BY <2>1, <2>2
  <2> QED BY <2>3 DEF c
<1> HIDE DEF tail
<1>10. ASSUME NEW at \in 0 .. t - END_SIZE
       PROVE  /\ d + at \in 0 .. n - END_SIZE
              /\ tail[at + 1] = cells[(d + at) + 1] /\ tail[at + 2] = cells[(d + at) + 2]
              /\ tail[at + 3] = cells[(d + at) + 3]
  <2>1. /\ d + at \in 0 .. n - END_SIZE
        /\ at + 1 \in 1 .. t /\ d + (at + 1) = (d + at) + 1
        /\ at + 2 \in 1 .. t /\ d + (at + 2) = (d + at) + 2
        /\ at + 3 \in 1 .. t /\ d + (at + 3) = (d + at) + 3
    BY <1>6, <1>7, <1>8 DEF END_SIZE
  <2> QED BY <1>9, <2>1
<1>11. ASSUME NEW at \in 0 .. t - END_SIZE PROVE cells[(d + at) + 3] \in Nat
  <2>1. (d + at) + 3 \in 1 .. n
    BY <1>6, <1>7, <1>8 DEF END_SIZE
  <2> QED BY <1>1, <2>1 DEF n
<1>12. ASSUME NEW at \in 0 .. t - END_SIZE
       PROVE  at \in found <=> d + at \in EndRecords(a)
  <2> DEFINE x == cells[(d + at) + 3]
  <2>1. x \in Nat /\ tail[at + 3] = x
    BY <1>10, <1>11
  <2> HIDE DEF x
  <2>2. at + END_SIZE + x = t <=> (d + at) + END_SIZE + x = n
    BY <1>6, <1>7, <1>8, <2>1 DEF END_SIZE
  <2> QED BY <1>4, <1>9, <1>10, <2>1, <2>2 DEF x
<1>13. \A at \in found : at \in 0 .. t - END_SIZE /\ d + at \in EndRecords(a)
  <2>1. ASSUME NEW at \in found PROVE at \in 0 .. t - END_SIZE
    BY <1>9
  <2> HIDE DEF found
  <2> QED BY <1>12, <2>1
<1> HIDE DEF found
<1>14. CASE a.flaw \in {"cut", "directory"}
  <2>1. EndRecords(a) = {}
    BY <1>14, ArchiveAssumption
  <2>2. found = {}
    BY <1>13, <2>1
  <2> QED BY <1>2, <1>3, <1>14, <2>2
<1>15. CASE a.flaw \notin {"cut", "directory"}
  <2> DEFINE b == Len(Block(a))
             m == Len(a.comment)
             r == b + 2
             k == r - d
  <2>1. FileLayout(cells, a)
    BY <1>0, <1>15, ContentIs DEF cells
  <2>2. b \in Nat /\ m \in Nat
    <3>1. Block(a) \in Seq(Nat) /\ a.comment \in Seq(Nat)
      BY <1>0, BlockLaidOut DEF Archive
    <3> DEFINE x == Block(a)
               y == a.comment
    <3> HIDE DEF x, y
    <3>2. Len(x) \in Nat /\ Len(y) \in Nat
      BY <3>1 DEF x, y
    <3> QED BY <3>2 DEF x, y
  <2>3. n = (b + 5) + m /\ cells[b + 3] = END /\ cells[b + 4] = b + 1 /\ cells[b + 5] = m
    BY <2>1 DEF FileLayout, n
  <2>4. END_SIZE + m <= MAX_TAIL /\ \A at \in EndRecords(a) : at <= r
    BY <1>15, ArchiveAssumption
  <2> HIDE DEF b, m
  <2>5. /\ k \in 0 .. t - END_SIZE /\ d + k = r /\ r \in 0 .. n - END_SIZE
        /\ r + 1 = b + 3 /\ r + 2 = b + 4 /\ r + 3 = b + 5 /\ r + END_SIZE + m = n
    BY <1>0, <1>6, <1>7, <1>8, <2>2, <2>3, <2>4 DEF END_SIZE
  <2> HIDE DEF r, k
  <2>6. r \in EndRecords(a)
    BY <1>4, <2>3, <2>5
  <2>7. k \in found
    BY <1>12, <2>5, <2>6
  <2>8. ASSUME NEW at \in found PROVE at <= k
    <3>1. at \in 0 .. t - END_SIZE /\ d + at <= r
      BY <1>13, <2>4
    <3> QED BY <1>7, <1>8, <2>5, <3>1
  <2>9. Max(found) = k
    <3>1. t - END_SIZE \in Nat /\ found \in SUBSET (0 .. t - END_SIZE)
      <4>1. t - END_SIZE \in Nat
        BY <1>7, <2>5 DEF END_SIZE
      <4> QED BY <1>13, <4>1
    <3> DEFINE top == t - END_SIZE
               x == Max(found)
    <3> HIDE DEF top
    <3>2. x \in found /\ \A y \in found : x >= y
      BY <2>7, <3>1, MaxOfSet DEF top
    <3> HIDE DEF x
    <3>3. x <= k /\ x >= k /\ x \in Nat /\ k \in Nat
      BY <2>5, <2>7, <2>8, <3>1, <3>2
    <3>4. x = k
      BY <3>3
    <3> QED BY <3>4 DEF x
  <2>10. tail[k + 2] = b + 1
    BY <1>10, <2>3, <2>5
  <2> QED BY <1>2, <1>3, <1>15, <2>7, <2>9, <2>10 DEF b
<1> QED BY <1>14, <1>15

\* The footer in front of the central directory states the size of the block
\* (apk/signing.rs:61-82).
LEMMA FooterRead ==
  ASSUME NEW a \in Archives, hold.cells = Content(a), a.flaw \notin {"cut", "directory"},
         hold.directory = Len(Block(a)) + 1
  PROVE  ReadSize = IF a.flaw = "magic" \/ Len(Block(a)) - 1 > MAX_BLOCK THEN {}
                    ELSE {Len(Block(a))}
<1> DEFINE cells == Content(a)
           block == Block(a)
           b == Len(block)
           size == b - 1
           mark == IF a.flaw = "magic" THEN 0 ELSE MAGIC
           footer == <<size, mark>>
<1>0. a \in Archive
  BY PackageAssumption
<1>1. cells \in Seq(Nat) /\ FileLayout(cells, a)
  BY <1>0, ContentIs
<1>2. PICK o : BlockLayout(o, block, a)
  BY <1>0, BlockLaidOut
<1> DEFINE f == o[Len(a.signers)]
<1>3. f \in Nat /\ b = f + 3 /\ block[f + 2] = f + 2 /\ block[f + 3] = mark
  BY <1>2 DEF BlockLayout
<1>4. Holds(cells, 1, block)
  BY <1>1 DEF FileLayout
<1>5. ReadSize = UNION {block_length(x) : x \in Cells(cells, (b + 1) - FOOTER, b + 1)}
  BY DEF ReadSize
<1> HIDE DEF cells, block, f
<1>6. /\ size \in Nat /\ size = f + 2 /\ mark \in Nat
      /\ f + 2 \in 1 .. b /\ f + 3 \in 1 .. b /\ 1 + (f + 2) = size + 1
      /\ 1 + (f + 3) = size + 2 /\ (b + 1) - FOOTER = size /\ b + 1 = size + 2
  BY <1>3 DEF FOOTER, MAGIC
<1>7. 1 + b <= Len(cells) /\ \A i \in 1 .. b : cells[1 + i] = block[i]
  BY <1>4 DEF Holds
<1> HIDE DEF b, size
<1>8. cells[size + 1] = size /\ cells[size + 2] = mark
  BY <1>3, <1>6, <1>7
<1> HIDE DEF mark
<1>9. footer \in Seq(Nat) /\ Len(footer) = 2 /\ footer[1] = size /\ footer[2] = mark
  BY <1>6
<1> HIDE DEF footer
<1>10. Holds(cells, size, footer)
  <2>1. size + 2 <= Len(cells)
    <3>1. 1 + b = size + 2
      BY <1>3, <1>6
    <3> QED BY <1>7, <3>1
  <2>2. ASSUME NEW i \in 1 .. 2 PROVE cells[size + i] = footer[i]
    <3>1. i = 1 \/ i = 2
      OBVIOUS
    <3> QED BY <1>8, <1>9, <3>1
  <2> QED BY <1>9, <2>1, <2>2 DEF Holds
<1>11. Cells(cells, size, b + 1) = {footer}
  <2>1. b + 1 = size + Len(footer)
    BY <1>6, <1>9
  <2> DEFINE e == b + 1
  <2> HIDE DEF e
  <2>2. e = size + Len(footer)
    BY <2>1 DEF e
  <2>3. cells \in Seq(Nat) /\ size \in Nat /\ footer \in Seq(Nat)
    BY <1>1, <1>6, <1>9
  <2>4. Cells(cells, size, e) = {footer}
    BY <1>10, <2>2, <2>3, CellsAre
  <2> QED BY <2>4 DEF e
<1>12. ReadSize = block_length(footer)
  BY <1>5, <1>6, <1>11
<1>13. size + 1 = b
  BY <1>3, <1>6
<1>14. mark # MAGIC <=> a.flaw = "magic"
  BY DEF mark, MAGIC
<1>15. block_length(footer) = IF a.flaw = "magic" \/ size > MAX_BLOCK THEN {} ELSE {b}
  BY <1>9, <1>13, <1>14 DEF block_length
<1> QED BY <1>12, <1>15 DEF size, b, block

\* The block itself lies between the first cell and the central directory.
LEMMA BlockRead ==
  ASSUME NEW a \in Archives, hold.cells = Content(a), a.flaw \notin {"cut", "directory"},
         hold.directory = Len(Block(a)) + 1, hold.size = Len(Block(a))
  PROVE  ReadSigner = IF Len(Block(a)) > MAX_BLOCK THEN {} ELSE signer_certificate(Block(a))
<1> DEFINE cells == Content(a)
           block == Block(a)
           b == Len(block)
<1>0. a \in Archive
  BY PackageAssumption
<1>1. cells \in Seq(Nat) /\ FileLayout(cells, a) /\ block \in Seq(Nat)
  BY <1>0, ContentIs, BlockLaidOut
<1>2. Holds(cells, 1, block)
  BY <1>1 DEF FileLayout
<1>3. ReadSigner = UNION {signer_certificate(x) : x \in
        IF b > MAX_BLOCK THEN {} ELSE Cells(cells, (b + 1) - b, b + 1)}
  BY DEF ReadSigner
<1> HIDE DEF cells, block
<1>4. b \in Nat /\ (b + 1) - b = 1 /\ b + 1 = 1 + Len(block)
  BY <1>1
<1>5. Cells(cells, 1, b + 1) = {block}
  <2> DEFINE e == b + 1
             c == 1
  <2>1. c \in Nat /\ Holds(cells, c, block) /\ e = c + Len(block)
    BY <1>2, <1>4
  <2> HIDE DEF e, c
  <2>2. Cells(cells, c, e) = {block}
    BY <1>1, <2>1, CellsAre
  <2> QED BY <2>2 DEF e, c
<1> QED BY <1>3, <1>4, <1>5 DEF block

-----------------------------------------------------------------------------
(* The path of the archive.                                                *)

LEMMA MarkedArchive ==
  ASSUME NEW path \in Seq(STRING), \A k \in ArchiveMarks(path) : k >= 5,
         NEW found \in BeforeMark(path)
  PROVE  Len(path) >= 5 /\ Len(found) >= 4 /\ SubSeq(found, 1, 4) = SubSeq(path, 1, 4)
<1> DEFINE marks == ArchiveMarks(path)
           k == Min(marks)
<1>1. marks # {} /\ found = Append(SubSeq(path, 1, k - 1), InArchive[path[k]])
  BY DEF BeforeMark
<1>2. marks \in SUBSET Nat /\ marks \in SUBSET (1 .. Len(path)) /\ Len(path) \in Nat
  BY DEF ArchiveMarks
<1>3. k \in marks
  <2> HIDE DEF marks
  <2> QED BY <1>1, <1>2, MinOfSet
<1>4. k >= 5 /\ k \in 1 .. Len(path) /\ path[k] \in DOMAIN InArchive
  BY <1>2, <1>3 DEF ArchiveMarks
<1> DEFINE m == k - 1
           s == SubSeq(path, 1, m)
           x == InArchive[path[k]]
<1>6. m \in Nat /\ m >= 4 /\ m <= Len(path) /\ Len(path) >= 5
  <2> HIDE DEF k
  <2> QED BY <1>2, <1>4
<1> HIDE DEF m
<1>7. s \in Seq(STRING) /\ Len(s) = m /\ \A i \in 1 .. m : s[i] = path[i]
  BY <1>2, <1>6
<1>8. found = Append(s, x)
  BY <1>1 DEF m
<1> HIDE DEF s, x, k
<1>9. Len(found) = m + 1 /\ \A i \in 1 .. m : found[i] = s[i]
  <2> DEFINE A == STRING \cup {x}
  <2>1. x \in A /\ \A i \in 1 .. m : s[i] \in A
    BY <1>7
  <2> HIDE DEF A
  <2>3. s = [i \in 1 .. m |-> s[i]]
    BY <1>7
  <2>4. [i \in 1 .. m |-> s[i]] \in Seq(A)
    BY <1>6, <2>1
  <2>2. Len(Append(s, x)) = Len(s) + 1 /\ \A i \in 1 .. Len(s) : Append(s, x)[i] = s[i]
    <3>1. s \in Seq(A) /\ x \in A
      BY <2>1, <2>3, <2>4
    <3>2. Len(Append(s, x)) = Len(s) + 1
      BY <3>1
    <3>3. ASSUME NEW i \in 1 .. Len(s) PROVE Append(s, x)[i] = s[i]
      BY <3>1
    <3> QED BY <3>2, <3>3
  <2> QED BY <1>7, <1>8, <2>2
<1>10. \A i \in 1 .. 4 : found[i] = path[i]
  BY <1>6, <1>7, <1>9
<1>11. Len(found) >= 4
  BY <1>6, <1>9
<1>12. SubSeq(found, 1, 4) = SubSeq(path, 1, 4)
  BY <1>10
<1> QED BY <1>6, <1>11, <1>12

LEMMA RootIs ==
  ASSUME NEW path \in Seq(STRING), NEW root \in Seq(STRING), Len(root) = 4
  PROVE  IsPrefix(root, path) <=> Len(path) >= 4 /\ SubSeq(path, 1, 4) = root
<1>1. SubSeq(root, 1, 4) = root
  OBVIOUS
<1> QED BY <1>1 DEF IsPrefix

\* The archives that the process can name lie in the directory of its package.
LEMMA PathIsOwn ==
  ASSUME NEW layout \in Layouts, NEW image \in OwnImages, NEW text,
         DOMAIN text = DOMAIN layout, \A k \in DOMAIN text : text[k].path = layout[k],
         NEW path \in package_archive_for_image(text, image)
  PROVE  /\ Len(image) >= 4 /\ Len(path) >= 4
         /\ SubSeq(path, 1, 4) = SubSeq(image, 1, 4)
<1>1. /\ image \in Seq(STRING) /\ \A k \in ArchiveMarks(image) : k >= 5
      /\ \A k \in DOMAIN layout :
           layout[k] \in Seq(STRING) /\ \A j \in ArchiveMarks(layout[k]) : j >= 5
  <2>1. layout \in Seq(Seq(STRING)) /\ image \in Seq(STRING)
    BY InstallAssumption
  <2>2. \A k \in DOMAIN layout : layout[k] \in Seq(STRING) /\ layout[k] \in ToSet(layout)
    <3> DEFINE A == Seq(STRING)
    <3> HIDE DEF A
    <3>1. \A k \in DOMAIN layout : layout[k] \in A
      BY <2>1 DEF A
    <3> QED BY <3>1 DEF A, ToSet
  <2> QED BY <2>1, <2>2, InstallAssumption
<1>2. CASE BeforeMark(image) # {}
  <2>1. path \in BeforeMark(image)
    BY <1>2 DEF package_archive_for_image
  <2>2. Len(image) >= 5 /\ Len(path) >= 4 /\ SubSeq(path, 1, 4) = SubSeq(image, 1, 4)
    BY <1>1, <2>1, MarkedArchive
  <2>3. Len(image) >= 4
    BY <1>1, <2>2
  <2> QED BY <2>2, <2>3
<1>3. CASE BeforeMark(image) = {}
  <2>1. PICK root \in install_root(image) :
          \E k \in DOMAIN text : path \in ArchiveUnder(root, text[k])
    <3>1. PICK root \in install_root(image) :
            LET hits == {k \in DOMAIN text : ArchiveUnder(root, text[k]) # {}}
            IN  path \in IF hits = {} THEN {} ELSE ArchiveUnder(root, text[Min(hits)])
      BY <1>3 DEF package_archive_for_image
    <3> DEFINE hits == {k \in DOMAIN text : ArchiveUnder(root, text[k]) # {}}
    <3>2. hits # {} /\ path \in ArchiveUnder(root, text[Min(hits)])
      BY <3>1
    <3>3. hits \in SUBSET Nat /\ hits \subseteq DOMAIN text
      <4>1. layout \in Seq(Seq(STRING))
        BY InstallAssumption
      <4>2. DOMAIN layout \in SUBSET Nat
        BY <4>1
      <4> QED BY <4>2
    <3> HIDE DEF hits
    <3>4. Min(hits) \in hits
      BY <3>2, <3>3, MinOfSet
    <3> QED BY <3>2, <3>3, <3>4
  <2>2. root = SubSeq(image, 1, 4) /\ Len(image) >= 5
    BY <2>1 DEF install_root
  <2>3. root \in Seq(STRING) /\ Len(root) = 4 /\ Len(image) >= 4
    BY <1>1, <2>2
  <2>4. PICK k \in DOMAIN text : path \in ArchiveUnder(root, text[k])
    BY <2>1
  <2> DEFINE q == layout[k]
  <2>5. q \in Seq(STRING) /\ (\A j \in ArchiveMarks(q) : j >= 5) /\ text[k].path = q
    BY <1>1
  <2> HIDE DEF q
  <2>6. IsPrefix(root, q) /\ path \in (IF Last(q) \in ARCHIVE THEN {q} ELSE BeforeMark(q))
    BY <2>4, <2>5 DEF ArchiveUnder, path_of
  <2>7. Len(q) >= 4 /\ SubSeq(q, 1, 4) = root
    BY <2>3, <2>5, <2>6, RootIs
  <2>8. CASE Last(q) \in ARCHIVE
    <3>1. path = q
      BY <2>6, <2>8
    <3> QED BY <2>2, <2>3, <2>7, <3>1
  <2>9. CASE Last(q) \notin ARCHIVE
    <3>1. path \in BeforeMark(q)
      BY <2>6, <2>9
    <3>2. Len(path) >= 4 /\ SubSeq(path, 1, 4) = SubSeq(q, 1, 4)
      BY <2>5, <3>1, MarkedArchive
    <3> QED BY <2>2, <2>3, <2>7, <3>2
  <2> QED BY <2>8, <2>9
<1> QED BY <1>2, <1>3

-----------------------------------------------------------------------------

LEMMA PackageInitially == PackageInit => PackageInv
<1> SUFFICES ASSUME PackageInit PROVE PackageInv
  OBVIOUS
<1>1. HoldInv
  BY DEF PackageInit, HoldInv
<1>2. own \in OwnImages
  BY DEF PackageInit
<1>3. PICK layout \in Layouts :
        /\ lines = [k \in DOMAIN layout |-> [path |-> layout[k], gone |-> FALSE]]
        /\ installed \in [{p \in ToSet(layout) : Last(p) \in ARCHIVE} -> Archives]
  BY DEF PackageInit
<1>4. \A k \in DOMAIN layout : layout[k] \in Seq(STRING)
  <2>1. layout \in Seq(Seq(STRING))
    BY InstallAssumption
  <2> DEFINE A == Seq(STRING)
  <2>2. layout \in Seq(A)
    BY <2>1
  <2> HIDE DEF A
  <2>3. \A k \in DOMAIN layout : layout[k] \in A
    BY <2>2
  <2> QED BY <2>3 DEF A
<1>5. lines \in [DOMAIN layout -> [path : Seq(STRING), gone : BOOLEAN]]
  BY <1>3, <1>4
<1>6. \A k \in DOMAIN layout : lines[k] = [path |-> layout[k], gone |-> FALSE]
  BY <1>3
<1>7. ASSUME NEW p \in DOMAIN installed
      PROVE  /\ installed[p] \in Archives /\ Last(p) \in ARCHIVE
             /\ \E k \in DOMAIN layout : lines[k] = [path |-> p, gone |-> FALSE]
  <2>1. p \in ToSet(layout) /\ Last(p) \in ARCHIVE /\ installed[p] \in Archives
    BY <1>3
  <2>2. PICK k \in DOMAIN layout : p = layout[k]
    BY <2>1 DEF ToSet
  <2> QED BY <1>6, <2>1, <2>2
<1>8. InstallInv
  BY <1>2, <1>5, <1>6, <1>7 DEF InstallInv
<1> QED BY <1>1, <1>8 DEF PackageInv

\* The archive under the path that the probe found is the one of this package, and
\* no other archive of the text is (procfs/maps.rs:112-131).
LEMMA FoundIsOwn ==
  ASSUME InstallInv, NEW path \in package_archive_for_image(lines, own),
         path \in DOMAIN installed
  PROVE  OwnArchive = {installed[path]}
<1>0. own \in OwnImages
  BY DEF InstallInv
<1>1. PICK layout \in Layouts :
       /\ lines \in [DOMAIN layout -> [path : Seq(STRING), gone : BOOLEAN]]
       /\ \A k \in DOMAIN layout : lines[k].path = layout[k]
       /\ \A p \in DOMAIN installed :
            /\ installed[p] \in Archives /\ Last(p) \in ARCHIVE
            /\ \E k \in DOMAIN layout : lines[k] = [path |-> p, gone |-> FALSE]
  BY DEF InstallInv
<1>2. DOMAIN lines = DOMAIN layout
  BY <1>1
<1>3. Len(own) >= 4 /\ Len(path) >= 4 /\ SubSeq(path, 1, 4) = SubSeq(own, 1, 4)
  BY <1>0, <1>1, <1>2, PathIsOwn
<1>4. own \in Seq(STRING)
  BY <1>0, InstallAssumption
<1> DEFINE root == SubSeq(own, 1, 4)
           Live(p) == [path |-> p, gone |-> FALSE] \in ToSet(lines)
<1>5. root \in Seq(STRING) /\ Len(root) = 4
  BY <1>3, <1>4
<1> HIDE DEF root
<1>6. ASSUME NEW p \in DOMAIN installed
      PROVE  /\ p \in ToSet(layout) /\ p \in Seq(STRING) /\ Last(p) \in ARCHIVE /\ Live(p)
             /\ IsPrefix(root, p) <=> Len(p) >= 4 /\ SubSeq(p, 1, 4) = root
  <2>1. PICK k \in DOMAIN layout : lines[k] = [path |-> p, gone |-> FALSE]
    BY <1>1
  <2>2. p = layout[k] /\ Last(p) \in ARCHIVE
    BY <1>1, <2>1
  <2>3. p \in ToSet(layout) /\ Live(p)
    BY <1>2, <2>1, <2>2 DEF ToSet
  <2>4. p \in Seq(STRING)
    <3>1. lines[k].path \in Seq(STRING)
      BY <1>1
    <3> QED BY <2>1, <3>1
  <2> QED BY <1>5, <2>2, <2>3, <2>4, RootIs
<1>7. IsPrefix(root, path)
  BY <1>3, <1>6 DEF root
<1>8. ASSUME NEW p \in DOMAIN installed, IsPrefix(root, p) PROVE p = path
  <2>1. SubSeq(p, 1, 4) = SubSeq(path, 1, 4)
    BY <1>3, <1>6, <1>8 DEF root
  <2>2. /\ p \in ToSet(layout) /\ Last(p) \in ARCHIVE
        /\ path \in ToSet(layout) /\ Last(path) \in ARCHIVE
    BY <1>6
  <2> QED BY <2>1, <2>2, InstallAssumption
<1> DEFINE paths == {p \in DOMAIN installed :
                       Len(own) >= 4 /\ IsPrefix(root, p) /\ Live(p)}
<1>9. paths = {path}
  BY <1>3, <1>6, <1>7, <1>8
<1>10. OwnArchive = {installed[p] : p \in paths}
  BY DEF OwnArchive, root
<1> HIDE DEF paths
<1> QED BY <1>9, <1>10

LEMMA PackageStep == PackageInv /\ [PackageNext]_packageVars => PackageInv'
<1> SUFFICES ASSUME PackageInv, [PackageNext]_packageVars PROVE PackageInv'
  OBVIOUS
<1>0. InstallInv /\ HoldInv
  BY DEF PackageInv
<1>1. ASSUME UNCHANGED <<installed, lines, own>> PROVE InstallInv'
  BY <1>0, <1>1 DEF InstallInv
<1>2. ASSUME UNCHANGED <<installed, hold, ran>> PROVE HoldInv'
  BY <1>0, <1>2 DEF HoldInv
<1>3. ASSUME hold'.at = "idle" PROVE HoldInv'
  BY <1>3 DEF HoldInv
<1>4. ASSUME NEW operation, NEW found, Conclude(operation, found) PROVE PackageInv'
  <2>1. UNCHANGED <<installed, lines, own>> /\ hold' = [at |-> "idle"]
    BY <1>4 DEF Conclude
  <2>2. hold'.at = "idle"
    BY <2>1
  <2> QED BY <1>1, <1>3, <2>1, <2>2 DEF PackageInv
<1>5. CASE MatchGap
  BY <1>1, <1>2, <1>5 DEF MatchGap, PackageInv
<1>6. CASE MatchFindArchive
  <2>1. /\ UNCHANGED <<installed, lines, own>> /\ ran' = OwnArchive
    BY <1>6 DEF MatchFindArchive
  <2>2. PICK path \in package_archive_for_image(lines, own) :
          hold' = [at |-> "path", path |-> path]
    BY <1>6 DEF MatchFindArchive
  <2>3. hold'.at = "path" /\ hold'.path = path
    BY <2>2
  <2>4. path \in DOMAIN installed => OwnArchive = {installed[path]}
    BY <1>0, FoundIsOwn
  <2>5. HoldInv'
    BY <2>1, <2>3, <2>4 DEF HoldInv
  <2> QED BY <1>1, <2>1, <2>5 DEF PackageInv
<1>7. CASE MatchNoArchive
  BY <1>4, <1>7 DEF MatchNoArchive
<1>8. CASE MatchOpen
  <2> DEFINE a == installed[hold.path]
  <2>1. /\ hold.at = "path" /\ hold.path \in DOMAIN installed
        /\ UNCHANGED <<installed, lines, own, ran>>
        /\ hold' = [at |-> "tail", cells |-> Content(a)]
    BY <1>8 DEF MatchOpen, Proceed
  <2>2. ran = {a} /\ a \in Archives
    BY <1>0, <2>1 DEF HoldInv, InstallInv
  <2> HIDE DEF a
  <2>3. hold'.at = "tail" /\ hold'.cells = Content(a) /\ ran' = {a}
    BY <2>1, <2>2
  <2>4. HoldInv'
    BY <2>2, <2>3 DEF HoldInv
  <2> QED BY <1>1, <2>1, <2>4 DEF PackageInv
<1>9. CASE MatchReadTail
  <2>0. hold.at = "tail"
    BY <1>9 DEF MatchReadTail
  <2>1. PICK a \in Archives : ran = {a} /\ hold.cells = Content(a)
    BY <1>0, <2>0 DEF HoldInv
  <2>2. central_directory_offset(ReadTail)
          = IF a.flaw \in {"cut", "directory"} THEN {} ELSE {Len(Block(a)) + 1}
    BY <2>1, TailRead
  <2>3. CASE Conclude(asks, {})
    BY <1>4, <2>3
  <2>4. ASSUME NEW offset \in central_directory_offset(ReadTail),
               Proceed([at |-> "footer", cells |-> hold.cells, directory |-> offset])
        PROVE  PackageInv'
    <3>1. a.flaw \notin {"cut", "directory"} /\ offset = Len(Block(a)) + 1
      BY <2>2, <2>4
    <3>2. /\ UNCHANGED <<installed, lines, own, ran>> /\ hold'.at = "footer"
          /\ hold'.cells = hold.cells /\ hold'.directory = offset
      BY <2>4 DEF Proceed
    <3>3. HoldInv'
      BY <2>1, <3>1, <3>2 DEF HoldInv
    <3> QED BY <1>1, <3>2, <3>3 DEF PackageInv
  <2> QED BY <1>9, <2>3, <2>4 DEF MatchReadTail
<1>10. CASE MatchReadFooter
  <2>0. hold.at = "footer"
    BY <1>10 DEF MatchReadFooter
  <2>1. PICK a \in Archives :
          /\ ran = {a} /\ hold.cells = Content(a) /\ a.flaw \notin {"cut", "directory"}
          /\ hold.directory = Len(Block(a)) + 1
    BY <1>0, <2>0 DEF HoldInv
  <2>2. ReadSize = IF a.flaw = "magic" \/ Len(Block(a)) - 1 > MAX_BLOCK THEN {}
                   ELSE {Len(Block(a))}
    BY <2>1, FooterRead
  <2>3. CASE Conclude(asks, {})
    BY <1>4, <2>3
  <2>4. ASSUME NEW size \in ReadSize,
               Proceed([at |-> "block", cells |-> hold.cells,
                        directory |-> hold.directory, size |-> size])
        PROVE  PackageInv'
    <3>1. a.flaw # "magic" /\ size = Len(Block(a))
      BY <2>2, <2>4
    <3>2. /\ UNCHANGED <<installed, lines, own, ran>> /\ hold'.at = "block"
          /\ hold'.cells = hold.cells /\ hold'.directory = hold.directory
          /\ hold'.size = size
      BY <2>4 DEF Proceed
    <3>3. HoldInv'
      BY <2>1, <3>1, <3>2 DEF HoldInv
    <3> QED BY <1>1, <3>2, <3>3 DEF PackageInv
  <2> QED BY <1>10, <2>3, <2>4 DEF MatchReadFooter
<1>11. CASE MatchReadBlock
  BY <1>4, <1>11 DEF MatchReadBlock
<1>12. CASE MatchUnreadable
  BY <1>4, <1>12 DEF MatchUnreadable
<1>13. CASE UpgradePackage
  <2>1. PICK root :
          /\ installed' = [p \in {q \in DOMAIN installed : ~IsPrefix(root, q)} |-> installed[p]]
          /\ lines' = [k \in DOMAIN lines |->
               IF IsPrefix(root, lines[k].path) THEN [lines[k] EXCEPT !.gone = TRUE]
               ELSE lines[k]]
          /\ UNCHANGED <<own, hold, ran>>
    BY <1>13 DEF UpgradePackage
  <2>2. \A p \in DOMAIN installed' : /\ p \in DOMAIN installed /\ installed'[p] = installed[p]
                                     /\ ~IsPrefix(root, p)
    BY <2>1
  <2>3. PICK layout \in Layouts :
       /\ lines \in [DOMAIN layout -> [path : Seq(STRING), gone : BOOLEAN]]
       /\ \A k \in DOMAIN layout : lines[k].path = layout[k]
       /\ \A p \in DOMAIN installed :
            /\ installed[p] \in Archives /\ Last(p) \in ARCHIVE
            /\ \E k \in DOMAIN layout : lines[k] = [path |-> p, gone |-> FALSE]
    BY <1>0 DEF InstallInv
  <2>4. ASSUME NEW k \in DOMAIN layout
        PROVE  /\ lines'[k] \in [path : Seq(STRING), gone : BOOLEAN]
               /\ lines'[k].path = lines[k].path
               /\ ~IsPrefix(root, lines[k].path) => lines'[k] = lines[k]
    <3> DEFINE T == Seq(STRING)
    <3>1. lines[k] \in [path : T, gone : BOOLEAN] /\ k \in DOMAIN lines
      BY <2>3
    <3>2. lines'[k] = IF IsPrefix(root, lines[k].path) THEN [lines[k] EXCEPT !.gone = TRUE]
                      ELSE lines[k]
      BY <2>1, <3>1
    <3> HIDE DEF T
    <3>3. lines'[k] \in [path : T, gone : BOOLEAN] /\ lines'[k].path = lines[k].path
      BY <3>1, <3>2
    <3> QED BY <3>2, <3>3 DEF T
  <2>5. lines' \in [DOMAIN layout -> [path : Seq(STRING), gone : BOOLEAN]]
    <3>1. DOMAIN lines = DOMAIN layout
      BY <2>3
    <3>2. lines' = [k \in DOMAIN layout |-> lines'[k]]
      BY <2>1, <3>1
    <3> DEFINE R == [path : Seq(STRING), gone : BOOLEAN]
    <3>3. \A k \in DOMAIN layout : lines'[k] \in R
      BY <2>4
    <3> HIDE DEF R
    <3>4. lines' \in [DOMAIN layout -> R]
      BY <3>2, <3>3
    <3> QED BY <3>4 DEF R
  <2>6. ASSUME NEW p \in DOMAIN installed'
        PROVE  /\ installed'[p] \in Archives /\ Last(p) \in ARCHIVE
               /\ \E k \in DOMAIN layout : lines'[k] = [path |-> p, gone |-> FALSE]
    <3>1. PICK k \in DOMAIN layout : lines[k] = [path |-> p, gone |-> FALSE]
      BY <2>2, <2>3
    <3>2. lines[k].path = p
      BY <3>1
    <3>3. lines'[k] = lines[k]
      BY <2>2, <2>4, <3>2
    <3> QED BY <2>2, <2>3, <3>1, <3>3
  <2>7. InstallInv'
    <3>1. own' \in OwnImages
      BY <1>0, <2>1 DEF InstallInv
    <3>2. \A k \in DOMAIN layout : lines'[k].path = layout[k]
      BY <2>3, <2>4
    <3> QED BY <2>5, <2>6, <3>1, <3>2 DEF InstallInv
  <2>8. HoldInv'
    <3>1. ASSUME hold.at = "path", hold.path \in DOMAIN installed'
          PROVE  ran = {installed'[hold.path]}
      BY <1>0, <2>2, <3>1 DEF HoldInv
    <3>2. hold' = hold /\ ran' = ran
      BY <2>1
    <3>3. hold.at \in {"tail", "footer", "block"} => \E a \in Archives :
            /\ ran = {a} /\ hold.cells = Content(a)
            /\ hold.at # "tail" =>
                 a.flaw \notin {"cut", "directory"} /\ hold.directory = Len(Block(a)) + 1
            /\ hold.at = "block" => a.flaw # "magic" /\ hold.size = Len(Block(a))
      BY <1>0 DEF HoldInv
    <3> QED BY <3>1, <3>2, <3>3 DEF HoldInv
  <2> QED BY <2>7, <2>8 DEF PackageInv
<1>14. CASE LinuxIdentity
  BY <1>1, <1>2, <1>14 DEF LinuxIdentity, PackageInv
<1>15. CASE UNCHANGED packageVars
  BY <1>1, <1>2, <1>15 DEF packageVars, PackageInv
<1> QED BY <1>5, <1>6, <1>7, <1>8, <1>9, <1>10, <1>11, <1>12, <1>13, <1>14, <1>15
           DEF PackageNext

\* Whatever step follows, the reads in the state are the ones of the own archive.
LEMMA WholeAnswers == PackageInv => WholeArchiveAnswers
<1> SUFFICES ASSUME PackageInv, NEW a \in ran, SignerOf(a) # {}, Len(Block(a)) <= MAX_BLOCK
             PROVE  CASE hold.at = "tail" -> central_directory_offset(ReadTail) # {}
                      [] hold.at = "footer" -> ReadSize # {}
                      [] hold.at = "block" -> ReadSigner = SignerOf(a)
                      [] OTHER -> TRUE
  BY DEF WholeArchiveAnswers
<1>1. a.flaw = "none"
  BY DEF SignerOf
<1>2. CASE hold.at \notin {"tail", "footer", "block"}
  BY <1>2
<1>3. CASE hold.at \in {"tail", "footer", "block"}
  <2>1. PICK r \in Archives :
          /\ ran = {r} /\ hold.cells = Content(r)
          /\ hold.at # "tail" => hold.directory = Len(Block(r)) + 1
          /\ hold.at = "block" => hold.size = Len(Block(r))
    BY <1>3 DEF PackageInv, HoldInv
  <2>2. r = a /\ a \in Archives /\ a \in Archive
    BY <2>1, PackageAssumption
  <2>3. a.flaw \notin {"cut", "directory"} /\ a.flaw # "magic"
    BY <1>1
  <2>4. CASE hold.at = "tail"
    <3>1. central_directory_offset(ReadTail) = {Len(Block(a)) + 1}
      BY <2>1, <2>2, <2>3, TailRead
    <3> QED BY <2>4, <3>1
  <2>5. CASE hold.at = "footer"
    <3>1. ReadSize = IF a.flaw = "magic" \/ Len(Block(a)) - 1 > MAX_BLOCK THEN {}
                     ELSE {Len(Block(a))}
      BY <2>1, <2>2, <2>3, <2>5, FooterRead
    <3>2. ~(Len(Block(a)) - 1 > MAX_BLOCK)
      <4>1. Block(a) \in Seq(Nat)
        BY <2>2, BlockLaidOut
      <4> DEFINE b == Block(a)
      <4> HIDE DEF b
      <4>2. Len(b) \in Nat /\ MAX_BLOCK \in Nat /\ Len(b) <= MAX_BLOCK
        BY <4>1, PackageAssumption DEF b
      <4>3. ~(Len(b) - 1 > MAX_BLOCK)
        BY <4>2
      <4> QED BY <4>3 DEF b
    <3> QED BY <2>3, <2>5, <3>1, <3>2
  <2>6. CASE hold.at = "block"
    <3>1. ReadSigner = IF Len(Block(a)) > MAX_BLOCK THEN {} ELSE signer_certificate(Block(a))
      BY <2>1, <2>2, <2>3, <2>6, BlockRead
    <3>2. ~(Len(Block(a)) > MAX_BLOCK)
      <4>1. Block(a) \in Seq(Nat)
        BY <2>2, BlockLaidOut
      <4> DEFINE b == Block(a)
      <4> HIDE DEF b
      <4>2. Len(b) \in Nat /\ MAX_BLOCK \in Nat /\ Len(b) <= MAX_BLOCK
        BY <4>1, PackageAssumption DEF b
      <4>3. ~(Len(b) > MAX_BLOCK)
        BY <4>2
      <4> QED BY <4>3 DEF b
    <3>3. signer_certificate(Block(a)) = SignerOf(a)
      BY <1>1, <2>2, SignerRead
    <3> QED BY <2>6, <3>1, <3>2, <3>3
  <2> QED BY <1>3, <2>4, <2>5, <2>6
<1> QED BY <1>2, <1>3

LEMMA AnswerIsOwn == PackageInv => MatchIsOfOwnArchive
<1> SUFFICES ASSUME PackageInv, MatchReadBlock, verdict' \in {"Same", "Different"}
             PROVE  /\ \E a \in ran : SignerOf(a) # {}
                    /\ (verdict' = "Same") <=> \E a \in ran : SignerOf(a) = {pin.of}
  BY DEF MatchIsOfOwnArchive
<1>1. hold.at = "block"
  BY DEF MatchReadBlock
<1>2. PICK a \in Archives :
        /\ ran = {a} /\ hold.cells = Content(a) /\ a.flaw \notin {"cut", "directory", "magic"}
        /\ hold.directory = Len(Block(a)) + 1 /\ hold.size = Len(Block(a))
  BY <1>1 DEF PackageInv, HoldInv
<1>3. a \in Archive /\ (a.flaw = "none" \/ a.flaw = "sizes")
  BY <1>2, PackageAssumption DEF Archive
<1>4. ReadSigner = IF Len(Block(a)) > MAX_BLOCK THEN {} ELSE signer_certificate(Block(a))
  BY <1>2, BlockRead
<1>5. verdict' = IF asks = "match" THEN AndroidIdentityMatch(ReadSigner, pin)
                 ELSE AndroidCodeIdentity(ReadSigner).signer
  BY DEF MatchReadBlock, Conclude
<1>6. asks = "match"
  <2>1. AndroidCodeIdentity(ReadSigner).signer \in {"NoSigner", "Signer"}
    BY DEF AndroidCodeIdentity
  <2> QED BY <1>5, <2>1
<1>7. ReadSigner # {}
  BY <1>5, <1>6 DEF AndroidIdentityMatch
<1>8. ReadSigner = signer_certificate(Block(a)) /\ ~(Len(Block(a)) > MAX_BLOCK)
  BY <1>4, <1>7
<1>9. a.flaw = "none"
  BY <1>3, <1>7, <1>8, SignerRead
<1>10. Len(Block(a)) <= MAX_BLOCK
  <2>1. Block(a) \in Seq(Nat)
    BY <1>3, BlockLaidOut
  <2> DEFINE b == Block(a)
  <2> HIDE DEF b
  <2>2. Len(b) \in Nat /\ MAX_BLOCK \in Nat /\ ~(Len(b) > MAX_BLOCK)
    BY <1>8, <2>1, PackageAssumption DEF b
  <2>3. Len(b) <= MAX_BLOCK
    BY <2>2
  <2> QED BY <2>3 DEF b
<1>11. ReadSigner = SignerOf(a)
  BY <1>3, <1>8, <1>9, <1>10, SignerRead
<1>12. PICK c : SignerOf(a) = {c}
  BY <1>7, <1>11 DEF SignerOf
<1>13. verdict' = IF c = pin.of THEN "Same" ELSE "Different"
  BY <1>5, <1>6, <1>11, <1>12 DEF AndroidIdentityMatch, compare
<1>14. (verdict' = "Same") <=> SignerOf(a) = {pin.of}
  BY <1>12, <1>13
<1> QED BY <1>2, <1>12, <1>14

\* Every answer of the Android probe speaks of the archive that the process ran from
\* when it read its mappings, and of the newest signer of that archive, whatever the
\* comment holds, however the schemes are ordered and whatever the package manager
\* does between two reads (apk.rs:54-117, procfs/maps.rs:112-131, apk/zip.rs:49-90,
\* apk/signing.rs:61-153).
THEOREM ArchiveAnswers == PackageSpec => ArchiveAnswersTrue
<1>1. PackageInv /\ [PackageNext]_packageVars
        => [WholeArchiveAnswers /\ MatchIsOfOwnArchive]_packageVars
  BY WholeAnswers, AnswerIsOwn
<1> QED BY <1>1, PackageInitially, PackageStep, PTL DEF PackageSpec, ArchiveAnswersTrue
=============================================================================

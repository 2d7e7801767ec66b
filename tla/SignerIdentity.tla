--------------------------- MODULE SignerIdentity --------------------------
(***************************************************************************)
(* The identity capability of Windows, macOS and iOS. Windows and macOS    *)
(* ask the system, which hands out handles that the probe must return on   *)
(* every path; iOS reads the signature of its own image                    *)
(* (fidelity-formats/src/macho). The file under the path of a Windows      *)
(* image can be replaced between two calls. The systems are external.      *)
(***************************************************************************)
EXTENDS Integers, FiniteSets, SequencesExt, Facts

CONSTANTS
  Certificates,     \* the certificates of signers
  CodeImages,       \* the images of iOS (CodeImage)
  MaxPointer,       \* the largest address
  MAX_SIGNATURE     \* the cells of the largest signature (MAX_SIGNATURE_BYTES)

\* The load commands with what they say, the number that the header states, and
\* the cells of the signature.
CodeImage ==
  [commands : Seq([kind : {"linkedit", "signature", "other"}, whole : BOOLEAN,
                   a : Nat, b : Nat, c : Nat]),
   count : Nat, slide : Int, signature : Seq(Nat)]

ASSUME SignerAssumption ==
  /\ MaxPointer \in Nat /\ MAX_SIGNATURE \in Nat
  /\ CodeImages # {} /\ \A i \in CodeImages : i \in CodeImage

VARIABLES
  system,     \* the platform
  file,       \* the file of the image: its trust and its certificate
  loaded,     \* the image of an iOS process
  point,      \* where the probe stands
  asked,      \* "identity" or "match"
  seen,       \* what the calls so far returned
  handles,    \* the handles that the probe holds
  result      \* the last answer

signerVars == <<system, file, loaded, point, asked, seen, handles, result>>

-----------------------------------------------------------------------------
(* The signature of an iOS image. One cell is one field.                   *)

SUPERBLOB_MAGIC == 700
ENTITLEMENTS_MAGIC == 701
ENTITLEMENTS_SLOT == 5
SUPERBLOB_HEADER == 3
INDEX_ENTRY == 2
HEADER == 2

\* Slip: the end of the signature is not held against the segment.
FitStart(linkedit, signature, slide) ==
  LET address == linkedit.a - linkedit.b + signature.a + slide
  IN  IF signature.b = 0 \/ signature.a < linkedit.b \/ linkedit.a < linkedit.b
        \/ address < 0 THEN {}
      ELSE {[address |-> address, bytes |-> signature.b]}

\* fit(): the address of the signature inside the segment that holds it. a, b
\* and c are the address, the offset and the size of the segment, and the offset
\* and the size of the signature.
fit(linkedit, signature, slide) ==
  LET end == signature.a + signature.b
      address == linkedit.a - linkedit.b + signature.a + slide
  IN  IF \/ signature.b = 0 \/ signature.b > MAX_SIGNATURE
         \/ signature.a < linkedit.b \/ end > linkedit.b + linkedit.c
         \/ linkedit.a < linkedit.b \/ address < 0 \/ address > MaxPointer
      THEN {}
      ELSE {[address |-> address, bytes |-> signature.b]}

\* signature_layout(): one segment and one signature among whole commands, and
\* as many commands as the header states.
signature_layout(commands, count, slide) ==
  LET of(kind) == {k \in DOMAIN commands : commands[k].kind = kind}
  IN  IF \/ count # Len(commands) \/ \E k \in DOMAIN commands : ~commands[k].whole
         \/ Cardinality(of("linkedit")) # 1 \/ Cardinality(of("signature")) # 1
      THEN {}
      ELSE fit(commands[Min(of("linkedit"))], commands[Min(of("signature"))], slide)

\* The cells from..to-1 (counted from zero), when there are so many.
Part(cells, from, to) ==
  IF from <= to /\ to <= Len(cells) THEN {SubSeq(cells, from + 1, to)} ELSE {}

\* entitlements(): the first slot of its kind decides.
entitlements(signature) ==
  IF Len(signature) < SUPERBLOB_HEADER \/ signature[1] # SUPERBLOB_MAGIC THEN {}
  ELSE UNION {
    LET entry(slot) == SUPERBLOB_HEADER + slot * INDEX_ENTRY
        slots == {s \in 0 .. whole[3] - 1 : entry(s) < Len(whole)
                    /\ whole[entry(s) + 1] = ENTITLEMENTS_SLOT}
        readable == \A s \in 0 .. whole[3] - 1 :
                      (slots = {} \/ s <= Min(slots)) => entry(s) + 2 <= Len(whole)
        blob == whole[entry(Min(slots)) + 2]
    IN  IF slots = {} \/ ~readable THEN {}
        ELSE IF blob + HEADER > Len(whole) THEN {}
        ELSE IF whole[blob + 1] # ENTITLEMENTS_MAGIC THEN {}
        ELSE Part(whole, blob + HEADER, blob + whole[blob + 2]) :
    whole \in {w \in Part(signature, 0, signature[2]) : Len(w) >= SUPERBLOB_HEADER}}

\* The elements of a plist, one cell each: keys, values that are no strings, a
\* team (10 + t), the App ID of a team (20 + t), and other text.
TEAM_KEY == 1
APP_ID_KEY == 2
IsText(cell) == cell >= 10
acceptable(cell) == cell \in 11 .. 19
Prefix(cell) == IF cell \in 21 .. 29 THEN {cell - 10} ELSE {}

\* Slip: the first text of the plist is the value.
FirstText(plist, key) ==
  LET texts == {k \in DOMAIN plist : IsText(plist[k])}
  IN  IF texts = {} THEN {} ELSE {plist[Min(texts)]}

\* string_value(): the next text after the first such key, wherever it stands.
string_value(plist, key) ==
  LET keys == {k \in DOMAIN plist : plist[k] = key}
      texts == {k \in DOMAIN plist : IsText(plist[k]) /\ \E j \in keys : j < k}
  IN  IF texts = {} THEN {} ELSE {plist[Min(texts)]}

\* The team key, or else the prefix of the App ID.
team_identifier(plist) ==
  LET team == {t \in string_value(plist, TEAM_KEY) : acceptable(t)}
  IN  IF team # {} THEN team
      ELSE UNION {Prefix(id) : id \in string_value(plist, APP_ID_KEY)}

\* team(): the layout, the mapped cells, the entitlements and the team.
team(image, mapped) ==
  UNION {UNION {team_identifier(plist) : plist \in entitlements(image.signature)} :
    layout \in IF mapped THEN signature_layout(image.commands, image.count, image.slide)
               ELSE {}}

\* An image without a team is another image.
IosCompare(found, pinned) == IF found = {pinned} THEN "Same" ELSE "Different"

-----------------------------------------------------------------------------
SignerFile ==
  [trust : {"Accepted", "Unsigned", "Rejected"}, cert : Certificates \cup {"none"}]

Blank == [trust |-> "none", cert |-> "none", found |-> {}]

SignerInit ==
  /\ system \in {"windows", "macos", "ios"}
  /\ file \in IF system = "ios" THEN {CHOOSE f \in SignerFile : TRUE} ELSE SignerFile
  /\ loaded \in IF system = "ios" THEN CodeImages ELSE {CHOOSE i \in CodeImages : TRUE}
  /\ point = "idle" /\ asked = "match"
  /\ seen = Blank
  /\ handles = {}
  /\ result = [is |-> "none", trust |-> "none"]

\* The calls of a probe: from one point to the next, with what it saw and holds.
Goes(from, to, sees, holds) ==
  /\ point = from /\ point' = to
  /\ seen' = sees
  /\ handles' = holds
  /\ UNCHANGED <<system, file, loaded, asked, result>>

Ends(from, is, trust, holds) ==
  /\ point = from /\ point' = "idle"
  /\ result' = [is |-> is, trust |-> trust]
  /\ seen' = Blank
  /\ handles' = holds
  /\ UNCHANGED <<system, file, loaded, asked>>

\* The host stated a value, or accepted the gap, or stated nothing.
MatchUnasked ==
  /\ point = "idle"
  /\ Ends("idle", "Unsupported", "none", handles)

Begin ==
  /\ point = "idle" /\ point' = "begun"
  /\ asked' \in {"identity", "match"}
  /\ UNCHANGED <<system, file, loaded, seen, handles, result>>

-----------------------------------------------------------------------------
(* Windows.                                                                *)

\* path(): no name, or one that does not fit.
WindowsPath ==
  /\ system = "windows"
  /\ \/ Goes("begun", IF asked = "identity" THEN "verify" ELSE "query", seen, handles)
     \/ Ends("begun", "Failed", "none", handles)

\* WinVerifyTrust() to verify, and again to close what it opened. Its status is what
\* the policy says of the file, or that the call failed.
WindowsVerify ==
  /\ system = "windows"
  /\ \E status \in {file.trust, "Error"} :
       Goes("verify", "close", [seen EXCEPT !.trust = status], handles \cup {"state"})

WindowsCloseState ==
  /\ system = "windows"
  /\ Goes("close", "query", seen, handles \ {"state"})

\* Slip: only the statuses that the probe knows are a rejection.
WindowsTrustOther(status) ==
  IF status \in {"Unsigned", "Rejected"} THEN "Rejected" ELSE "Accepted"

\* Success, no signature, and every other status: a call that failed is among them.
WindowsTrust(status) ==
  IF status = "Accepted" THEN "Accepted" ELSE "Rejected"

\* What the two operations make of the certificate.
WindowsAnswer(found) ==
  CASE asked = "identity" -> "Identity"
    [] asked = "match" /\ found = {} -> "Failed"
    [] OTHER -> IF found = {CHOOSE c \in Certificates : TRUE} THEN "Same" ELSE "Different"

WindowsTrusted == IF asked = "identity" THEN WindowsTrust(seen.trust) ELSE "none"

\* CryptQueryObject() opens the file under the path.
WindowsQuery ==
  /\ system = "windows"
  /\ \/ /\ file.cert # "none"
        /\ Goes("query", "param", [seen EXCEPT !.cert = file.cert],
                handles \cup {"store", "message"})
     \/ Ends("query", WindowsAnswer({}), WindowsTrusted, handles)

\* The two calls of CryptMsgGetParam(), and the search for the certificate.
WindowsParam ==
  /\ system = "windows"
  /\ \/ Goes("param", "find", seen, handles)
     \/ Goes("param", "release", seen, handles)

WindowsFind ==
  /\ system = "windows"
  /\ \/ Goes("find", "copy", seen, handles \cup {"context"})
     \/ Goes("find", "release", seen, handles)

WindowsCopy ==
  /\ system = "windows"
  /\ \E found \in {{}, {seen.cert}} :
       Goes("copy", "release", [seen EXCEPT !.found = found], handles \ {"context"})

\* Slip: a signer that was not found keeps the message open.
ReleasedSigner(held, found) ==
  IF found = {} THEN held \ {"store"} ELSE held \ {"message", "store"}

\* CryptMsgClose() and CertCloseStore(), whatever the read returned.
Released(held, found) == held \ {"message", "store"}

WindowsRelease ==
  /\ system = "windows"
  /\ Ends("release", WindowsAnswer(seen.found), WindowsTrusted,
          Released(handles, seen.found))

\* An installer renames the running image and writes another one in its place.
ReplaceFile ==
  /\ system = "windows" /\ point # "idle"
  /\ file' \in SignerFile
  /\ UNCHANGED <<system, loaded, point, asked, seen, handles, result>>

-----------------------------------------------------------------------------
(* macOS. The trust of the file stands for what a check of the image gives,*)
(* and a certificate for its team.                                         *)

\* SecCodeCopySelf().
MacAcquire ==
  /\ system = "macos"
  /\ \/ Goes("begun", "text", seen, handles \cup {"code"})
     \/ Ends("begun", "Failed", "none", handles)

\* Slip: every status that is no success is a rejection.
MacVerdictAny(status) == IF status = "success" THEN "Pass" ELSE "Reject"

\* A status of the REJECTED list, or any other one.
MacVerdict(status) ==
  CASE status = "success" -> "Pass"
    [] status \in {"unsigned", "changed", "requirement"} -> "Reject"
    [] status = "other" -> "Error"

\* What SecCodeCheckValidity() returns for an image.
Statuses == IF file.trust = "Accepted" THEN {"success", "other"}
            ELSE {"unsigned", "changed", "requirement", "other"}

\* check(): the text, the requirement, the verdict; both objects end with it.
MacText ==
  /\ system = "macos"
  /\ \/ Goes("text", "requirement", seen, handles \cup {"text"})
     \/ Goes("text", "error", seen, handles)

MacRequirement ==
  /\ system = "macos"
  /\ \/ Goes("requirement", "validity", seen, handles \cup {"requirement"})
     \/ Goes("requirement", "error", seen, handles \ {"text"})

MacValidity ==
  /\ system = "macos"
  /\ \E status \in Statuses :
       Goes("validity",
            CASE MacVerdict(status) = "Error" -> "error"
              [] MacVerdict(status) # "Error" ->
                   IF asked = "identity" THEN "team" ELSE "judge",
            [seen EXCEPT !.trust =
               IF MacVerdict(status) = "Pass" THEN "Accepted" ELSE "Rejected"],
            handles \ {"text", "requirement"})

\* A call that failed answers as such.
MacError ==
  /\ system = "macos"
  /\ Ends("error", "Failed", "none", handles \ {"code"})

MacJudge ==
  /\ system = "macos"
  /\ Ends("judge", IF seen.trust = "Accepted" THEN "Same" ELSE "Different", "none",
          handles \ {"code"})

\* Slip: the dictionary is taken for one that the code owns.
MacReleasedCode(held) == held \ {"code"}

\* The drops of Owned at the end of code_identity().
MacReleased(held) == held \ {"information", "code"}

\* team_identifier() of sys/security.rs: SecCodeCopySigningInformation() gives an
\* owned dictionary, fails, or succeeds with none.
MacInformation ==
  /\ system = "macos"
  /\ \/ Goes("team", "value", seen, handles \cup {"information"})
     \/ Goes("team", "error", seen, handles)

\* A team or none, which the dictionary owns.
MacTeam ==
  /\ system = "macos"
  /\ Ends("value", "Identity", seen.trust, MacReleased(handles))

-----------------------------------------------------------------------------
(* iOS. The pinned team is 11.                                             *)

IosIdentity ==
  /\ system = "ios"
  /\ \E mapped \in BOOLEAN :
       /\ point = "begun" /\ point' = "idle"
       /\ seen' = [Blank EXCEPT !.found = team(loaded, mapped)]
       /\ result' = IF asked = "identity" THEN [is |-> "Identity", trust |-> "Unavailable"]
                    ELSE [is |-> IosCompare(team(loaded, mapped), 11), trust |-> "none"]
  /\ UNCHANGED <<system, file, loaded, asked, handles>>

SignerNext ==
  \/ MatchUnasked \/ Begin
  \/ WindowsPath \/ WindowsVerify \/ WindowsCloseState \/ WindowsQuery
  \/ WindowsParam \/ WindowsFind \/ WindowsCopy \/ WindowsRelease \/ ReplaceFile
  \/ MacAcquire \/ MacText \/ MacRequirement \/ MacValidity \/ MacError
  \/ MacJudge \/ MacInformation \/ MacTeam
  \/ IosIdentity

SignerSpec == SignerInit /\ [][SignerNext]_signerVars

-----------------------------------------------------------------------------
\* Every handle that the system gave out is back when the call ends: no path
\* through the errors keeps one (crypt.rs:94-215, wintrust.rs:156-187,
\* security.rs:75-197).
HandlesReturned == (point \in {"idle", "begun"}) => handles = {}

\* What an identity probe answers when it did not fail. On macOS the system accepted
\* or rejected the image in so many words, and a failed call is neither
\* (security.rs:30-47, macos/identity.rs:28-39). On Windows a match compares a
\* certificate that was copied out of the file, and a failed read is no other signer
\* (windows/identity.rs:83-90); the identity says accepted exactly when the policy
\* accepted the file, however the file was replaced since. "Rejected" says less there:
\* a call that failed gives it too, as wintrust.rs:182-186 maps every other status.
AnswersAreGiven ==
  [][system # "ios" /\ point # "idle" /\ point' = "idle" /\ result'.is # "Failed" =>
       /\ system = "macos" =>
            IF result'.is = "Same" \/ result'.trust = "Accepted"
            THEN file.trust = "Accepted" ELSE file.trust # "Accepted"
       /\ system = "windows" /\ asked = "match" => seen.found = {seen.cert}
       /\ system = "windows" /\ asked = "identity" =>
            (result'.trust = "Accepted" <=> seen.trust = "Accepted")]_signerVars

\* What the probe holds at each of its points.
HandlesAt ==
  [idle |-> {}, begun |-> {},
   verify |-> {}, close |-> {"state"}, query |-> {},
   param |-> {"store", "message"}, find |-> {"store", "message"},
   copy |-> {"store", "message", "context"}, release |-> {"store", "message"},
   text |-> {"code"}, requirement |-> {"code", "text"},
   validity |-> {"code", "text", "requirement"},
   error |-> {"code"}, judge |-> {"code"}, team |-> {"code"},
   value |-> {"code", "information"}]

\* The inductive invariant behind HandlesReturned and AnswersAreGiven: what a call
\* saw is of the file that it is asked about, and only a copied certificate is found.
SignerInv ==
  /\ point \in DOMAIN HandlesAt /\ handles = HandlesAt[point]
  /\ DOMAIN seen = DOMAIN Blank
  /\ system = "windows" =>
       seen.found = {} \/ (point = "release" /\ seen.found = {seen.cert})
  /\ system = "macos" /\ point \in {"judge", "team", "value"} =>
       (seen.trust = "Accepted" <=> file.trust = "Accepted")

\* The inductive invariant behind IosSignatureRead: what iOS found is the team of
\* the loaded image, or nothing when its signature is not mapped.
IosInv ==
  /\ loaded \in CodeImages
  /\ system = "ios" => seen.found \in {{}, team(loaded, TRUE)}

\* The cells that the iOS probe reads lie inside the loaded segment that holds
\* the signature, whatever the commands say (macho/image.rs:104-125).
SignatureInsideSegment ==
  \A layout \in signature_layout(loaded.commands, loaded.count, loaded.slide) :
    \E k \in DOMAIN loaded.commands :
      /\ loaded.commands[k].kind = "linkedit"
      /\ loaded.commands[k].a + loaded.slide <= layout.address
      /\ layout.address + layout.bytes
           <= loaded.commands[k].a + loaded.slide + loaded.commands[k].c

\* A team that the probe names stands in the plist of the image, as the text
\* after its team key or as the prefix of an App ID that follows its key
\* (macho/signature.rs:44-84, macho/entitlements.rs:33-93).
TeamIsNamed ==
  seen.found # {} /\ system = "ios" =>
    \E t \in 11 .. 19, k \in DOMAIN loaded.signature :
      /\ seen.found = {t}
      /\ \E j \in 1 .. k - 1 :
           \/ loaded.signature[j] = TEAM_KEY /\ loaded.signature[k] = t
           \/ loaded.signature[j] = APP_ID_KEY /\ loaded.signature[k] = t + 10

\* What iOS reports comes from the signature of the running image, and from a key
\* of its plist that names a team, whatever else the image states.
IosSignatureRead == SignatureInsideSegment /\ TeamIsNamed
=============================================================================

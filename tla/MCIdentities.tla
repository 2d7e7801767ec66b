---------------------------- MODULE MCIdentities ----------------------------
(***************************************************************************)
(* Small instances for TLC of what the probes say about the machine, the   *)
(* package and the signer, of the secrets that are bound to a signer, of   *)
(* the values that hosts exchange with the library, and of the plugin.     *)
(* The components share no state, so a behaviour follows one of them: side *)
(* says which, and the others stay in a state they may begin in.           *)
(***************************************************************************)
EXTENDS Machines, PackageIdentity, SignerIdentity, Secrets, HostValues,
        TauriPlugin

CONSTANT Sides              \* the components that a run follows

-----------------------------------------------------------------------------
(* The firmware tables: a system structure with its names at 0, 1 or past  *)
(* the strings, alone, behind another one, or in front of a second one.    *)

Firmware(kind, extra, m, p, strings) ==
  [kind |-> kind, extra |-> extra, m |-> m, p |-> p, strings |-> strings]

MCTables ==
  LET systems == {Firmware(1, extra, m, p, strings) :
                    extra \in {0, 2}, m \in {0, 1}, p \in {1, 3},
                    strings \in {<<>>, <<<<5>>, <<81, 1, 7>>>>, <<<<81, 1>>, <<200>>>>}}
      others == {Firmware(0, 3, 0, 0, strings) : strings \in {<<>>, <<<<9>>>>}}
  IN  {<<s>> : s \in systems} \cup {<<o>> : o \in others}
        \cup {<<o, s>> : o \in others, s \in systems}
        \cup {<<s, Firmware(1, 0, 1, 1, <<<<5>>>>)>> : s \in systems}

MCMonitors == {<<81, 1>>}

-----------------------------------------------------------------------------
(* The packages: archives with signers of several schemes in several       *)
(* orders, with a decoy in the comment, and damaged ones.                  *)

Signed(scheme, cert, whole) == [scheme |-> scheme, cert |-> cert, whole |-> whole]

Packed(signers, comment, flaw) ==
  [signers |-> signers, comment |-> comment, flaw |-> flaw]

Plain == <<Signed(902, 1, TRUE)>>

MCArchives ==
  {Packed(signers, <<>>, "none") :
     signers \in {Plain, <<Signed(903, 2, TRUE), Signed(904, 1, TRUE)>>,
                  <<Signed(905, 7, TRUE), Signed(903, 1, FALSE), Signed(903, 2, TRUE)>>}}
    \cup {Packed(Plain, <<900, 12, 5, 1>>, "none"), Packed(Plain, <<5>>, "cut")}
    \cup {Packed(Plain, <<>>, flaw) : flaw \in {"sizes", "magic", "directory"}}

OwnRoot == <<"data", "app", "r1", "own-1">>
OwnBase == OwnRoot \o <<"base.apk">>
OwnLibrary == OwnRoot \o <<"lib", "libf.so">>
OtherBase == <<"data", "app", "r2", "web-1", "base.apk">>

MCLayouts == {<<OwnBase>>, <<OtherBase, OwnBase>>, <<OwnLibrary, OtherBase, OwnBase>>}

MCOwn ==
  {<<>>, OwnLibrary, OwnRoot \o <<"base.apk!", "lib", "libf.so">>,
   <<"system", "lib", "libf.so">>}

MCPins ==
  {[choice |-> "AcceptUnsupported", of |-> <<>>], [choice |-> "None", of |-> <<>>],
   [choice |-> "Value", of |-> <<1>>]}

-----------------------------------------------------------------------------
(* The iOS images: signatures with one blob or two, with every sort of     *)
(* plist, damaged ones, and every way to place a signature in a segment.   *)

Cmd(kind, whole, a, b, c) == [kind |-> kind, whole |-> whole, a |-> a, b |-> b, c |-> c]

Blob(plist) == <<701, Len(plist) + 2>> \o plist

OneBlob(plist) == <<700, Len(plist) + 8, 1, 5, 5>> \o Blob(plist) \o <<0>>
TwoBlobs(plist) == <<700, Len(plist) + 9, 2, 0, 9, 5, 7>> \o Blob(plist)

Plists ==
  {<<>>, <<1, 11>>, <<2, 21>>, <<3, 12, 1, 11>>, <<1, 4, 2, 22>>, <<1, 30, 2, 21>>,
   <<3, 11>>, <<2, 31>>, <<1, 12, 2, 21>>, <<3, 21, 2, 22>>}

Damaged ==
  {<<>>, <<700, 9, 1>>, <<1, 3, 0>>, <<700, 5, 1, 5, 9>>, <<700, 3, 0>>,
   <<700, 5, 2, 0, 9>>, <<700, 7, 1, 5, 5, 702, 2>>, <<700, 7, 1, 5, 5, 701, 1>>,
   <<700, 4, 1, 5>>}

WellPlaced ==
  <<Cmd("other", TRUE, 0, 0, 0), Cmd("linkedit", TRUE, 6, 2, 4),
    Cmd("signature", TRUE, 3, 2, 0)>>

Loaded(commands, count, slide, signature) ==
  [commands |-> commands, count |-> count, slide |-> slide, signature |-> signature]

MCImages ==
  {Loaded(WellPlaced, 3, 1, signature) :
     signature \in {OneBlob(p) : p \in Plists} \cup {TwoBlobs(p) : p \in Plists}
                     \cup Damaged}
  \cup {Loaded(<<Cmd("linkedit", whole, a, b, c), Cmd("signature", whole, d, e, 0)>>,
               count, slide, OneBlob(<<1, 11>>)) :
          whole \in BOOLEAN, a \in {0, 3, 6}, b \in {0, 2}, c \in {0, 3},
          d \in 0 .. 4, e \in 0 .. 4, count \in {2, 3}, slide \in {-4, 0, 1}}
  \cup {Loaded(WellPlaced \o <<Cmd(kind, TRUE, 3, 1, 1)>>, 4, 0, OneBlob(<<1, 11>>)) :
          kind \in {"linkedit", "signature"}}

-----------------------------------------------------------------------------
(* The secrets. A toy hash with the framing of SHA-256.                    *)

MCCompress(state, block) ==
  FoldLeft(LAMBDA a, b : (a * 31 + b + 7) % 65521, state, block)

MCOutput(state, i) == (state * (2 * i + 1) + i) % 251

Value(shape, bytes) == [shape |-> shape, bytes |-> bytes]
Named(name, value) == [form |-> "named", name |-> name, value |-> value]

TEAM == <<9, 8>>
OTHER_TEAM == <<9>>
CERT == <<1, 2, 3, 4, 5, 6, 7>>

MCStateds ==
  {[form |-> "unset"], [form |-> "none"], [form |-> "bare"],
   Named("apple", Value("token", TEAM)), Named("apple", Value("spaced", TEAM)),
   Named("apple", Value("token", <<>>)), Named("windows", Value("digest", CERT)),
   Named("android", Value("token", TEAM)), Named("linux", Value("token", TEAM))}

Char(n) == [name |-> "char", code |-> n]
Escaped(name, n) == [name |-> name, code |-> n]
Token(kind, form, body) == [kind |-> kind, form |-> form, body |-> body]

MCTokens ==
  {Token("Text", "quoted", <<Char(33), Char(34), Char(35)>>),
   Token("Text", "quoted", <<Char(34)>>),
   Token("Text", "quoted", <<Char(34), Char(35)>>),
   Token("Text", "quoted", <<Char(33), Escaped("x", 7)>>),
   Token("Text", "quoted", <<Char(33), Char(200)>>),
   Token("Text", "quoted", <<Escaped("apostrophe", 39), Char(33)>>),
   Token("Text", "raw", <<Escaped("x", 33)>>),
   Token("Text", "raw", <<Char(39), Char(33)>>),
   Token("Bytes", "quoted", <<Escaped("0", 0), Escaped("x", 255), Char(33)>>),
   Token("Bytes", "quoted", <<Char(33), Char(200)>>),
   Token("Bytes", "quoted", <<Char(34), Char(35), Char(36), Char(37), Char(38)>>),
   Token("Text", "other", <<>>)}

MCSeeds == {<<33>>, <<33, 2>>, <<33, 3, 33>>, <<>>}

MCObserved ==
  {[answer |-> a, signer |-> {}] : a \in {"Unsupported", "Failed", "Fact"}}
    \cup {[answer |-> "Fact", signer |-> {m}] : m \in {<<>>, TEAM, OTHER_TEAM, CERT}}

-----------------------------------------------------------------------------
(* The values: every text of up to four characters, and digests of two     *)
(* bytes with the bytes on both sides of each range of digits.             *)

MCWidthTexts == UNION {[1 .. n -> 1 .. 4] : n \in 0 .. 4}

HexEdges == {47, 48, 57, 58, 64, 65, 70, 71, 96, 97, 102, 103, 195}

MCHexTexts ==
  {<<a, b, c, d>> : a \in HexEdges, b \in HexEdges, c \in {48, 70, 103},
                    d \in {57, 65, 102}}
    \cup {[i \in 1 .. n |-> 48] : n \in {0, 3, 5}}

MCPlainTexts == UNION {[1 .. n -> {32, 65}] : n \in 0 .. 3}

MCCategoryOrder ==
  <<"Integrity", "Debugging", "Instrumentation", "DeviceCompromise",
    "Virtualization", "UiAbuse">>

-----------------------------------------------------------------------------
VARIABLE side

MCVars == <<machineVars, packageVars, signerVars, secretVars, valueVars,
            pluginVars, side>>

\* A component that is not followed begins in one state.
MCInit ==
  /\ side \in Sides
  /\ side # "machine" => machine = [kind |-> "linux"]
  /\ MachineInit
  /\ side # "signer" =>
       /\ system = "windows"
       /\ file = [trust |-> "Accepted", cert |-> "none"]
  /\ SignerInit
  /\ side # "package" =>
       /\ own = <<>> /\ lines = <<[path |-> OwnBase, gone |-> FALSE]>>
       /\ installed = [path \in {OwnBase} |-> Packed(Plain, <<>>, "none")]
       /\ pin = [choice |-> "None", of |-> <<>>]
  /\ PackageInit
  /\ SecretInit
  /\ ValueInit
  /\ PluginInit

MCNext ==
  \/ /\ side = "machine"
     /\ UNCHANGED <<packageVars, signerVars, secretVars, valueVars,
                    pluginVars, side>>
     /\ MachineNext
  \/ /\ side = "package"
     /\ UNCHANGED <<machineVars, signerVars, secretVars, valueVars,
                    pluginVars, side>>
     /\ PackageNext
  \/ /\ side = "signer"
     /\ UNCHANGED <<machineVars, packageVars, secretVars, valueVars,
                    pluginVars, side>>
     /\ SignerNext
  \/ /\ side = "secret"
     /\ UNCHANGED <<machineVars, packageVars, signerVars, valueVars,
                    pluginVars, side>>
     /\ SecretNext
  \/ /\ side = "values"
     /\ UNCHANGED <<machineVars, packageVars, signerVars, secretVars, pluginVars,
                    side>>
     /\ ValueNext
  \/ /\ side = "plugin"
     /\ UNCHANGED <<machineVars, packageVars, signerVars, secretVars, valueVars,
                    side>>
     /\ PluginNext

MCSpec == MCInit /\ [][MCNext]_MCVars
=============================================================================

------------------------------- MODULE Secrets -------------------------------
(* A guarded constant from the build that encrypts it to the read that opens  *)
(* it: the macros guarded!() and guarded_bytes!(), the build script that      *)
(* states whether the build binds to an identity, the start that resolves the *)
(* signer material, and the decrypting read.                                  *)
(*                                                                            *)
(* Sizes are parameters (the code: 64-byte blocks, 8-byte lengths, 32-byte    *)
(* digests, 95 printable characters).  The compression function is a          *)
(* parameter too: nothing here rests on its strength.                         *)
EXTENDS Integers, Sequences, SequencesExt, FiniteSets

CONSTANTS
    FIRST, LAST,             \* the printable alphabet
    MIN_BYTES,               \* the shortest literal the macro accepts
    CAP,                     \* the longest part a key derivation takes whole
    BLOCK, LENGTH, DIGEST,   \* bytes in a hash block, a length field, a digest
    INITIAL, compress(_, _), \* the hash state and its step
    Output(_, _),            \* byte i of a final hash state
    Targets, Stateds, Seeds, Tokens, Identities  \* the inputs of a run

ASSUME SizeAssumption ==
    /\ {FIRST, LAST, MIN_BYTES, CAP, BLOCK, LENGTH, DIGEST} \subseteq Nat
    /\ FIRST <= LAST /\ LAST < 256
    /\ 0 < LENGTH /\ LENGTH < BLOCK
    /\ DIGEST % 2 = 0 /\ 0 < DIGEST /\ DIGEST <= CAP

VARIABLES
    build,    \* {} or {the artifact of the build}
    hashed,   \* the messages the last operation hashed, with their use
    identity, \* what code_identity() observes in the running image
    runtime,  \* "none", "failed" or "running"
    material, \* the bytes the running runtime keeps as its identity
    secret    \* the Secret the host holds: whether it is open, and its bytes

secretVars == <<build, hashed, identity, runtime, material, secret>>

-----------------------------------------------------------------------------
\* ALPHABET and in_alphabet.
ALPHABET == (LAST - FIRST) + 1
in_alphabet(value) == \A i \in DOMAIN value : value[i] \in FIRST..LAST

\* What is left of n above its i low bytes.
Above(n) ==
    LET above[i \in 0..LENGTH] == IF i = 0 THEN n ELSE above[i - 1] \div 256
    IN  above

\* to_le_bytes of a length, LENGTH bytes wide.
Length(n) == [i \in 1..LENGTH |-> Above(n)[i - 1] % 256]
Zeros(n) == [i \in 1..n |-> 0]
Reversed(s) == [i \in DOMAIN s |-> s[Len(s) + 1 - i]]

\* Slip: the room for the set bit is forgotten.
NeedsExtraSlip(tail) == tail + LENGTH > BLOCK

\* The tail leaves no room for the set bit and the length.
NeedsExtra(tail) == tail + 1 + LENGTH > BLOCK

\* The blocks sha256 compresses: the whole chunks, then the padded tail.
\* 128 is the one set bit; the length is in bits, big-endian.
blocks_of(message) ==
    LET whole == Len(message) \div BLOCK
        chunk(i) == SubSeq(message, (i - 1) * BLOCK + 1, i * BLOCK)
        tail == SubSeq(message, whole * BLOCK + 1, Len(message))
        marked == tail \o <<128>> \o Zeros(BLOCK - Len(tail) - 1)
        bits == Reversed(Length(Len(message) * 8))
        close(b) == SubSeq(b, 1, BLOCK - LENGTH) \o bits
    IN  [i \in 1..whole |-> chunk(i)]
        \o (IF NeedsExtra(Len(tail)) THEN <<marked, close(Zeros(BLOCK))>>
                                     ELSE <<close(marked)>>)

sha256(message) ==
    LET state == FoldLeft(compress, INITIAL, blocks_of(message))
    IN  [i \in 1..DIGEST |-> Output(state, i)]

\* Slip: the parts are hashed end to end.
PrefixedBare(part) == part

\* One part of a hash input: its length, then its bytes.
WithLength(part) == Length(Len(part)) \o part

salt_input(seed, literal) == WithLength(seed) \o WithLength(literal)
derive_salt(seed, literal) == SubSeq(sha256(salt_input(seed, literal)), 1, DIGEST \div 2)

\* Slip: a long part is taken whole.
ReducedWhole(part) == part

\* A part longer than CAP stands by its digest.
Reduced(part) == IF Len(part) > CAP THEN sha256(part) ELSE part

key_input(salt, held) == WithLength(Reduced(salt)) \o WithLength(Reduced(held))
derive_key(salt, held) == sha256(key_input(salt, held))

\* byte `position` of keystream block `counter`.
Stream(key, counter, position) == sha256(key \o Length(counter))[position + 1]

\* The amount that moves character `index` (from 0): two digest bytes each.
Amount(key, index) ==
    LET offset == index * 2
        position == offset % DIGEST
        counter == offset \div DIGEST
    IN  (Stream(key, counter, position) + 256 * Stream(key, counter, position + 1)) % ALPHABET

\* Slip: the same turn both ways.
StepForward(key, value, direction) ==
    [i \in DOMAIN value |->
        FIRST + (((value[i] - FIRST) + Amount(key, i - 1)) % ALPHABET)]

\* Slip: the alphabet is counted one too long.
StepWide(key, value, direction) ==
    [i \in DOMAIN value |->
        LET turn == IF direction = "Forward" THEN Amount(key, i - 1) ELSE -Amount(key, i - 1)
        IN  FIRST + (((value[i] - FIRST) + turn) % (ALPHABET + 1))]

\* step: the stream cipher that stays inside the alphabet.
step(key, value, direction) ==
    [i \in DOMAIN value |->
        LET current == value[i] - FIRST
            amount == Amount(key, i - 1)
        IN  FIRST + ((IF direction = "Forward" THEN current + amount
                      ELSE current + ALPHABET - amount) % ALPHABET)]

\* The bit of n that weighs w.
BitOf(n, w) == (n \div w) % 2

\* Exclusive or of two bytes.
Xor(a, b) ==
    LET at(w) == w * ((BitOf(a, w) + BitOf(b, w)) % 2)
    IN  at(1) + at(2) + at(4) + at(8) + at(16) + at(32) + at(64) + at(128)

byte_stream(key, value) ==
    [i \in DOMAIN value |->
        Xor(value[i], Stream(key, (i - 1) \div DIGEST, (i - 1) % DIGEST))]

Encrypted(kind, key, plain) ==
    IF kind = "Text" THEN step(key, plain, "Forward") ELSE byte_stream(key, plain)
Decrypted(kind, key, value) ==
    IF kind = "Text" THEN step(key, value, "Backward") ELSE byte_stream(key, value)

-----------------------------------------------------------------------------
(* The build's inputs.  A stated identity is [form, name, value]: form is     *)
(* "unset", "none", "bare" (no separator) or "named"; a value has its bytes   *)
(* and its shape.  A token is [kind, form, body]: form "quoted", "raw" or     *)
(* "other"; the body is a sequence of characters and escapes.                 *)

of_target(target) ==
    CASE target \in {"macos", "ios"} -> {"apple"}
      [] target = "windows" -> {"windows"}
      [] target = "android" -> {"android"}
      [] OTHER -> {}

refuses(name, value) ==
    IF name = "apple" THEN value.shape = "spaced" ELSE value.shape # "digest"

\* parse: {} for an error, {<<>>} for Absent, {<<name, bytes>>} for Present.
binding_parse(stated) ==
    CASE stated.form = "none" -> {<<>>}
      [] /\ stated.form = "named"
         /\ stated.name \in {"apple", "windows", "android"}
         /\ stated.value.bytes # <<>>
         /\ ~refuses(stated.name, stated.value) -> {<<stated.name, stated.value.bytes>>}
      [] OTHER -> {}

\* Slip: any platform that reports material will do.
CheckAnyTarget(name, target) == of_target(target) # {}

check_target(name, target) == of_target(target) = {name}

\* binds_identity of build.rs: {} when the script panics, else {bound}.
binds_identity(stated, target) ==
    IF stated.form = "unset" THEN {FALSE}
    ELSE UNION {IF binding = <<>> THEN {FALSE}
                ELSE IF check_target(binding[1], target) THEN {TRUE} ELSE {} :
                binding \in binding_parse(stated)}

\* The byte one escape stands for, or {}.
Escape(kind, piece) ==
    CASE piece.name \in {"backslash", "quote"} -> {piece.code}
      [] kind = "Text" /\ piece.name = "apostrophe" -> {piece.code}
      [] kind = "Bytes" /\ piece.name \in {"n", "r", "t", "0"} -> {piece.code}
      [] piece.name = "x" -> {piece.code}
      [] OTHER -> {}

\* The bytes of one piece of a quoted body: a character beyond ASCII takes two
\* bytes of UTF-8 in a string and is refused in a byte string.
Piece(kind, piece) ==
    IF piece.name = "char"
    THEN IF piece.code < 128 THEN {<<piece.code>>}
         ELSE IF kind = "Text" THEN {<<195, piece.code>>} ELSE {}
    ELSE {<<code>> : code \in Escape(kind, piece)}

\* parse and parse_bytes: {} for an error.  In a raw body an escape is its
\* own characters: 92 is the backslash.
literal_parse(token) ==
    LET bytes(p) == IF token.form = "raw" /\ p.name # "char"
                    THEN {<<92, p.code>>} ELSE Piece(token.kind, p)
        all == [i \in DOMAIN token.body |-> bytes(token.body[i])]
    IN  IF token.form = "other" \/ (\E i \in DOMAIN all : all[i] = {}) THEN {}
        ELSE {FlattenSeq([i \in DOMAIN all |-> CHOOSE b \in all[i] : TRUE])}

Accepts(kind, plain) ==
    Len(plain) >= MIN_BYTES /\ (kind = "Text" => in_alphabet(plain))

\* expand: the artifacts a build may give, none when the macro fails.
expand(token, seed, stated) ==
    {LET bound == binding # <<>>
         held == IF bound THEN binding[2] ELSE <<>>
         salt == derive_salt(seed, plain)
     IN  [kind |-> token.kind, bound |-> bound, plain |-> plain, stated |-> held,
          names |-> IF bound THEN {binding[1]} ELSE {}, salt |-> salt,
          value |-> Encrypted(token.kind, derive_key(salt, held), plain)] :
     plain \in {p \in literal_parse(token) : Accepts(token.kind, p)},
     binding \in binding_parse(stated)}

\* What a build leaves: the word of the script, and what the macro expanded to.
Artifact(binds, target, seed, a) ==
    [binds |-> binds, target |-> target, seed |-> seed, kind |-> a.kind,
     bound |-> a.bound, plain |-> a.plain, stated |-> a.stated, names |-> a.names,
     salt |-> a.salt, value |-> a.value]

\* A literal that parses is bytes.
ASSUME LiteralAssumption ==
    \A token \in Tokens : literal_parse(token) \subseteq Seq(0 .. 255)

\* A seed, stated material and observed material are bytes, and the length of a
\* seed fits its field: in the code it is a u64, which no slice outgrows.
ASSUME InputAssumption ==
    /\ Seeds \subseteq Seq(0 .. 255)
    /\ \A seed \in Seeds : Above(Len(seed))[LENGTH] = 0
    /\ \A stated \in Stateds : stated.form = "named" => stated.value.bytes \in Seq(0 .. 255)
    /\ \A observed \in Identities : observed.signer \subseteq Seq(0 .. 255)

-----------------------------------------------------------------------------
\* signer_material: {} stands for each of the three absences.
signer_material(observed) ==
    IF observed.answer = "Fact" THEN {m \in observed.signer : m # <<>>} ELSE {}

\* Slip: a build that binds runs on without material.
ResolveAnyway(binds, held) == IF held # {} THEN held ELSE {<<>>}

\* resolve_material: {} fails the start.
resolve_material(binds, held) ==
    IF held # {} THEN held ELSE IF ~binds THEN {<<>>} ELSE {}

\* The key __guarded and __guarded_bytes derive.
ReadKey(artifact, held) ==
    derive_key(artifact.salt, IF artifact.bound THEN held ELSE <<>>)

-----------------------------------------------------------------------------
SecretInit ==
    /\ build = {}
    /\ hashed = {}
    /\ identity = [answer |-> "Unsupported", signer |-> {}]
    /\ runtime = "none"
    /\ material = <<>>
    /\ secret = [open |-> FALSE, bytes |-> <<>>]

\* One cargo build: fidelity's script, then the expansion in the host crate.
\* A stop of either leaves no artifact.
Build(target, stated, seed, token) ==
    /\ build = {}
    /\ build' = {Artifact(b, target, seed, a) : b \in binds_identity(stated, target),
                                                 a \in expand(token, seed, stated)}
    /\ hashed' = UNION {{[use |-> "salt", message |-> salt_input(seed, a.plain)],
                         [use |-> "key", message |-> key_input(a.salt, a.stated)]} :
                        a \in build'}
    /\ UNCHANGED <<identity, runtime, material, secret>>

\* The image runs, and the platform observes its signature: nothing in the
\* build decides what it is signed with.
Ship ==
    /\ build # {}
    /\ runtime = "none"
    /\ identity' \in Identities
    /\ hashed' = {}
    /\ UNCHANGED <<build, runtime, material, secret>>

\* start(): the material is resolved and kept, or the start fails.
Start(artifact) ==
    /\ runtime = "none"
    /\ LET resolved == resolve_material(artifact.binds, signer_material(identity))
       IN  IF resolved = {} THEN runtime' = "failed" /\ UNCHANGED material
           ELSE runtime' = "running" /\ material' \in resolved
    /\ hashed' = {}
    /\ UNCHANGED <<build, identity, secret>>

\* __guarded and __guarded_bytes, expanded at one call site.
Read(artifact) ==
    /\ runtime = "running"
    /\ ~secret.open
    /\ secret' = [open |-> TRUE,
                  bytes |-> Decrypted(artifact.kind, ReadKey(artifact, material), artifact.value)]
    /\ hashed' = {[use |-> "key",
                   message |-> key_input(artifact.salt,
                                         IF artifact.bound THEN material ELSE <<>>)]}
    /\ UNCHANGED <<build, identity, runtime, material>>

\* drop of Secret and SecretBytes.
Drop ==
    /\ secret.open
    /\ secret' = [open |-> FALSE, bytes |-> Zeros(Len(secret.bytes))]
    /\ hashed' = {}
    /\ UNCHANGED <<build, identity, runtime, material>>

\* The process ends, and its memory with it.
End ==
    /\ runtime # "none"
    /\ runtime' = "none" /\ material' = <<>>
    /\ secret' = [open |-> FALSE, bytes |-> <<>>]
    /\ hashed' = {}
    /\ UNCHANGED <<build, identity>>

SecretNext ==
    \/ \E target \in Targets, stated \in Stateds, seed \in Seeds, token \in Tokens :
          Build(target, stated, seed, token)
    \/ Ship
    \/ \E artifact \in build : Start(artifact) \/ Read(artifact)
    \/ Drop
    \/ End

SecretSpec == SecretInit /\ [][SecretNext]_secretVars

-----------------------------------------------------------------------------
\* A hash gives bytes, whatever the state.
OutputsAreBytes == \A state, i : Output(state, i) \in 0 .. 255

\* A guarded constant reads back as its literal in every image that reports
\* the material the build stated, and an unbound one in every image, whatever
\* signer that image reports (__guarded against expand).
GuardedReadsTrue ==
    \A a \in build :
        (secret.open /\ (a.bound => signer_material(identity) = {a.stated}))
            => secret.bytes = a.plain

\* A read under the wrong material gives a value of the same length that stays
\* printable, so the wrong key shows nowhere: no error, no panic (step).
WrongKeyStaysPrintable ==
    \A a \in build :
        secret.open => /\ Len(secret.bytes) = Len(a.plain)
                       /\ a.kind = "Text" => in_alphabet(secret.bytes)

\* A bound constant is never read under the key of an unbound build: a runtime
\* that could do that did not start (signer_material, resolve_material).
BoundReadHasMaterial ==
    \A a \in build : (secret.open /\ a.bound) => material # <<>>

\* The script and the macro read the variable in two compilations and agree,
\* and what they bind to is material that the target can report: only the
\* script can refuse another platform's (binds_identity, check_target, expand).
BuildAgreesWithTarget ==
    \A a \in build : a.binds = a.bound /\ a.names \subseteq of_target(a.target)

\* No other seed and literal hash the salt input of this build: no byte moves
\* from the end of the seed to the start of the literal (derive_salt).
SaltsTellBuildsApart ==
    \A a \in build, seed \in Seeds, token \in Tokens : \A plain \in literal_parse(token) :
        salt_input(seed, plain) = salt_input(a.seed, a.plain)
            => seed = a.seed /\ plain = a.plain

\* derive_key fills its fixed array of CAP * 2 + 16 bytes and never runs past it.
KeyInputFits ==
    \A h \in hashed : h.use = "key" => Len(h.message) <= CAP * 2 + LENGTH * 2

\* The padding is the standard's: the message, the set bit, the fewest zeros
\* that let the length end a block, the length (sha256, at the block boundary).
PaddingIsStandard ==
    \A h \in hashed :
        LET m == h.message
            zeros == CHOOSE k \in 0..(BLOCK - 1) : (Len(m) + 1 + k + LENGTH) % BLOCK = 0
        IN  FlattenSeq(blocks_of(m))
              = m \o <<128>> \o Zeros(zeros) \o Reversed(Length(Len(m) * 8))

\* The inductive invariant behind BuildAndReadAgree: there is one artifact; its value
\* is its literal under the key of what it states; a running runtime keeps what it
\* resolved for the signer that it still has; and an open secret is that value,
\* decrypted.
SecretInv ==
    /\ \A a, b \in build : a = b
    /\ BuildAgreesWithTarget
    /\ \A a \in build :
        /\ a.plain \in Seq(0 .. 255) /\ (a.kind = "Text" => in_alphabet(a.plain))
        /\ ~a.bound => a.stated = <<>>
        /\ a.value = Encrypted(a.kind, derive_key(a.salt, a.stated), a.plain)
        /\ runtime = "running" =>
             material \in resolve_material(a.binds, signer_material(identity))
        /\ secret.open =>
             secret.bytes = Decrypted(a.kind, ReadKey(a, material), a.value)
    /\ build = {} => runtime = "none"
    /\ secret.open => runtime = "running"

\* Script, macro, start and read compute one key in four places: they agree on the
\* value, or the build or the start fails; and a wrong signer shows nowhere
\* (binds_identity, expand, resolve_material, __guarded).
BuildAndReadAgree ==
    BuildAgreesWithTarget /\ BoundReadHasMaterial /\ GuardedReadsTrue
        /\ WrongKeyStaysPrintable

\* Whatever is hashed is framed: parts cannot move into each other, they fit their
\* array, and the blocks are the standard's (derive_salt, derive_key, sha256).
HashInputsAreFramed == SaltsTellBuildsApart /\ KeyInputFits /\ PaddingIsStandard
=============================================================================

----------------------------- MODULE HostValues -----------------------------
(***************************************************************************)
(* The values that cross the library's boundary (crates/fidelity-types/    *)
(* src): the bounded text of a finding (evidence.rs), the identity values  *)
(* that a host pins (identity.rs), and the category set as the machine     *)
(* word that the denial latch stores (category.rs).                        *)
(*                                                                         *)
(* A text is the sequence of its UTF-8 bytes. In texts for evidence only   *)
(* the shape of a character matters: its first byte is its width and its   *)
(* continuation bytes are 0.                                               *)
(***************************************************************************)
EXTENDS Integers, Sequences, SequencesExt, FiniteSets

CONSTANTS
  MAX_EVIDENCE_BYTES,   \* most bytes of a bounded text
  DIGEST_BYTES,         \* the bytes of a digest, 32 in the code
  CategoryOrder,        \* Category::ALL
  WidthTexts,           \* texts for evidence, as the widths of their characters
  HexTexts,             \* texts that a host gives as a digest, as bytes
  PlainTexts            \* texts that a host gives as a team or a requirement

ASSUME HostValuesAssumption ==
  /\ MAX_EVIDENCE_BYTES \in Nat /\ DIGEST_BYTES \in Nat
  /\ CategoryOrder \in Seq(ToSet(CategoryOrder))
  /\ IsInjective(CategoryOrder) /\ Len(CategoryOrder) <= 32
  /\ WidthTexts \subseteq Seq(1 .. 4)
  /\ HexTexts \subseteq Seq(0 .. 255) /\ PlainTexts \subseteq Seq(0 .. 255)

VARIABLES
  given,       \* what the host handed over
  made,        \* what the constructor returned
  word,        \* CategorySet(u32)
  held,        \* history: the categories that were inserted
  changes      \* history: how many inserts reported a change

valueVars == <<given, made, word, held, changes>>

-----------------------------------------------------------------------------
(* BoundedText::new.                                                       *)

CharBytes(width) == [i \in 1 .. width |-> IF i = 1 THEN width ELSE 0]
Encoded(widths) == FlattenSeq([i \in DOMAIN widths |-> CharBytes(widths[i])])

is_char_boundary(text, end) == end \in {0, Len(text)} \/ text[end + 1] # 0

\* Slip: the text is cut at the limit, wherever that is.
CutAtLimit(text) ==
  IF Len(text) <= MAX_EVIDENCE_BYTES THEN [text |-> text, truncated |-> FALSE]
  ELSE [text |-> SubSeq(text, 1, MAX_EVIDENCE_BYTES), truncated |-> TRUE]

bounded_text(text) ==
  IF Len(text) <= MAX_EVIDENCE_BYTES THEN [text |-> text, truncated |-> FALSE]
  ELSE LET ends == {e \in 0 .. MAX_EVIDENCE_BYTES : is_char_boundary(text, e)}
           end == CHOOSE e \in ends : \A f \in ends : f <= e
       IN  [text |-> SubSeq(text, 1, end), truncated |-> TRUE]

-----------------------------------------------------------------------------
(* The digests from hexadecimal text, and the texts that must not be blank.*)

NotHex == 16

\* Slip: an upper-case digit keeps the value of its distance from A.
HexDigitUpper(byte) ==
  CASE byte \in 48 .. 57 -> byte - 48
    [] byte \in 97 .. 102 -> byte - 97 + 10
    [] byte \in 65 .. 70 -> byte - 65
    [] OTHER -> NotHex

hex_digit(byte) ==
  CASE byte \in 48 .. 57 -> byte - 48
    [] byte \in 97 .. 102 -> byte - 97 + 10
    [] byte \in 65 .. 70 -> byte - 65 + 10
    [] OTHER -> NotHex

Accepted(value) == [is |-> "Ok", value |-> value]
Refused(error) == [is |-> error, value |-> <<>>]

parse_sha256_hex(hex) ==
  IF Len(hex) # 2 * DIGEST_BYTES THEN Refused("BadHexLength")
  ELSE IF \E i \in DOMAIN hex : hex_digit(hex[i]) = NotHex THEN Refused("NotHex")
  ELSE Accepted([i \in 1 .. DIGEST_BYTES |->
                   hex_digit(hex[2 * i - 1]) * 16 + hex_digit(hex[2 * i])])

\* A blank is the only byte that trim() removes in this model.
Space == 32

\* CodeRequirement::new and TeamIdentifier::new: the text is kept as it is.
stated_text(text) ==
  IF ToSet(text) \subseteq {Space} THEN Refused("Empty") ELSE Accepted(text)

-----------------------------------------------------------------------------
(* CategorySet.                                                            *)

\* The positions of a u32.
Positions == 0 .. 31

\* The word, shifted right by each distance.
Shifted(bits) ==
  LET shifted[i \in Positions] == IF i = 0 THEN bits ELSE shifted[i - 1] \div 2
  IN  shifted

\* 1_u32, shifted left by each distance.
Mask[i \in Positions] == IF i = 0 THEN 1 ELSE 2 * Mask[i - 1]

Bit(bits, i) == Shifted(bits)[i] % 2

\* Slip: the last category shares the position of the first.
IndexWraps(category) ==
  (CHOOSE i \in DOMAIN CategoryOrder : CategoryOrder[i] = category)
    % (Len(CategoryOrder) - 1)

index(category) ==
  (CHOOSE i \in DOMAIN CategoryOrder : CategoryOrder[i] = category) - 1

contains(bits, category) == Bit(bits, index(category)) = 1

inserted(bits, category) ==
  IF contains(bits, category) THEN bits ELSE bits + Mask[index(category)]

\* CategorySetIter::next, until it returns None.
iter(bits) ==
  FlattenSeq([i \in DOMAIN CategoryOrder |->
                IF contains(bits, CategoryOrder[i]) THEN <<CategoryOrder[i]>> ELSE <<>>])

count_ones(bits) == Cardinality({i \in Positions : Bit(bits, i) = 1})

-----------------------------------------------------------------------------
NoText == [kind |-> "none", text |-> <<>>]
NoValue == [is |-> "none", value |-> <<>>]

ValueInit ==
  /\ given = NoText /\ made = NoValue
  /\ word = 0 /\ held = {} /\ changes = 0

MakeText ==
  /\ \E widths \in WidthTexts :
       /\ given' = [kind |-> "evidence", text |-> widths]
       /\ made' = bounded_text(Encoded(widths))
  /\ UNCHANGED <<word, held, changes>>

MakeDigest ==
  /\ \E hex \in HexTexts :
       /\ given' = [kind |-> "digest", text |-> hex]
       /\ made' = parse_sha256_hex(hex)
  /\ UNCHANGED <<word, held, changes>>

MakeStated ==
  /\ \E text \in PlainTexts :
       /\ given' = [kind |-> "stated", text |-> text]
       /\ made' = stated_text(text)
  /\ UNCHANGED <<word, held, changes>>

\* latch(): insert into an empty set, then fetch_or into the word.
InsertCategory ==
  /\ \E category \in ToSet(CategoryOrder) :
       /\ word' = inserted(word, category)
       /\ held' = held \cup {category}
       /\ changes' = changes + (IF contains(word, category) THEN 0 ELSE 1)
  /\ given' = NoText /\ made' = NoValue

\* The values and the set share nothing, so no value is kept beside a set.
ValueNext ==
  \/ given = NoText /\ held = {} /\ (MakeText \/ MakeDigest \/ MakeStated)
  \/ InsertCategory

ValueSpec == ValueInit /\ [][ValueNext]_valueVars

-----------------------------------------------------------------------------
\* A text is cut between two characters, as late as the limit allows, and says
\* so exactly when something is missing (evidence.rs:29-51): no sequence of
\* wide characters at the limit leaves half of one, or drops one too many.
CutBetweenCharacters ==
  given.kind = "evidence" =>
    LET kept(n) == Encoded(SubSeq(given.text, 1, n))
    IN  \E n \in 0 .. Len(given.text) :
          /\ made.text = kept(n)
          /\ Len(kept(n)) <= MAX_EVIDENCE_BYTES
          /\ n < Len(given.text) => Len(kept(n + 1)) > MAX_EVIDENCE_BYTES
          /\ made.truncated <=> n < Len(given.text)

LowerDigits == <<48, 49, 50, 51, 52, 53, 54, 55, 56, 57, 97, 98, 99, 100, 101, 102>>
Lowered(text) == [i \in DOMAIN text |-> IF text[i] \in 65 .. 70 THEN text[i] + 32
                                        ELSE text[i]]

\* An accepted pin is what the host wrote: written out again its digest is the
\* same text in lower case, and a text is kept and is not blank. What is
\* refused could not have been written out (identity.rs:207-209, 260-302,
\* 372-397).
PinIsWhatWasWritten ==
  /\ given.kind = "digest" =>
       LET writable == /\ Len(given.text) = 2 * DIGEST_BYTES
                       /\ ToSet(Lowered(given.text)) \subseteq ToSet(LowerDigits)
           written == FlattenSeq([i \in DOMAIN made.value |->
                        <<LowerDigits[(made.value[i] \div 16) + 1],
                          LowerDigits[(made.value[i] % 16) + 1]>>])
       IN  /\ made.is = "Ok" <=> writable
           /\ writable => written = Lowered(given.text)
  /\ given.kind = "stated" =>
       IF \E i \in DOMAIN given.text : given.text[i] # Space
       THEN made = Accepted(given.text) ELSE made = Refused("Empty")

\* The word is its set (category.rs:91-181): it contains, lists in order and
\* counts exactly what was inserted, and one insert of each reported a change.
WordIsItsSet ==
  /\ \A category \in ToSet(CategoryOrder) : contains(word, category) <=> category \in held
  /\ ToSet(iter(word)) = held
  /\ \A i, j \in DOMAIN iter(word) : i < j => index(iter(word)[i]) < index(iter(word)[j])
  /\ count_ones(word) = changes
  /\ word = 0 <=> held = {}

\* A value that crosses the boundary keeps its meaning at its limits: a text at the
\* byte limit, a pin at its length and its digits, a word at its last bit
\* (evidence.rs:29-51, identity.rs:370-397, category.rs:91-181).
ValuesAreKept == CutBetweenCharacters /\ PinIsWhatWasWritten /\ WordIsItsSet
=============================================================================

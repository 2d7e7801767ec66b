-------------------------- MODULE PackageIdentity --------------------------
(***************************************************************************)
(* The identity capability of Android and Linux: the archive that the      *)
(* process runs from, found in the mapping text (procfs/maps.rs), its      *)
(* central directory and signing block (fidelity-formats/src/apk), and the *)
(* image of a Linux process. A file is a sequence of cells, and a field of *)
(* several bytes is one cell. The probe reads in steps, and the package    *)
(* manager can replace the archive between two of them.                    *)
(***************************************************************************)
EXTENDS Integers, SequencesExt, Facts

CONSTANTS
  Archives,     \* the archives that can be installed (Archive)
  Layouts,      \* the archives that the process maps: sequences of paths
  OwnImages,    \* the paths that the loader can name for this library
  Pins,         \* what the host can state for this platform (Pin)
  MAX_TAIL,     \* the cells of the tail that the probe reads
  MAX_BLOCK     \* the cells of the largest signing block

END == 900                         \* END_MAGIC
MAGIC == 901
SCHEME_V2 == 902
SCHEME_V3 == 903
SCHEME_V31 == 904
END_SIZE == 3                      \* the magic, the offset and the comment
FOOTER == 2                        \* the size and the magic

\* The signers of an archive in the order of its blocks, its comment, and what
\* is wrong with it.
Archive ==
  [signers : Seq([scheme : Nat, cert : Nat, whole : BOOLEAN]),
   comment : Seq(Nat), flaw : {"none", "sizes", "magic", "directory", "cut"}]

\* A digest, an accepted gap, or nothing at all. A digest stands for what it is
\* the digest of.
Pin == [choice : {"Value", "AcceptUnsupported", "None"}, of : Seq(Nat)]

ASSUME PackageAssumption ==
  /\ MAX_TAIL \in Nat /\ MAX_BLOCK \in Nat
  /\ (\A a \in Archives : a \in Archive) /\ (\A p \in Pins : p \in Pin)

VARIABLES
  installed,    \* the archive under every path, for the paths that exist
  lines,        \* the mapping text: a path, and whether its file is gone
  own,          \* the path that the loader names, or <<>>
  pin,          \* what the host stated for this platform
  hold,         \* what the probe holds between two reads
  ran,          \* the archive of this package when the probe read the text
  asks,         \* which of its two operations the probe runs
  verdict       \* the last answer, or whether it names a signer

packageVars == <<installed, lines, own, pin, hold, ran, asks, verdict>>

-----------------------------------------------------------------------------
(* The mapping text. A path is the sequence of its components.             *)

INSTALLED == <<"data", "app">>
ARCHIVE == {"base.apk", "split.apk"}
InArchive == [name \in {"base.apk!"} |-> "base.apk"]

install_root(path) ==
  IF IsPrefix(INSTALLED, path) /\ Len(path) >= 5 THEN {SubSeq(path, 1, 4)} ELSE {}

\* path_of(): the path of a line, unless its file is gone.
path_of(line) == IF line.gone THEN {} ELSE {line.path}

ArchiveMarks(path) == {i \in DOMAIN path : path[i] \in DOMAIN InArchive}

\* The archive whose entry a path names, as in base.apk!/lib.
BeforeMark(path) ==
  IF ArchiveMarks(path) = {} THEN {}
  ELSE LET k == Min(ArchiveMarks(path))
       IN  {Append(SubSeq(path, 1, k - 1), InArchive[path[k]])}

\* The archive that a line names below a root.
ArchiveUnder(root, line) ==
  UNION {IF ~IsPrefix(root, path) THEN {}
         ELSE IF Last(path) \in ARCHIVE THEN {path} ELSE BeforeMark(path) :
           path \in path_of(line)}

\* The first line that names an archive of the image's installation.
package_archive_for_image(text, image) ==
  IF BeforeMark(image) # {} THEN BeforeMark(image)
  ELSE UNION {LET hits == {k \in DOMAIN text : ArchiveUnder(root, text[k]) # {}}
              IN  IF hits = {} THEN {} ELSE ArchiveUnder(root, text[Min(hits)]) :
                root \in install_root(image)}

-----------------------------------------------------------------------------
(* The archive.                                                            *)

\* get(): the cells from..to-1, when there are so many.
Cells(cells, from, to) ==
  IF 0 <= from /\ from <= to /\ to <= Len(cells)
  THEN {SubSeq(cells, from + 1, to)} ELSE {}

Cell(cells, at) == IF at < Len(cells) THEN {cells[at + 1]} ELSE {}

\* Slip: the last magic number is the record.
DirectoryLastMagic(tail) ==
  LET found == {at \in 0 .. Len(tail) - END_SIZE : tail[at + 1] = END}
  IN  IF found = {} THEN {} ELSE {tail[Max(found) + 2]}

\* The last record whose comment reaches the end of the file.
central_directory_offset(tail) ==
  LET found == {at \in 0 .. Len(tail) - END_SIZE :
                  tail[at + 1] = END /\ at + END_SIZE + tail[at + 3] = Len(tail)}
  IN  IF found = {} THEN {} ELSE {tail[Max(found) + 2]}

\* The size counts all but its first copy.
block_length(footer) ==
  IF footer[2] # MAGIC \/ footer[1] > MAX_BLOCK THEN {} ELSE {footer[1] + 1}

\* element(): the cells behind a length, when they are there.
element(cells, at) ==
  UNION {Cells(cells, at + 1, at + 1 + length) : length \in Cell(cells, at)}

first(parts) == UNION {element(cells, 0) : cells \in parts}

certificate(scheme) ==
  LET signed_data == first(first(first({scheme})))
      certificates == UNION {UNION {element(d, 1 + Len(digests)) :
                                      digests \in element(d, 0)} : d \in signed_data}
  IN  first(certificates)

\* The schemes of a block in their order, or nothing when a length runs past
\* the end.
SchemeEntries(block) ==
  LET trailing == Len(block) - FOOTER
      from[at \in 0 .. Len(block)] ==
        IF at >= trailing THEN {<<>>}
        ELSE LET end == at + 1 + block[at + 1]
             IN  IF Cell(block, at + 1) = {} THEN {}
                 ELSE UNION {{<<[id |-> block[at + 2], value |-> value]>> \o rest :
                                rest \in from[end]} :
                               value \in Cells(block, at + 2, end)}
  IN  from[1]

\* v31.or(v3).or(v2).
Newest == <<SCHEME_V31, SCHEME_V3, SCHEME_V2>>

\* signer_certificate() of apk/signing.rs: the newest scheme wins, whatever the
\* order, and of one scheme the first that holds a certificate.
signer_certificate(block) ==
  IF Len(block) > MAX_BLOCK \/ Len(block) < FOOTER THEN {}
  ELSE IF block[1] # block[Len(block) - FOOTER + 1] THEN {}
  ELSE UNION {
    LET of(id) == {k \in DOMAIN entries :
                     entries[k].id = id /\ certificate(entries[k].value) # {}}
        kept == {i \in DOMAIN Newest : of(Newest[i]) # {}}
    IN  IF kept = {} THEN {}
        ELSE certificate(entries[Min(of(Newest[Min(kept)]))].value) :
    entries \in SchemeEntries(block)}

\* What the build tools write for an archive.
Prefixed(cells) == <<Len(cells)>> \o cells

SchemeValue(signer) ==
  IF signer.whole
  THEN Prefixed(Prefixed(Prefixed(Prefixed(<<>>) \o Prefixed(Prefixed(<<signer.cert>>)))))
  ELSE <<9>>

Block(a) ==
  LET entries == FlattenSeq([k \in DOMAIN a.signers |->
                   LET value == SchemeValue(a.signers[k])
                   IN  <<Len(value) + 1, a.signers[k].scheme>> \o value])
      size == Len(entries) + FOOTER
  IN  <<IF a.flaw = "sizes" THEN size + 1 ELSE size>> \o entries
        \o <<size, IF a.flaw = "magic" THEN 0 ELSE MAGIC>>

Content(a) ==
  LET before == <<0>> \o Block(a)
      whole == before \o <<0>> \o <<END, Len(before), Len(a.comment)>> \o a.comment
  IN  CASE a.flaw = "cut" -> SubSeq(whole, 1, Len(whole) - 1)
        [] a.flaw = "directory" -> before
        [] OTHER -> whole

\* Where a file holds the magic number of an end record whose comment reaches the
\* end of the file.
EndRecords(a) ==
  LET cells == Content(a)
  IN  {at \in 0 .. Len(cells) - END_SIZE :
         cells[at + 1] = END /\ at + END_SIZE + cells[at + 3] = Len(cells)}

\* MAX_TAIL is the longest comment and the record in front of it. No record that
\* reaches the end hides in a comment, or in a file that lost its own: Android
\* would read such a file by that record, too.
ASSUME ArchiveAssumption ==
  \A a \in Archives :
    /\ END_SIZE + Len(a.comment) <= MAX_TAIL
    /\ IF a.flaw \in {"cut", "directory"} THEN EndRecords(a) = {}
       ELSE \A at \in EndRecords(a) : at <= Len(Block(a)) + 2

\* The package manager installs a package in a directory of its own, two below the
\* one of all packages, and here a package has one archive.
ASSUME InstallAssumption ==
  /\ \A layout \in Layouts : layout \in Seq(Seq(STRING))
  /\ \A path \in OwnImages : path \in Seq(STRING)
  /\ \A path \in OwnImages \cup UNION {ToSet(layout) : layout \in Layouts} :
       \A k \in ArchiveMarks(path) : k >= 5
  /\ \A layout \in Layouts : \A p, q \in ToSet(layout) :
       /\ Last(p) \in ARCHIVE /\ Last(q) \in ARCHIVE
       /\ SubSeq(p, 1, 4) = SubSeq(q, 1, 4)
       => p = q

-----------------------------------------------------------------------------
(* The capability of Android.                                              *)

compare(found, pinned) == IF found = pinned THEN "Same" ELSE "Different"

\* identity_match() without a value asks nothing.
Answered(choice) == choice # "Value"

\* Slip: an archive without a certificate is another archive.
MatchMissing(found, pinned) ==
  IF found = {} THEN "Different" ELSE compare(CHOOSE c \in found : TRUE, pinned.of)

\* What the two operations make of the certificate that digest() found.
AndroidIdentityMatch(found, pinned) ==
  IF found = {} THEN "Failed" ELSE compare(CHOOSE c \in found : TRUE, pinned.of)

\* code_identity() states no trust, and the signer for what it is worth.
AndroidCodeIdentity(found) ==
  [trust |-> "Unavailable", signer |-> IF found = {} THEN "NoSigner" ELSE "Signer"]

PackageInit ==
  /\ own \in OwnImages
  /\ \E layout \in Layouts :
       /\ lines = [k \in DOMAIN layout |-> [path |-> layout[k], gone |-> FALSE]]
       /\ installed \in [{p \in ToSet(layout) : Last(p) \in ARCHIVE} -> Archives]
  /\ pin \in Pins
  /\ hold = [at |-> "idle"]
  /\ ran = {}
  /\ asks = "match"
  /\ verdict = "none"

\* Ends a call with the certificate that it found.
Conclude(operation, found) ==
  /\ verdict' = IF operation = "match" THEN AndroidIdentityMatch(found, pin)
                ELSE AndroidCodeIdentity(found).signer
  /\ asks' = operation
  /\ hold' = [at |-> "idle"]
  /\ ran' = {}
  /\ UNCHANGED <<installed, lines, own, pin>>

Proceed(next) ==
  /\ hold' = next
  /\ UNCHANGED <<installed, lines, own, pin, ran, asks, verdict>>

MatchGap ==
  /\ hold.at = "idle" /\ Answered(pin.choice)
  /\ verdict' = "Unsupported"
  /\ UNCHANGED <<installed, lines, own, pin, hold, ran, asks>>

\* The operations that read the archive.
Reads == {"identity"} \cup (IF Answered(pin.choice) THEN {} ELSE {"match"})

\* The archive of this package: the one under the root of its image.
OwnArchive ==
  {installed[path] : path \in {p \in DOMAIN installed :
     Len(own) >= 4 /\ IsPrefix(SubSeq(own, 1, 4), p)
       /\ [path |-> p, gone |-> FALSE] \in ToSet(lines)}}

\* signer_certificate() of sys/apk.rs asks the loader and reads the text.
MatchFindArchive ==
  /\ hold.at = "idle" /\ own # <<>>
  /\ asks' \in Reads
  /\ \E path \in package_archive_for_image(lines, own) :
       hold' = [at |-> "path", path |-> path]
  /\ ran' = OwnArchive
  /\ UNCHANGED <<installed, lines, own, pin, verdict>>

\* No image, no text or no archive.
MatchNoArchive ==
  /\ hold.at = "idle"
  /\ \E operation \in Reads : Conclude(operation, {})

\* The file is open from here on, whatever happens to its path.
MatchOpen ==
  /\ hold.at = "path" /\ hold.path \in DOMAIN installed
  /\ Proceed([at |-> "tail", cells |-> Content(installed[hold.path])])

\* What the three reads give: the tail, the size of the block, and the signer.
ReadTail ==
  LET length == Len(hold.cells)
  IN  SubSeq(hold.cells, length - Min({length, MAX_TAIL}) + 1, length)

ReadSize ==
  UNION {block_length(footer) : footer \in
    Cells(hold.cells, hold.directory - FOOTER, hold.directory)}

ReadSigner ==
  UNION {signer_certificate(block) : block \in
    IF hold.size > MAX_BLOCK THEN {}
    ELSE Cells(hold.cells, hold.directory - hold.size, hold.directory)}

MatchReadTail ==
  /\ hold.at = "tail"
  /\ IF central_directory_offset(ReadTail) = {} THEN Conclude(asks, {})
     ELSE \E offset \in central_directory_offset(ReadTail) :
            Proceed([at |-> "footer", cells |-> hold.cells, directory |-> offset])

MatchReadFooter ==
  /\ hold.at = "footer"
  /\ IF ReadSize = {} THEN Conclude(asks, {})
     ELSE \E size \in ReadSize :
            Proceed([at |-> "block", cells |-> hold.cells,
                     directory |-> hold.directory, size |-> size])

MatchReadBlock == hold.at = "block" /\ Conclude(asks, ReadSigner)

\* read_at(), open() and seek() fail at any of these points.
MatchUnreadable == hold.at # "idle" /\ Conclude(asks, {})

\* An upgrade unlinks the archives of a package and installs others elsewhere.
UpgradePackage ==
  \E root \in {SubSeq(path, 1, 4) : path \in DOMAIN installed} :
    /\ installed' = [p \in {q \in DOMAIN installed : ~IsPrefix(root, q)} |-> installed[p]]
    /\ lines' = [k \in DOMAIN lines |->
         IF IsPrefix(root, lines[k].path) THEN [lines[k] EXCEPT !.gone = TRUE]
         ELSE lines[k]]
    /\ UNCHANGED <<own, pin, hold, ran, asks, verdict>>

-----------------------------------------------------------------------------
(* The capability of Linux reads the whole image by one name.              *)

LinuxMatch(pinned, image) ==
  CASE Answered(pinned.choice) -> "Unsupported"
    [] ~Answered(pinned.choice) /\ image = {} -> "Failed"
    [] OTHER -> compare(CHOOSE i \in image : TRUE, pinned.of)

\* measure(): the kernel states a measurement with a known hash, with another
\* one, or none, and a file that does not open has none.
LinuxTrust(verity) ==
  CASE verity = "sha256" -> "Accepted"
    [] verity \in {"other", "absent"} -> "Unavailable"

LinuxIdentity ==
  /\ hold.at = "idle"
  /\ \/ \E image \in {{}} \cup {{p.of} : p \in Pins} :
          verdict' = LinuxMatch(pin, image)
     \/ \E verity \in {"sha256", "other", "absent"} : verdict' = LinuxTrust(verity)
  /\ UNCHANGED <<installed, lines, own, pin, hold, ran, asks>>

PackageNext ==
  \/ MatchGap \/ MatchFindArchive \/ MatchNoArchive \/ MatchOpen
  \/ MatchReadTail \/ MatchReadFooter \/ MatchReadBlock \/ MatchUnreadable
  \/ UpgradePackage \/ LinuxIdentity

PackageSpec == PackageInit /\ [][PackageNext]_packageVars

-----------------------------------------------------------------------------
(* The inductive invariant behind ArchiveAnswersTrue.                      *)

\* The mapping text is that of a layout, and names every archive that is still
\* installed.
InstallInv ==
  /\ own \in OwnImages
  /\ \E layout \in Layouts :
       /\ lines \in [DOMAIN layout -> [path : Seq(STRING), gone : BOOLEAN]]
       /\ \A k \in DOMAIN layout : lines[k].path = layout[k]
       /\ \A p \in DOMAIN installed :
            /\ installed[p] \in Archives /\ Last(p) \in ARCHIVE
            /\ \E k \in DOMAIN layout : lines[k] = [path |-> p, gone |-> FALSE]

\* What the probe holds between two reads is of the archive that the process ran
\* from when the probe read the text.
HoldInv ==
  /\ hold.at = "path" /\ hold.path \in DOMAIN installed => ran = {installed[hold.path]}
  /\ hold.at \in {"tail", "footer", "block"} => \E a \in Archives :
       /\ ran = {a} /\ hold.cells = Content(a)
       /\ hold.at # "tail" =>
            a.flaw \notin {"cut", "directory"} /\ hold.directory = Len(Block(a)) + 1
       /\ hold.at = "block" => a.flaw # "magic" /\ hold.size = Len(Block(a))

PackageInv == InstallInv /\ HoldInv

-----------------------------------------------------------------------------
\* What Android takes for the signer of an archive: the first certificate of its
\* newest scheme, when the archive is whole.
SignerOf(a) ==
  LET of(scheme) == {k \in DOMAIN a.signers :
                       a.signers[k].scheme = scheme /\ a.signers[k].whole}
      known == {s \in {SCHEME_V2, SCHEME_V3, SCHEME_V31} : of(s) # {}}
  IN  IF a.flaw # "none" \/ known = {} THEN {}
      ELSE {<<a.signers[Min(of(Max(known)))].cert>>}

\* An answer speaks of the archive that this process ran from when the probe
\* read the text, and of its newest signer: no archive of another package, no
\* decoy in the comment, no upgrade between two reads and no damage gives
\* another one (apk.rs:54-117, maps.rs:112-131, zip.rs:49-90,
\* signing.rs:84-135).
MatchIsOfOwnArchive ==
  MatchReadBlock /\ verdict' \in {"Same", "Different"} =>
    /\ \E a \in ran : SignerOf(a) # {}
    /\ (verdict' = "Same") <=> \E a \in ran : SignerOf(a) = {pin.of}

\* A whole archive is never given up on: as long as its block fits, a read that
\* does not fail finds the signer, whatever the comment holds and in whatever
\* order the schemes stand (zip.rs:65-90, signing.rs:61-135).
WholeArchiveAnswers ==
  \A a \in ran :
    SignerOf(a) # {} /\ Len(Block(a)) <= MAX_BLOCK =>
      CASE hold.at = "tail" -> central_directory_offset(ReadTail) # {}
        [] hold.at = "footer" -> ReadSize # {}
        [] hold.at = "block" -> ReadSigner = SignerOf(a)
        [] OTHER -> TRUE

\* At every read the probe is on its way to the signer of the archive that the
\* process ran from, and that signer alone decides the match (apk.rs:54-117).
ArchiveAnswersTrue == [][WholeArchiveAnswers /\ MatchIsOfOwnArchive]_packageVars
=============================================================================

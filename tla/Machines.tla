----------------------------- MODULE Machines ------------------------------
(***************************************************************************)
(* The probes that ask the system one question about the machine, the      *)
(* system build, the boot, the tracer or the worker thread: the property   *)
(* store of Android, the firmware of Linux and Windows                     *)
(* (fidelity-formats/src/smbios), and the kernel calls of Apple and        *)
(* Windows. A read can fail at any time. The systems are external.         *)
(***************************************************************************)
EXTENDS Integers, FiniteSets, SequencesExt, Facts

CONSTANTS
  Tables,       \* the firmware tables: sequences of structures (Structure)
  MONITORS,     \* the names of virtual machine monitors, as bytes
  MOST_BYTES,   \* the largest table that the Windows probe reads
  Addresses     \* the addresses of Java virtual machines

\* A structure of the firmware: the numbers of its two names, and its strings.
Structure ==
  [kind : Nat, extra : Nat, m : Nat, p : Nat, strings : Seq(Seq(Nat))]

ASSUME MachinesAssumption ==
  0 \notin Addresses /\ \A table \in Tables : table \in Seq(Structure)

VARIABLES
  machine,    \* what the sources of the system state
  call,       \* the size that a probe holds between two calls, or {}
  said,       \* the answer of the last probe, and the reads that failed
  member      \* the virtual machine that the worker thread belongs to, or 0

machineVars == <<machine, call, said, member>>

-----------------------------------------------------------------------------
(* Android: a property value is the set of its words, and an absent, empty *)
(* or undecodable one is no value.                                         *)

property_read(value) == IF value = {} THEN {} ELSE {value}

\* Slip: an absent property reads as a released one.
BuildJudgeAbsent(debuggable, tags) ==
  CASE debuggable = {{"1"}} -> "Development"
    [] \E words \in tags : words \cap {"test-keys", "dev-keys"} # {} ->
         "Development"
    [] OTHER -> "Released"

build_judge(debuggable, tags) ==
  IF \/ debuggable = {{"1"}}
     \/ \E words \in tags : words \cap {"test-keys", "dev-keys"} # {}
  THEN "Development"
  ELSE IF debuggable = {} \/ tags = {} THEN "Failed" ELSE "Released"

VirtualBoards == {{"goldfish"}, {"ranchu"}}

emulation_judge(boot, characteristics, board) ==
  IF \/ boot = {{"1"}}
     \/ \E shapes \in characteristics : "emulator" \in shapes
     \/ \E name \in board : name \in VirtualBoards
  THEN "Simulated"
  ELSE IF board = {} THEN "Failed" ELSE "Hardware"

\* parse_lock(): a state, no statement, or an unknown value.
parse_lock(value, locked, unlocked) ==
  CASE value = {} -> "None"
    [] value = {{locked}} -> "Locked"
    [] value = {{unlocked}} -> "Unlocked"
    [] OTHER -> "Unknown"

lock_state(vbmeta, flash) ==
  LET primary == parse_lock(vbmeta, "locked", "unlocked")
      compatibility == parse_lock(flash, "1", "0")
      stated == {primary, compatibility} \ {"None"}
  IN  IF "Unknown" \in stated \/ Cardinality(stated) # 1 THEN "Failed"
      ELSE CHOOSE lock \in stated : TRUE

boot_judge(boot, vbmeta, flash) ==
  LET lock == lock_state(vbmeta, flash)
  IN  CASE lock = "Failed" -> "Failed"
        [] lock # "Failed" /\ boot \in {{{"yellow"}}, {{"red"}}} -> "Unverified"
        [] boot = {{"orange"}} /\ lock = "Unlocked" -> "Unverified"
        [] boot = {{"green"}} /\ lock = "Locked" -> "Verified"
        [] OTHER -> "Failed"

-----------------------------------------------------------------------------
(* The firmware table: bytes at offsets from zero.                         *)

SYSTEM_INFORMATION == 1
END_OF_TABLE == 127
HEADER_BYTES == 4
RAW_HEADER == 8                          \* HEADER_BYTES of sys/firmware.rs

Byte(table, i) == table[i + 1]

\* get(): the bytes from..to-1, when the table holds them.
Slice(table, from, to) ==
  IF from <= to /\ to <= Len(table) THEN {SubSeq(table, from + 1, to)} ELSE {}

run_end(table, start) ==
  LET ends == {c \in start .. Len(table) - 2 :
                 Byte(table, c) = 0 /\ Byte(table, c + 1) = 0}
  IN  IF ends = {} THEN {} ELSE {Min(ends) + 2}

\* The next zero byte, or the end of the bytes.
NextMark(bytes, from) ==
  Min({i \in from + 1 .. Len(bytes) : bytes[i] = 0} \cup {Len(bytes) + 1})

\* split(): the pieces between the zero bytes, counted from one.
Pieces(bytes) ==
  LET mark[k \in 0 .. Len(bytes) + 1] ==
        IF k = 0 THEN 0 ELSE NextMark(bytes, mark[k - 1])
  IN  [k \in {j \in 1 .. Len(bytes) + 1 : mark[j - 1] <= Len(bytes)} |->
         SubSeq(bytes, mark[k - 1] + 1, mark[k] - 1)]

Utf8(bytes) == \A i \in DOMAIN bytes : bytes[i] < 128

string(strings, number) ==
  CASE number = 0 -> {<<>>}
    [] number # 0 /\ number \notin DOMAIN Pieces(strings) -> {}
    [] OTHER -> {text \in {Pieces(strings)[number]} : Utf8(text)}

\* The two names that the structure at c holds, when all its parts are there.
Names(table, c, start, end) ==
  LET strings == CHOOSE s \in Slice(table, start, end - 2) : TRUE
  IN  IF start < c + 6 THEN {}
      ELSE {<<m, p>> : m \in string(strings, Byte(table, c + 4)),
                       p \in string(strings, Byte(table, c + 5))}

\* Slip: the walk steps over the first zero byte of the run only.
InformationShort(table) ==
  LET walk[c \in 0 .. Len(table)] ==
        IF c + HEADER_BYTES > Len(table) THEN {}
        ELSE LET start == c + Byte(table, c + 1)
                 end == run_end(table, start)
             IN  IF \/ Byte(table, c) = END_OF_TABLE
                    \/ Byte(table, c + 1) < HEADER_BYTES \/ end = {} THEN {}
                 ELSE LET e == CHOOSE x \in end : TRUE
                      IN  IF Byte(table, c) = SYSTEM_INFORMATION
                          THEN Names(table, c, start, e) ELSE walk[e - 1]
  IN  walk[0]

\* The walk over the structures, to the first one that names the machine.
system_information(table) ==
  LET walk[c \in 0 .. Len(table)] ==
        IF c + HEADER_BYTES > Len(table) THEN {}
        ELSE LET start == c + Byte(table, c + 1)
                 end == run_end(table, start)
             IN  IF \/ Byte(table, c) = END_OF_TABLE
                    \/ Byte(table, c + 1) < HEADER_BYTES \/ end = {} THEN {}
                 ELSE LET e == CHOOSE x \in end : TRUE
                      IN  IF Byte(table, c) = SYSTEM_INFORMATION
                          THEN Names(table, c, start, e) ELSE walk[e]
  IN  walk[0]

names_a_monitor(manufacturer, product) ==
  \E field \in {manufacturer, product} :
    \E name \in MONITORS : IsPrefix(name, field)

\* A string of the firmware has no zero byte and is not empty, and only the last
\* structure ends the table.
ASSUME FirmwareAssumption ==
  \A table \in Tables : \A k \in DOMAIN table :
    /\ table[k].kind # END_OF_TABLE
    /\ \A j \in DOMAIN table[k].strings :
         /\ table[k].strings[j] # <<>>
         /\ \A i \in DOMAIN table[k].strings[j] : table[k].strings[j][i] # 0

\* An empty run holds one empty string.
Strings(s) == IF s.strings = <<>> THEN <<<<>>>> ELSE s.strings

\* What GetSystemFirmwareTable() hands out for a list of structures: a header,
\* each structure with its strings, and the end of the table.
Structured(s) ==
  <<s.kind, HEADER_BYTES + 2 + s.extra, 0, 0, s.m, s.p>>
    \o [i \in 1 .. s.extra |-> 0]
    \o FlattenSeq([k \in DOMAIN Strings(s) |-> Append(Strings(s)[k], 0)])
    \o <<0>>

RawTable(structures) ==
  [i \in 1 .. RAW_HEADER |-> 0]
    \o FlattenSeq([k \in DOMAIN structures |-> Structured(structures[k])])
    \o <<END_OF_TABLE, HEADER_BYTES, 0, 0, 0, 0>>

-----------------------------------------------------------------------------
(* The capabilities.                                                       *)

\* Slip: a file that may not be read counts as absent.
ReadFieldMerged(file) ==
  [ok |-> TRUE, text |-> IF file \in {"absent", "denied"} THEN {} ELSE {file}]

\* A field of the firmware that Linux writes as a file: its text, no file, or
\* an error. A field is the name of a monitor, or of a maker of hardware.
read_field(file) ==
  CASE file = "absent" -> [ok |-> TRUE, text |-> {}]
    [] file = "denied" -> [ok |-> FALSE, text |-> {}]
    [] OTHER -> [ok |-> TRUE, text |-> {file}]

firmware_identity(manufacturer, product) ==
  LET m == read_field(manufacturer)
      p == read_field(product)
  IN  [ok |-> m.ok /\ p.ok,
       names |-> IF m.text = {} \/ p.text = {} THEN {} ELSE m.text \cup p.text]

LinuxMachineHost(manufacturer, product, virtio) ==
  LET identity == firmware_identity(manufacturer, product)
  IN  CASE ~identity.ok -> "Failed"
        [] identity.ok /\ "monitor" \in identity.names -> "VirtualMachine"
        [] OTHER -> CASE virtio = "device" -> "VirtualMachine"
                      [] virtio = "denied" -> "Failed"
                      [] OTHER -> "Hardware"

\* The second call writes into a buffer of the size that the first reported. It
\* writes nothing when its table no longer fits, and answers the size it needs.
smbios_table(size, table) ==
  IF \/ size = 0 \/ size > MOST_BYTES
     \/ Len(table) = 0 \/ Len(table) > size \/ Len(table) <= RAW_HEADER
  THEN {}
  ELSE {SubSeq(table, RAW_HEADER + 1, Len(table))}

\* Slip: a table that names nobody belongs to hardware.
WindowsHostUnnamed(size, table) ==
  LET identity == UNION {system_information(t) : t \in smbios_table(size, table)}
  IN  IF \E n \in identity : names_a_monitor(n[1], n[2]) THEN "VirtualMachine"
      ELSE "Hardware"

WindowsMachineHost(size, table) ==
  LET identity == UNION {system_information(t) : t \in smbios_table(size, table)}
  IN  IF identity = {} THEN "Failed"
      ELSE LET names == CHOOSE n \in identity : TRUE
           IN  IF names_a_monitor(names[1], names[2]) THEN "VirtualMachine"
               ELSE "Hardware"

\* Slip: a missing value keeps the name of its verdict.
MacHostVerdict(value) ==
  IF value = "ENOENT" THEN "Absent" ELSE "Hardware"

\* kern.hv_vmm_present: a value, no such name, or a failure.
MacMachineHost(value) ==
  CASE value = "0" -> "Hardware"
    [] value = "1" -> "VirtualMachine"
    [] value = "ENOENT" -> "Unsupported"
    [] value \in {"error", "size"} -> "Failed"

\* hw.machine: a product, the architecture of a simulator, or neither.
classify(name) ==
  CASE name \in {"iPhone", "iPad", "iPod"} -> "Hardware"
    [] name \in {"arm64", "x86_64"} -> "Simulated"
    [] OTHER -> "Failed"

IosMachineHost(value) ==
  IF value \in {"error", "size", "binary", "empty"} THEN "Failed"
  ELSE classify(value)

\* Slip: the length of the answer goes unchecked, and the buffer holds zeroes.
TracedUnchecked(wanted, length, flag) ==
  IF wanted = 0 THEN "Failed"
  ELSE IF length > 0 /\ flag THEN "Present" ELSE "Absent"

\* traced() of the Apple probe: two calls, and each can come back too short.
traced(wanted, length, flag) ==
  CASE wanted = 0 \/ length = 0 -> "Failed"
    [] wanted > 0 /\ length > 0 -> IF flag THEN "Present" ELSE "Absent"

WindowsTracer(ok, present) ==
  CASE ~ok -> "Failed" [] ok -> IF present THEN "Present" ELSE "Absent"

\* The capabilities that keep the default of their trait.
Unanswered ==
  [Linux |-> {"device", "verified_boot"},
   Windows |-> {"device", "verified_boot"},
   MacOs |-> {"injection", "image_catalog", "device", "verified_boot"},
   Ios |-> {"injection", "image_catalog", "device", "verified_boot"},
   Android |-> {}]

-----------------------------------------------------------------------------
(* The worker thread.                                                      *)

\* Slip: the machine that the runtime created wins.
VmAddressRunning(given, running) == IF running = 0 THEN given ELSE running

\* prepare_worker() of Android: the handle of the host wins.
VmAddress(given, running) == IF given = 0 THEN running ELSE given

\* attach_as_daemon(): GetEnv answers for the machine it is asked about.
AttachAsDaemon(address, env, attach) ==
  CASE address = 0 \/ env = "error" -> [setup |-> "Failed", joins |-> FALSE]
    [] address # 0 /\ env = "ok" -> [setup |-> "Prepared", joins |-> FALSE]
    [] address # 0 /\ env = "detached" ->
         [setup |-> IF attach THEN "Prepared" ELSE "Failed", joins |-> attach]

\* prepare_worker() of Apple takes a class that no property tells apart.
ApplePrepare(ok) == IF ok THEN "Prepared" ELSE "Failed"

-----------------------------------------------------------------------------
Words(values) == {{v} : v \in values} \cup {{}}

\* The sources that one probe reads, and nothing about the others.
Machine ==
  [kind : {"build"}, debuggable : Words({"0", "1"}),
   tags : Words({"release-keys", "test-keys", "dev-keys"})]
  \cup [kind : {"board"}, boot : Words({"0", "1"}),
        shapes : {{}, {"nosdcard"}, {"nosdcard", "emulator"}},
        board : Words({"ranchu", "goldfish", "tensor"})]
  \cup [kind : {"boot"}, boot : Words({"green", "yellow", "orange", "red", "x"}),
        vbmeta : Words({"locked", "unlocked", "x"}), flash : Words({"0", "1", "x"})]
  \cup [kind : {"dmi"}, manufacturer : {"absent", "denied", "monitor", "maker"},
        product : {"absent", "denied", "monitor", "maker"},
        virtio : {"absent", "denied", "empty", "device"}]
  \cup [kind : {"smbios"}, table : Tables]
  \cup [kind : {"apple"}, os : {"MacOs"}, tracer : BOOLEAN,
        stated : {"0", "1", "ENOENT", "error", "size"}]
  \cup [kind : {"apple"}, os : {"Ios"}, tracer : BOOLEAN,
        stated : {"iPhone", "iPad", "iPod", "arm64", "x86_64", "AppleTV", "error",
                  "size", "binary", "empty"}]
  \cup [kind : {"windows"}, tracer : BOOLEAN]
  \cup [kind : {"linux"}]
  \cup [kind : {"jvm"}, given : Addresses \cup {0}, running : Addresses \cup {0}]

MachineInit ==
  /\ machine \in Machine
  /\ call = {}
  /\ said = [of |-> "none", is |-> "none", lost |-> {}]
  /\ member = 0

Says(capability, state, lost) ==
  /\ said' = [of |-> capability, is |-> state, lost |-> lost]
  /\ UNCHANGED machine

ReadsField(field, lost) ==
  property_read(IF field \in lost THEN {} ELSE machine[field])

AndroidDevice ==
  /\ machine.kind = "build"
  /\ \E lost \in SUBSET {"debuggable", "tags"} :
       Says("device", build_judge(ReadsField("debuggable", lost), ReadsField("tags", lost)),
            lost)
  /\ UNCHANGED <<call, member>>

AndroidEmulation ==
  /\ machine.kind = "board"
  /\ \E lost \in SUBSET {"boot", "shapes", "board"} :
       Says("emulation",
            emulation_judge(ReadsField("boot", lost), ReadsField("shapes", lost),
                            ReadsField("board", lost)), lost)
  /\ UNCHANGED <<call, member>>

AndroidVerifiedBoot ==
  /\ machine.kind = "boot"
  /\ \E lost \in SUBSET {"boot", "vbmeta", "flash"} :
       Says("verified_boot",
            boot_judge(ReadsField("boot", lost), ReadsField("vbmeta", lost),
                       ReadsField("flash", lost)), lost)
  /\ UNCHANGED <<call, member>>

LinuxEmulation ==
  /\ machine.kind = "dmi"
  /\ Says("emulation", LinuxMachineHost(machine.manufacturer, machine.product,
                                        machine.virtio), {})
  /\ UNCHANGED <<call, member>>

\* The first call of smbios_table() asks for the size.
WindowsFirmwareSize ==
  /\ machine.kind = "smbios" /\ call = {}
  /\ \E size \in {0, Len(RawTable(machine.table))} : call' = {size}
  /\ UNCHANGED <<machine, said, member>>

\* Between the two calls the machine can move to another host.
FirmwareMoves ==
  /\ machine.kind = "smbios" /\ call # {}
  /\ \E table \in Tables : machine' = [machine EXCEPT !.table = table]
  /\ UNCHANGED <<call, said, member>>

WindowsFirmwareTable ==
  /\ machine.kind = "smbios"
  /\ \E size \in call, table \in {RawTable(machine.table), <<>>} :
       Says("emulation", WindowsMachineHost(size, table), {})
  /\ call' = {}
  /\ UNCHANGED member

MacEmulation ==
  /\ machine.kind = "apple" /\ machine.os = "MacOs"
  /\ Says("emulation", MacMachineHost(machine.stated), {})
  /\ UNCHANGED <<call, member>>

IosEmulation ==
  /\ machine.kind = "apple" /\ machine.os = "Ios"
  /\ Says("emulation", IosMachineHost(machine.stated), {})
  /\ UNCHANGED <<call, member>>

AppleProcessSize ==
  /\ machine.kind = "apple" /\ call = {}
  /\ \E wanted \in {0, 2} : call' = {wanted}
  /\ UNCHANGED <<machine, said, member>>

AppleProcessRecord ==
  /\ machine.kind = "apple"
  /\ \E wanted \in call, length \in {0, 1} :
       Says("tracer", traced(wanted, length, machine.tracer), {})
  /\ call' = {}
  /\ UNCHANGED member

WindowsDebugger ==
  /\ machine.kind = "windows"
  /\ \E ok \in BOOLEAN : Says("tracer", WindowsTracer(ok, machine.tracer), {})
  /\ UNCHANGED <<call, member>>

\* A debugger comes or goes at any time.
TracerMoves ==
  /\ machine.kind \in {"apple", "windows"}
  /\ machine' = [machine EXCEPT !.tracer = ~@]
  /\ UNCHANGED <<call, said, member>>

Default ==
  /\ machine.kind = "linux"
  /\ \E platform \in DOMAIN Unanswered :
       \E capability \in Unanswered[platform] : Says(capability, NO_PROBE, {})
  /\ UNCHANGED <<call, member>>

\* The worker calls prepare_worker() on its own thread.
AndroidPrepareWorker ==
  /\ machine.kind = "jvm"
  /\ \E lost \in SUBSET {"running"}, refuse \in BOOLEAN, attach \in BOOLEAN :
       LET running == IF lost = {} THEN machine.running ELSE 0
           address == VmAddress(machine.given, running)
           env == CASE refuse -> "error"
                    [] ~refuse -> IF member = address THEN "ok" ELSE "detached"
           answer == AttachAsDaemon(address, env, attach)
       IN  /\ Says("lifecycle", answer.setup, lost)
           /\ member' = IF answer.joins THEN address ELSE member
  /\ UNCHANGED call

ApplePrepareWorker ==
  /\ machine.kind = "apple"
  /\ \E ok \in BOOLEAN : Says("lifecycle", ApplePrepare(ok), {})
  /\ UNCHANGED <<call, member>>

MachineNext ==
  \/ AndroidDevice \/ AndroidEmulation \/ AndroidVerifiedBoot
  \/ AndroidPrepareWorker \/ LinuxEmulation \/ Default
  \/ WindowsFirmwareSize \/ FirmwareMoves \/ WindowsFirmwareTable
  \/ WindowsDebugger
  \/ MacEmulation \/ IosEmulation \/ AppleProcessSize \/ AppleProcessRecord
  \/ ApplePrepareWorker \/ TracerMoves

MachineSpec == MachineInit /\ [][MachineNext]_machineVars

-----------------------------------------------------------------------------
\* Every capability answers with a fact of its kind.
MachineTypeOK ==
  /\ machine \in Machine /\ member \in Addresses \cup {0}
  /\ said.is \in CASE said.of = "emulation" -> Observation(MachineHost)
                   [] said.of = "device" -> Observation(SystemBuild)
                   [] said.of = "verified_boot" -> Observation(BootVerification)
                   [] said.of = "tracer" -> Observation(TracerState)
                   [] said.of = "lifecycle" -> WorkerSetup
                   [] OTHER -> {"none", NO_PROBE}

\* What the sources of a machine with a clean answer state. A released build: both
\* properties were read.
BuildClean ==
  /\ said.lost = {} /\ machine.debuggable \notin {{}, {"1"}}
  /\ machine.tags # {} /\ machine.tags \cap {"test-keys", "dev-keys"} = {}

\* A board of hardware: its name was read. The other two properties speak only when
\* they were read, so a lost one reads as an absent one.
BoardClean ==
  /\ "board" \notin said.lost /\ machine.board \notin {{}} \cup VirtualBoards
  /\ "boot" \notin said.lost => machine.boot # {"1"}
  /\ "shapes" \notin said.lost => "emulator" \notin machine.shapes

\* A verified boot: a green state and one lock were read, and no lock that was read
\* says otherwise.
BootClean ==
  /\ "boot" \notin said.lost /\ machine.boot = {"green"}
  /\ \/ "vbmeta" \notin said.lost /\ machine.vbmeta = {"locked"}
     \/ "flash" \notin said.lost /\ machine.flash = {"1"}
  /\ "vbmeta" \notin said.lost => machine.vbmeta \in {{}, {"locked"}}
  /\ "flash" \notin said.lost => machine.flash \in {{}, {"1"}}

\* The firmware of Linux: no refused file and no paravirtual device. One absent file
\* hides what the other one names.
DmiClean ==
  /\ machine.virtio \notin {"device", "denied"}
  /\ "denied" \notin {machine.manufacturer, machine.product}
  /\ \/ "absent" \in {machine.manufacturer, machine.product}
     \/ "monitor" \notin {machine.manufacturer, machine.product}

\* The kernel of Apple named no monitor, or a product.
AppleClean ==
  machine.stated \in IF machine.os = "MacOs" THEN {"0"} ELSE {"iPhone", "iPad", "iPod"}

\* A clean answer says what the sources that were read stated, and the source that
\* the answer rests on was read (device.rs:71-88, emulation.rs:85-105,
\* verified_boot.rs:80-132, dmi.rs:50-92, vmm.rs:62-94, ios/emulation.rs:19-33). A
\* table of the firmware moves, so FirmwareAnswered has its clean answer.
CleanMachineIsClean ==
  said.is \in {"Released", "Hardware", "Verified"} =>
    /\ machine.kind = "build" => BuildClean
    /\ machine.kind = "board" => BoardClean
    /\ machine.kind = "boot" => BootClean
    /\ machine.kind = "dmi" => DmiClean
    /\ machine.kind = "apple" => AppleClean

\* What a reader of the firmware table must find: the names of the first System
\* Information structure before the end of the table.
FirstNames(structures) ==
  LET found == {k \in DOMAIN structures : structures[k].kind = SYSTEM_INFORMATION}
      s == structures[Min(found)]
      strings == Strings(s)
      text(n) == IF n = 0 THEN <<>> ELSE strings[n]
  IN  IF found = {} \/ ~{s.m, s.p} \subseteq 0 .. Len(strings) THEN {}
      ELSE {<<text(s.m), text(s.p)>>}

FirmwareNames(table) == {n \in FirstNames(table) : Utf8(n[1]) /\ Utf8(n[2])}

\* The walk over the bytes finds the names that the firmware wrote, and on every
\* cut of the table the same ones or none (smbios/system.rs:44-110): a short
\* read never names another machine.
FirmwareTableRead ==
  machine.kind = "smbios" =>
    LET bytes == SubSeq(RawTable(machine.table), RAW_HEADER + 1,
                        Len(RawTable(machine.table)))
        names == FirmwareNames(machine.table)
    IN  /\ system_information(bytes) = names
        /\ \A cut \in 0 .. Len(bytes) :
             system_information(SubSeq(bytes, 1, cut)) \in {{}, names}

\* The size is of the machine that answered the first call, and the table of the one
\* that answered the second. Whatever moved in between, an answer is about the
\* second: hardware has readable names that are no monitor's, and a virtual machine
\* has those of one (firmware.rs:52-83, windows/emulation.rs:29-50).
FirmwareAnswered ==
  WindowsFirmwareTable =>
    /\ said'.is = "Hardware" =>
         \E n \in FirmwareNames(machine.table) : ~names_a_monitor(n[1], n[2])
    /\ said'.is = "VirtualMachine" =>
         \E n \in FirmwareNames(machine.table) : names_a_monitor(n[1], n[2])

\* A tracer that holds the process when the kernel answers is never reported
\* absent, whatever the two calls returned (process.rs:76-142, debug.rs:27-39).
TracerSeen ==
  [][(AppleProcessRecord \/ WindowsDebugger) /\ said'.of = "tracer"
       /\ said'.is = "Absent" => ~machine.tracer]_machineVars

\* The worker thread belongs to the machine of the host when the host gave one,
\* and "Prepared" means that it belongs to one (lifecycle.rs:36-64,
\* jvm.rs:100-136).
WorkerJoinsHostMachine ==
  machine.kind = "jvm" =>
    /\ machine.given # 0 => member \in {0, machine.given}
    /\ said.is = "Prepared" => member # 0

\* The inductive invariant behind TracerSeen and MachineAnswersTrue: the size that
\* the Apple probe holds between its calls is one that the kernel gave.
MachineInv ==
  /\ MachineTypeOK /\ CleanMachineIsClean /\ WorkerJoinsHostMachine
  /\ machine.kind = "apple" => call \in {{}, {0}, {2}}

\* What the probes say about the machine, the system and the worker thread rests on
\* what the sources stated: a clean answer on the sources that were read, the answer
\* about a firmware table on the table of its second call, and the worker thread on
\* the host's machine, with every read that can fail failing (device.rs:48-100,
\* emulation.rs:55-115, verified_boot.rs:67-143, dmi.rs:50-92, firmware.rs:52-83,
\* smbios/system.rs:44-110, lifecycle.rs:36-64).
MachineAnswersTrue ==
  /\ [](/\ MachineTypeOK /\ CleanMachineIsClean
        /\ FirmwareTableRead /\ WorkerJoinsHostMachine)
  /\ [][FirmwareAnswered]_machineVars
=============================================================================

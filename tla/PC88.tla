---- MODULE PC88 ----
(***************************************************************************)
(* The PC as a whole (pc88.cpp, base.cpp, wincore.cpp, extdev.cpp): how    *)
(* the devices and the external modules are wired to the two buses, what   *)
(* the settings decide at a reset, and snapshots.  The state of a device   *)
(* is its registers, one value that is 0 after a reset, and its memory,    *)
(* one that a reset keeps; what they hold is in the other modules.  All    *)
(* disks are of one image file with two of them; how a file is opened and  *)
(* a disk put in is in Disks.                                              *)
(***************************************************************************)
EXTENDS IOBus, TLC

CONSTANTS
  Settings,      \* the settings the user may choose, those a snapshot's header holds
  Other,         \* external modules besides cdif: the ports each names for out and in
  Roms,          \* the ROMs of the PC-8001 that are there: "n80", "n80v2"
  DiskNumbers,   \* disks the user puts in, -1 to take one out
  MaxSteps88,    \* bound: operations of the user and of the program
  MaxSessions    \* bound: times the emulator is started

VARIABLES
  session,       \* [phase, nth]: the emulator is "starting", "running" or "closing"
  outBanks, ins, list,
  config,        \* the settings
  board,         \* what the last reset decided by the settings of then
  disks,         \* the disk in each drive, -1 for none
  status, pcSnapshot, loaded, pcSteps
wiring == <<outBanks, ins, list>>
pcvars == <<session, wiring, config, board, disks, status, pcSnapshot, loaded, pcSteps>>

(***************************************************************************)
(* The wiring.  Ports of the sub system's bus end in an apostrophe.        *)
(***************************************************************************)
Pints == <<"int0", "int1", "int2", "int3", "int4", "int5", "int6", "int7">>
Parallel(bus) == [i \in 1 .. 4 |-> <<"fc", "fd", "fe", "ff">>[i] \o bus]
Computer == <<
  <<"CPU1", <<"reset", "irq">>, <<>> >>,
  <<"BASE", <<"reset", "vrtc">>, <<"30", "31", "40", "6e">> >>,
  <<"DMAC", <<"reset", "60", "61", "62", "63", "64", "65", "66", "67", "68">>,
            <<"60", "61", "62", "63", "64", "65", "66", "67", "68">> >>,
  <<"CRTC", <<"reset", "50", "51", "00", "01", "02", "33">>, <<"50", "51">> >>,
  <<"MEM1", <<"reset", "31", "32", "33", "34", "35", "5c", "5d", "5e", "5f", "70", "71", "78", "99",
              "e2", "e3", "f0", "f1", "vrtc">>,
            <<"32", "33", "5c", "70", "71", "e2", "e3">> >>,
  <<"KNJ1", <<"e8", "e9">>, <<"e8", "e9">> >>,
  <<"KNJ2", <<"ec", "ed">>, <<"ec", "ed">> >>,
  <<"SCRN", <<"reset", "30", "31", "32", "33", "52", "53", "54", "55", "56", "57", "58", "59", "5a", "5b">>, <<>> >>,
  <<"INTC", <<"reset">> \o Pints \o <<"e4", "e6">>, <<"iack">> >>,
  <<"SUB", <<"reset">> \o Parallel(""), SubSeq(Parallel(""), 1, 3)>> >>
Peripherals == <<
  <<"SIO", <<"reset", "20", "21", "sioin">>, <<"20", "21">> >>,
  <<"CMT0", <<"sioreq", "tapeopen", "30">>, <<"40">> >>,
  <<"OPN1", <<"reset", "32", "44", "45", "46", "47", "timesync">>, <<"44", "45", "46", "47">> >>,
  <<"OPN2", <<"reset", "aa", "a8", "a9", "ac", "ad">>, <<"a8", "a9", "ac", "ad">> >>,
  <<"CALN", <<"reset", "10", "40">>, <<"40">> >>,
  <<"BEEP", <<"40">>, <<>> >>,
  <<"SIOM", <<"reset", "c2", "c3", "00">>, <<"c2", "c3">> >>,
  <<"joypad", <<"vrtc">>, <<"opnio1", "opnio2">> >> >>
Sub == <<
  <<"CPU2", <<"reset'", "irq'">>, <<>> >>,
  <<"SUB", Parallel("'"), <<"iack'">> \o SubSeq(Parallel("'"), 1, 3)>>,
  <<"FDC", <<"reset'", "fb'", "f4'", "f8'">>, <<"f8'", "fa'", "fb'">> >> >>
Keyboard == <<"keyboard", <<"reset", "vrtc">>,
  <<"00", "01", "02", "03", "04", "05", "06", "07", "08", "09", "0a", "0b", "0c", "0d", "0e", "0f">> >>

\* The external modules: the CD-ROM is connected by its table, others by their ports.
External ==
  ("cdif" :> <<"cdif", <<"reset", "90", "91", "94", "97", "98", "99", "9f">>,
                       <<"90", "91", "92", "93", "96", "98", "99", "9b", "9d">> >>)
  @@ [m \in DOMAIN Other |-> <<m, Other[m][1], Other[m][2]>>]
Modules == DOMAIN External

Wired == Computer \o Peripherals \o Sub \o <<Keyboard>>
DeviceIds == {Wired[i][1] : i \in 1 .. Len(Wired)}
Ids == (DeviceIds \ {"joypad", "keyboard"}) \union Modules   \* those with an id of their own
OutPorts == UNION {Range(w[2]) : w \in Range(Wired) \union {External[m] : m \in Modules}}
InPorts == UNION {Range(w[3]) : w \in Range(Wired) \union {External[m] : m \in Modules}}

Named(l, d) == IF d \in Ids THEN Add(l, d) ELSE l

(***************************************************************************)
(* What a reset decides.  mode: the bits of the BASIC mode, of which bit 0 *)
(* is shown by bit 6 of port 31; eram: banks of extended memory.           *)
(***************************************************************************)
N80V2 == {1, 4}

\* ApplyConfig: what waits for a reset is read from the settings then; the size of the
\* extended memory waits in the memory.
ApplySettings(b, s) == [b EXCEPT !.neweram = s.eram]

\* Base::Reset has set port 31 before it is read: bit 6 of it tells the modes apart.
SwitchBits(s) == IF 0 \in s.mode THEN 0 .. 7 ELSE (0 .. 7) \ {6}

SetOnBoard(s, b) ==
  LET cd == 6 \in s.mode /\ Find(list, "cdif")
      high == 6 \in BusIn(ins["31"], [d \in DeviceIds \union Modules |-> IF d = "BASE" THEN SwitchBits(s) ELSE 0 .. 7])
      n80 == 1 \in s.mode /\ (IF b.port33 THEN "n80v2" ELSE "n80") \in Roms
      eram == IF n80 /\ b.neweram = 0 THEN 1 ELSE b.neweram
  IN [of |-> s, fdBoot |-> cd \/ disks[0] >= 0, cdBios |-> cd,
      dmaReads |-> IF high THEN "TVRAM" ELSE "RAM",
      opn1 |-> [enabled |-> high \/ ~s.noOPN44, opna |-> s.opna, maskPort |-> IF s.mode = N80V2 THEN "33" ELSE "32"],
      opn2 |-> [enabled |-> s.opnaA8 \/ s.opnA8, opna |-> s.opnaA8],
      neweram |-> eram, eram |-> eram, port33 |-> s.mode = N80V2]

OpnSize(o) == IF ~o.enabled THEN 0 ELSE IF o.opna THEN 2 ELSE 1
StatusSize(b) ==
  [d \in DeviceIds \union Modules |->
     CASE d = "MEM1" -> 1 + b.eram
       [] d = "OPN1" -> OpnSize(b.opn1)
       [] d = "OPN2" -> OpnSize(b.opn2)
       [] d \in {"BASE", "joypad", "keyboard"} -> 0
       [] OTHER -> 1]

\* Reset calls the reset ports of both buses and writes to these; an external module
\* keeps its state, and each device its memory.
ResetPorts == {"reset", "30", "31", "32", "33", "34", "35", "40", "53", "5f", "70", "99", "e2", "e3", "e6", "f1", "reset'"}
Heard(o) == Reached(o, ResetPorts) \ Modules
AfterReset(st, o) == [d \in DOMAIN st |-> IF d \in Heard(o) THEN [st[d] EXCEPT !.registers = 0] ELSE st[d]]

(***************************************************************************)
(* A session: the PC is built and the modules found are connected, the     *)
(* emulator runs, the modules are released.  The next session has the      *)
(* settings and the snapshot of the last.                                  *)
(***************************************************************************)
Built == [
  out |-> FoldLeft(LAMBDA b, w : ConnectBanks(b, w[1], w[2]), EmptyBanks(OutPorts), Wired),
  in |-> FoldLeft(LAMBDA b, w : ConnectBanks(b, w[1], w[3]), EmptyBanks(InPorts), Wired),
  list |-> FoldLeft(LAMBDA l, w : Named(l, w[1]), <<>>, Wired),
  status |-> [d \in DeviceIds \union Modules |-> [registers |-> 0, memory |-> 0]]]
PowerOnBoard == [of |-> [mode |-> {}], fdBoot |-> TRUE, cdBios |-> FALSE, dmaReads |-> "RAM",
  opn1 |-> [enabled |-> TRUE, opna |-> FALSE, maskPort |-> "32"], opn2 |-> [enabled |-> FALSE, opna |-> FALSE],
  neweram |-> 4, eram |-> 4, port33 |-> FALSE]
PcInit ==
  /\ outBanks = Built.out /\ ins = Built.in /\ list = Built.list /\ status = Built.status
  /\ session = [phase |-> "starting", nth |-> 1]
  /\ config \in Settings /\ board = PowerOnBoard /\ disks = [i \in {0, 1} |-> -1]
  /\ pcSnapshot = <<>> /\ loaded = TRUE /\ pcSteps = 0

Enter(phase) == session' = [session EXCEPT !.phase = phase]
Present == {m \in Modules : Find(list, m)}

\* ConnectExternalDevices; a module's device goes to the list by the bus or by hand.
Attach ==
  /\ session.phase = "starting"
  /\ \E m \in Modules \ Present :
       /\ outBanks' = ConnectBanks(outBanks, m, External[m][2])
       /\ ins' = ConnectBanks(ins, m, External[m][3])
       /\ list' = Add(list, m)
       /\ UNCHANGED <<session, config, board, disks, status, pcSnapshot, loaded, pcSteps>>

\* The settings are applied and the machine is reset.
StartPC ==
  /\ session.phase = "starting" /\ Enter("running")
  /\ board' = SetOnBoard(config, ApplySettings(board, config))
  /\ status' = AfterReset(status, outBanks)
  /\ UNCHANGED <<wiring, config, disks, pcSnapshot, loaded, pcSteps>>

ClosePC ==
  /\ session.phase = "running" /\ Enter("closing")
  /\ UNCHANGED <<wiring, config, board, disks, status, pcSnapshot, loaded, pcSteps>>

\* CleanUp releases the modules with an interface of their own, then the others.
Detach ==
  /\ session.phase = "closing"
  /\ \E m \in Present :
       /\ m = "cdif" \/ "cdif" \notin Present
       /\ outBanks' = Disconnect(outBanks, m) /\ ins' = Disconnect(ins, m) /\ list' = Del(list, m)
       /\ UNCHANGED <<session, config, board, disks, status, pcSnapshot, loaded, pcSteps>>

NextSession ==
  /\ session.phase = "closing" /\ Present = {} /\ session.nth < MaxSessions
  /\ session' = [phase |-> "starting", nth |-> session.nth + 1]
  /\ outBanks' = Built.out /\ ins' = Built.in /\ list' = Built.list /\ status' = Built.status
  /\ board' = PowerOnBoard /\ disks' = [i \in {0, 1} |-> -1] /\ loaded' = TRUE
  /\ UNCHANGED <<config, pcSnapshot, pcSteps>>

(***************************************************************************)
(* The user and the program.                                               *)
(***************************************************************************)
Step88 ==
  /\ session.phase = "running" /\ UNCHANGED <<session, wiring>>
  /\ pcSteps < MaxSteps88 /\ pcSteps' = pcSteps + 1

\* The program runs, every device moves on, and it may have written port 33.
RunPC ==
  /\ Step88
  /\ status' = [d \in DOMAIN status |->
                  IF d \in Modules \ Present THEN status[d] ELSE [registers |-> pcSteps', memory |-> pcSteps']]
  /\ \E n80v2 \in BOOLEAN : board' = [board EXCEPT !.port33 = n80v2]
  /\ UNCHANGED <<config, disks, pcSnapshot, loaded>>

\* DiskManager::Mount, which unmounts first and refuses a disk that the other drive holds.
MountDisk(d, drive, n) == [d EXCEPT ![drive] = IF n = d[1 - drive] THEN -1 ELSE n]
ChangeDisk ==
  /\ Step88
  /\ \E drive \in {0, 1}, n \in DiskNumbers : disks' = MountDisk(disks, drive, n)
  /\ UNCHANGED <<config, board, status, pcSnapshot, loaded>>

\* The dialog: the settings are applied, but most wait for a reset.
Configure ==
  /\ Step88
  /\ config' \in Settings \ {config}
  /\ board' = ApplySettings(board, config')
  /\ UNCHANGED <<disks, status, pcSnapshot, loaded>>

\* A menu that changes the mode, and applies it and resets if the user agrees to the reset.
ResetPC ==
  /\ Step88
  /\ config' \in {s \in Settings : s = [config EXCEPT !.mode = s.mode]}
  /\ \/ /\ board' = SetOnBoard(config', ApplySettings(board, config'))
        /\ status' = AfterReset(status, outBanks)
     \/ UNCHANGED <<board, status>>
  /\ UNCHANGED <<disks, pcSnapshot, loaded>>

(***************************************************************************)
(* Snapshots.                                                              *)
(***************************************************************************)
\* The header holds the settings of the configuration and the disks in the drives, the
\* rest the devices as they are.  board is kept to tell what was in force.
SaveSnapshot ==
  /\ Step88
  /\ pcSnapshot' = <<[header |-> config, disks |-> disks, blob |-> SaveStatus(list, StatusSize(board), status), board |-> board]>>
  /\ UNCHANGED <<config, board, disks, status, loaded>>

\* Mutant: the machine is reset before it has the settings of the header.
SettingsOfResetEarly(s, before) == before
SettingsOfReset(s, before) == s

\* The settings of the header are applied and the machine reset, before the rest is read.
ResetForLoad(file) == SetOnBoard(SettingsOfReset(file.header, board.of), ApplySettings(board, file.header))

\* When the disks are of a file with several, drive 1 gets its second disk first, and
\* the disks of the header are put in when all has been loaded.
DisksAtLoad(named) == IF named THEN MountDisk(disks, 1, 1) ELSE disks
DisksLoaded(file, named) ==
  IF named THEN MountDisk(MountDisk(DisksAtLoad(TRUE), 0, file.disks[0]), 1, file.disks[1]) ELSE disks

\* The devices load; when one refuses, the machine is reset again.  The memory, which
\* holds port 33, is ahead of those that refuse.
LoadSnapshotOf(refusing, named) ==
  LET file == pcSnapshot[1]
  IN /\ config' = file.header /\ UNCHANGED pcSnapshot
     /\ \E reset \in {ResetForLoad(file)} : \E size \in {StatusSize(reset)} :
          LET ok == LoadSucceeds(list, size, file.blob, refusing)
              after == LoadStatus(list, size, AfterReset(status, outBanks), file.blob, refusing)
              taken == IF CheckStatus(list, size, file.blob) THEN [reset EXCEPT !.port33 = file.board.port33] ELSE reset
          IN /\ loaded' = ok
             /\ board' = IF loaded' THEN taken ELSE SetOnBoard(reset.of, taken)
             /\ status' = IF loaded' THEN after ELSE AfterReset(after, outBanks)
             /\ disks' = IF loaded' THEN DisksLoaded(file, named) ELSE DisksAtLoad(named)
\* What follows the header cannot be read or unpacked: the devices load nothing.
LoadUnreadable(named) ==
  LET file == pcSnapshot[1]
  IN /\ board' = ResetForLoad(file) /\ config' = file.header
     /\ status' = AfterReset(status, outBanks) /\ disks' = DisksAtLoad(named) /\ loaded' = FALSE
     /\ UNCHANGED pcSnapshot
\* A file without a header of this kind changes nothing.
LoadSnapshot ==
  /\ Step88 /\ pcSnapshot # <<>>
  /\ \E named \in IF disks[0] >= 0 THEN BOOLEAN ELSE {FALSE} :
       LoadUnreadable(named) \/ \E refusing \in SUBSET Present : LoadSnapshotOf(refusing, named)

PcNext ==
  \/ Attach \/ StartPC \/ ClosePC \/ Detach \/ NextSession
  \/ RunPC \/ ChangeDisk \/ Configure \/ ResetPC \/ SaveSnapshot \/ LoadSnapshot

(***************************************************************************)
(* Properties.                                                             *)
(***************************************************************************)
\* At every port exactly the devices answer that are connected there, in the order
\* they came and nobody else, and the list holds each of those with an id once, with as
\* many connections as it has (IOBus::Connect, Disconnect and DeviceList), while
\* modules are connected and released.
AtPort(tables, n, p) ==
  LET there == SelectSeq(tables, LAMBDA w : \E i \in 1 .. Len(w[n]) : w[n][i] = p)
  IN [i \in 1 .. Len(there) |-> there[i][1]]
WiredAt == [n \in {2, 3} |-> [p \in OutPorts \union InPorts |-> AtPort(Wired, n, p)]]
ModulesHere ==
  LET nodes == SelectSeq(list, LAMBDA x : x.entry \in Modules)
  IN [i \in 1 .. Len(nodes) |-> External[nodes[i].entry]]
AsWired(banks, n, come) ==
  \A p \in DOMAIN banks :
    LET all == WiredAt[n][p] \o AtPort(come, n, p) IN banks[p] = IF all = <<>> THEN <<DummyIO>> ELSE all
BusAsWired ==
  /\ AsWired(outBanks, 2, ModulesHere) /\ AsWired(ins, 3, ModulesHere)
  /\ LET entries == {list[i].entry : i \in 1 .. Len(list)}
     IN entries = Ids \intersect (DeviceIds \union Present) /\ Cardinality(entries) = Len(list)
  /\ \A i \in 1 .. Len(list) : list[i].count = IF list[i].entry = "SUB" THEN 2 ELSE 1

\* A snapshot that was saved while the settings were those in force, and that can be
\* read, loads into every device that is there, whatever the settings, the modules and
\* the disks are by then, unless a module refuses its part, or it is one of a PC-8001
\* without extended memory, which gets a bank only if its ROM is there when it is reset.
\* One that is refused leaves no device of the PC with registers of it, but for those
\* that hear no reset; memory that was loaded before the refusal stays.  A drive has the
\* disk of the header again unless the other held it (LoadSnapshot,
\* DeviceList::LoadStatus, DiskManager::Mount).
WholeAfterLoad ==
  LoadSnapshot =>
    LET file == pcSnapshot[1]
        sure == file.header = file.board.of /\ (1 \in file.header.mode => file.header.eram > 0)
    IN /\ (sure /\ \E named \in BOOLEAN : LoadSnapshotOf({}, named)) => loaded'
       /\ IF loaded'
          THEN /\ \A i \in 1 .. Len(file.blob) : Find(list, file.blob[i].id) => status'[file.blob[i].id] = file.blob[i].state
               /\ disks' = disks \/ \A i \in {0, 1} : disks'[i] = file.disks[i] \/ (i = 0 /\ file.disks[0] = 1)
          ELSE \A d \in Heard(outBanks) : status'[d].registers = 0
====

---- MODULE FDC ----
(***************************************************************************)
(* The floppy disk controller (FDC) with its drive units and the disks in  *)
(* them.  The whole state is one record, and the functions of the code are *)
(* operators from state to state; the actions are what is done to it: the  *)
(* CPU reads or writes the data register, signals the end of the transfer, *)
(* resets the controller or switches the drives, the scheduler runs its    *)
(* events, the user takes out a disk or puts it in, a snapshot is loaded.  *)
(*                                                                         *)
(* Bytes of parameters, data and results above Few are not told apart;     *)
(* parameters arrive with the last of their bytes.  Status lamps, and the  *)
(* length of a delay, are left out.                                        *)
(***************************************************************************)
EXTENDS Floppy, FiniteSets

CONSTANTS
  Drives,         \* drives with a unit, 0..1 in the code, of the four addressed
  DriveModes,     \* drive bits the CPU may write: sets of drives in 2HD mode
  Commands,       \* [op, deleted, mt, density, skip]
  Parameters,     \* [us, hd, id, eot, stp], the parameters of a command
  Data,           \* bytes the CPU sends
  Disks,          \* disks the user may put in
  NoDisk,         \* what a drive without a disk holds
  Paused,         \* [at, misled]: where the user has saved a snapshot
  Few,            \* bytes of a transfer that are told apart
  RModulus,       \* a record number is stored modulo this, 256 in the code
  MaxSeeks,       \* bound on the seek events of one drive
  MaxCommands     \* bound on the commands given and the snapshots loaded

Addresses == 0..3

Heads == {0, 1}

\* The cylinders a program seeks.
Cylinders == {0} \union {p.id.c : p \in Parameters}

Least(a, b) == IF a < b THEN a ELSE b

VARIABLES
  fdc,            \* the controller, its drives and their disks
  misled          \* history: a snapshot was loaded that the code cannot resume

fdcVars == <<fdc, misled>>

-----------------------------------------------------------------------------
(* Phases.                                                                 *)

Intr(s, up) == [s EXCEPT !.intr = up]

ShiftToIdlePhase(s) == [s EXCEPT !.phase = "idle", !.status = {"RQM"}, !.accept_tc = FALSE]

ShiftToCommandPhase(s, nbytes) ==
  [s EXCEPT !.phase = "command", !.status = {"RQM", "CB"}, !.accept_tc = FALSE,
            !.count = Least(nbytes, Few), !.buffer = <<>>]

ShiftToExecPhase(s, phase, status, nbytes) ==
  [s EXCEPT !.phase = phase, !.status = status \union {"RQM", "NDM", "CB"},
            !.accept_tc = TRUE, !.intr = TRUE, !.count = Least(nbytes, Few), !.buffer = <<>>]

ShiftToExecReadPhase(s, nbytes) == ShiftToExecPhase(s, "execread", {"DIO"}, nbytes)

ShiftToExecWritePhase(s, nbytes) == ShiftToExecPhase(s, "execwrite", {}, nbytes)

ShiftToExecScanPhase(s, nbytes, data) ==
  [ShiftToExecPhase(s, "execscan", {}, nbytes) EXCEPT !.result = {"SH"}, !.buffer = <<data>>]

ShiftToResultPhase(s, nbytes) ==
  [s EXCEPT !.phase = "result", !.status = {"RQM", "CB", "DIO"}, !.accept_tc = FALSE,
            !.count = Least(nbytes, Few), !.buffer = <<>>]

ShiftToResultPhase7(s) == Intr(ShiftToResultPhase(s, 7), TRUE)

Fails(s, result) == ShiftToResultPhase7([s EXCEPT !.result = result])

\* timers holds the pending calls of PhaseTimer, handle says what timer_handle_
\* points at: nothing, the last such call, or a slot that was freed since and may
\* have been given to another event.
SetTimer(s, phase) ==
  [s EXCEPT !.timers = Append(@, phase), !.t_phase = phase, !.handle = "own"]

\* DelTimer deletes whatever is in the slot by then, if it is of the controller one
\* of its seeks (slot); for an event of somebody else see Scheduler.
DelTimer(s) ==
  [s EXCEPT !.timers = IF s.handle = "own" THEN Front(@) ELSE @, !.handle = "null",
            !.seeks = [dr \in Addresses |-> IF dr \in s.slot THEN @[dr] - 1 ELSE @[dr]],
            !.slot = {}]

InSlot(s) ==
  {{}} \union (IF s.handle = "stale" THEN {{dr} : dr \in {d \in Drives : s.seeks[d] > 0}} ELSE {})

-----------------------------------------------------------------------------
(* What the commands have in common.                                       *)

GetSectorParameters(s) ==
  LET p == s.buffer IN [s EXCEPT !.us = p.us, !.hd = p.hd, !.id = p.id, !.eot = p.eot, !.stp = p.stp]

CheckCondition(s) ==
  IF s.us \notin Drives THEN {"AT", "NR"}
  ELSE IF s.disk[s.us] = NoDisk THEN {"AT", "MA"} ELSE {}

NextRecord(r) == (r + 1) % RModulus

\* IDIncrement, with the answer whether there is a next sector in "more".
IDAfter(s, r) ==
  LET h == IF s.command.mt THEN 1 - s.id.h ELSE s.id.h
      hd == IF s.command.mt THEN 1 - s.hd ELSE s.hd
  IN IF r # s.eot THEN [more |-> TRUE, s |-> [s EXCEPT !.id.r = NextRecord(r)]]
     ELSE IF s.command.mt /\ h = 1
          THEN [more |-> TRUE, s |-> [s EXCEPT !.id.r = 1, !.id.h = h, !.hd = hd]]
     ELSE [more |-> FALSE, s |-> [s EXCEPT !.id.r = 1, !.id.h = h, !.hd = hd, !.id.c = @ + 1]]

IDIncrement(s) ==
  IDAfter(s, IF s.command.op = "Scan" /\ s.stp = 2 THEN NextRecord(s.id.r) ELSE s.id.r)

Onward(i) == SetTimer(i.s, IF i.more THEN "execute" ELSE "timer")

NextSector(s) == Onward(IDIncrement(s))

Flags(s) == s.command.density \union (IF s.us \in s.mode THEN {"HD"} ELSE {})

\* SetHead: the track under the head of the drive, where its unit stands.
Track(s) == <<s.unit[s.us], s.hd>>

Under(s) == Seek(s.disk[s.us], Track(s))

\* An answer of the drive unit, and the disk as it leaves it.
Took(s, answer) == [s EXCEPT !.result = answer.result, !.disk[s.us] = answer.disk]

-----------------------------------------------------------------------------
(* The commands, each a function of the phase; in the others they do       *)
(* nothing.                                                                *)

Toggle(set, e) == IF e \in set THEN set \ {e} ELSE set \union {e}

\* Mutant: a skipped sector is read again.
SectorReadAgain(s, sector, scan) ==
  IF s.result \ {"CM"} # {} /\ "DD" \notin s.result THEN ShiftToResultPhase7(s)
  ELSE IF "CM" \in s.result /\ s.command.skip THEN SetTimer(s, "execute")
  ELSE IF scan THEN ShiftToExecScanPhase(s, Bytes(s.id.n), sector.data)
  ELSE ShiftToExecReadPhase(s, Bytes(s.id.n))

SectorRead(s, sector, scan) ==
  IF s.result \ {"CM"} # {} /\ "DD" \notin s.result THEN ShiftToResultPhase7(s)
  ELSE IF "CM" \in s.result /\ s.command.skip THEN SetTimer(s, "timer")
  ELSE IF scan THEN ShiftToExecScanPhase(s, Bytes(s.id.n), sector.data)
  ELSE ShiftToExecReadPhase(s, Bytes(s.id.n))

Inverted(s, deleted) == IF deleted THEN [s EXCEPT !.result = Toggle(@, "CM")] ELSE s

ReadThen(s, sector, deleted, scan) == SectorRead(Inverted(Took(s, sector), deleted), sector, scan)

ReadData(s, deleted, scan) ==
  LET check == CheckCondition(s)
  IN IF "MA" \in check THEN SetTimer([s EXCEPT !.result = check], "execute")
     ELSE IF check # {} THEN Fails(s, check)
     ELSE ReadThen(s, ReadSector(Under(s), Flags(s), s.id), deleted, scan)

CmdReadData(s) ==
  CASE s.phase = "idle" -> ShiftToCommandPhase(s, 8)
    [] s.phase = "command" -> SetTimer(GetSectorParameters(s), "execute")
    [] s.phase = "execute" -> ReadData(s, s.command.deleted, FALSE)
    [] s.phase = "execread" -> IF s.result # {} THEN ShiftToResultPhase7(s) ELSE NextSector(s)
    [] s.phase = "tc" -> ShiftToResultPhase7(DelTimer(s))
    [] s.phase = "timer" -> Fails(s, {"AT", "EN"})
    [] OTHER -> s

CmdScanEqual(s) ==
  CASE s.phase = "idle" -> ShiftToCommandPhase(s, 9)
    [] s.phase = "command" -> SetTimer(GetSectorParameters(s), "execute")
    [] s.phase = "execute" -> ReadData(s, FALSE, TRUE)
    [] s.phase = "execscan" -> IF s.result # {} THEN ShiftToResultPhase7(s)
                               ELSE NextSector([s EXCEPT !.phase = "execute"])
    [] s.phase = "tc" -> ShiftToResultPhase7(DelTimer(s))
    [] s.phase = "timer" -> Fails(s, {"EN", "SN"})
    [] OTHER -> s

\* Bytes that did not come before the end of the transfer count as zeros.
Flushed(s) == [s EXCEPT !.buffer = @ \o [i \in 1..s.count |-> Blank]]

WriteData(s) ==
  LET check == CheckCondition(s)
      content == IF s.buffer = <<>> THEN Blank ELSE Last(s.buffer)
  IN IF check # {} THEN Fails(s, check)
     ELSE Took(s, WriteSector(Under(s), Flags(s), s.id, content, s.command.deleted))

SectorToWrite(s) ==
  IF s.result # {} THEN ShiftToResultPhase7(s) ELSE ShiftToExecWritePhase(s, Bytes(s.id.n))

SectorWritten(s) ==
  IF s.result # {} THEN ShiftToResultPhase7(s) ELSE NextSector([s EXCEPT !.phase = "execute"])

CmdWriteData(s) ==
  CASE s.phase = "idle" -> ShiftToCommandPhase(s, 8)
    [] s.phase = "command" -> SetTimer(GetSectorParameters(s), "execute")
    [] s.phase = "execute" ->
         LET check == CheckCondition(s)
         IN IF "MA" \in check THEN SetTimer([s EXCEPT !.result = check], "execute")
            ELSE IF check # {} THEN Fails(s, check)
            ELSE SectorToWrite(Took(s, FindID(Under(s), Flags(s), s.id)))
    [] s.phase = "execwrite" -> SectorWritten(WriteData(s))
    [] s.phase = "tc" /\ s.prev_phase = "execwrite" -> ShiftToResultPhase7(WriteData(Flushed(DelTimer(s))))
    [] s.phase = "tc" /\ s.prev_phase # "execwrite" -> ShiftToResultPhase7(DelTimer(s))
    [] s.phase = "timer" -> Fails(s, {"AT", "EN"})
    [] OTHER -> s

IDRead(s, found) ==
  IF found.sector = 0 THEN Fails([s EXCEPT !.disk[s.us] = found.disk], {"AT", "MA"})
  ELSE Fails([s EXCEPT !.disk[s.us] = found.disk, !.id = Here(found.disk)[found.sector].id], {})

ReadIDNow(s) ==
  IF CheckCondition(s) # {} THEN Fails(s, CheckCondition(s))
  ELSE IDRead(s, ReadID(Under(s), Flags(s)))

IDWanted(s) == SetTimer(s, IF "MA" \in CheckCondition(s) THEN "execute" ELSE "timer")

CmdReadID(s) ==
  CASE s.phase = "idle" -> ShiftToCommandPhase(s, 1)
    [] s.phase = "command" -> IDWanted([s EXCEPT !.us = s.buffer.us, !.hd = s.buffer.hd])
    [] s.phase = "execute" -> IDWanted(s)
    [] s.phase = "timer" -> ReadIDNow(s)
    [] OTHER -> s

WriteIDNow(s) ==
  LET check == CheckCondition(s)
      answer == WriteID(s.disk[s.us], Track(s), Flags(s), s.buffer, s.wid, Blank)
  IN IF check # {} THEN Fails(s, check)
     ELSE ShiftToResultPhase7([Took(s, answer) EXCEPT !.id.n = s.wid])

\* Without a sector to format, the parameters themselves are taken for an ID.
CmdWriteID(s) ==
  LET p == s.buffer
      t == [s EXCEPT !.us = p.us, !.hd = p.hd, !.wid = p.id.n, !.eot = p.eot]
  IN CASE s.phase = "idle" -> ShiftToCommandPhase(s, 5)
       [] s.phase = "command" ->
            IF p.eot # 0 THEN ShiftToExecWritePhase(t, p.eot)
            ELSE SetTimer([t EXCEPT !.buffer = <<[c |-> p.us, h |-> p.id.n, r |-> 0, n |-> 0]>>], "timer")
       [] s.phase \in {"tc", "execwrite"} -> SetTimer([s EXCEPT !.accept_tc = FALSE], "timer")
       [] s.phase = "timer" -> WriteIDNow(s)
       [] OTHER -> s

\* MakeDiagData copies the track once, ReadDiag goes from sector to sector of
\* the copy; diag_at is read_diag_ptr_, 0 when it is null.
ReadDiag(s, next) ==
  [s EXCEPT !.diag_at = next, !.result = IF next # 0 /\ s.diag[next].id = s.id THEN {} ELSE {"ND"}]

NextInDiag(s) == ReadDiag(s, IF s.diag_at < Len(s.diag) THEN s.diag_at + 1 ELSE Least(1, Len(s.diag)))

MakeDiagData(s) ==
  IF Here(s.disk[s.us]) = <<>> THEN Fails(s, {"AT", "ND"})
  ELSE NextInDiag([s EXCEPT !.diag =
         SelectSeq(Here(s.disk[s.us]), LAMBDA e : Density(e.flags) = Flags(s))])

ReadDiagnostic(s) ==
  IF s.diag_at # 0 THEN NextInDiag(s)
  ELSE IF CheckCondition(s) # {} THEN Fails(s, CheckCondition(s))
  ELSE MakeDiagData([s EXCEPT !.disk[s.us] = Under(s)])

\* A transfer longer than the last sector goes on at the start of the copy.
Wraps(s) == s.diag_at = Len(s.diag) /\ s.diag_at # 0 /\ Bytes(s.id.n) > s.diag[s.diag_at].size

DiagToRead(s) ==
  IF "AT" \in s.result THEN ShiftToResultPhase7(s)
  ELSE [ShiftToExecReadPhase(s, Bytes(s.id.n)) EXCEPT !.rest = Wraps(s)]

CmdReadDiagnostic(s) ==
  CASE s.phase = "idle" -> [ShiftToCommandPhase(s, 8) EXCEPT !.diag_at = 0]
    [] s.phase = "command" -> SetTimer(GetSectorParameters(s), "execute")
    [] s.phase = "execute" -> DiagToRead(ReadDiagnostic(s))
    [] s.phase = "execread" ->
         IF s.rest THEN [ShiftToExecReadPhase(s, Bytes(s.id.n)) EXCEPT !.rest = FALSE]
         ELSE NextSector(s)
    [] s.phase = "tc" -> ShiftToResultPhase7(DelTimer(s))
    [] s.phase = "timer" -> Fails(s, {"AT", "EN"})
    [] OTHER -> s

\* Seek, of the code: cylinder is where the head goes, unit where it stands.
SeekTo(s, dr, cy) ==
  IF dr \notin Drives
  THEN [s EXCEPT !.us = dr, !.dresult[dr] = {"SE", "NR", "AT"}, !.intr = TRUE, !.int_requested = TRUE]
  ELSE [s EXCEPT !.us = dr, !.cylinder[dr] = cy, !.seeks[dr] = @ + 1, !.seek_state = @ \union {dr}]

CmdSeek(s) ==
  CASE s.phase = "idle" -> ShiftToCommandPhase(s, 2)
    [] s.phase = "command" -> ShiftToIdlePhase(SeekTo(s, s.buffer.us, s.buffer.id.c))
    [] OTHER -> s

CmdRecalibrate(s) ==
  CASE s.phase = "idle" -> ShiftToCommandPhase(s, 1)
    [] s.phase = "command" -> ShiftToIdlePhase(SeekTo(s, s.buffer.us, 0))
    [] OTHER -> s

CmdSpecify(s) ==
  CASE s.phase = "idle" -> ShiftToCommandPhase(s, 2)
    [] s.phase = "command" -> ShiftToIdlePhase(s)
    [] OTHER -> s

CmdInvalid(s) == ShiftToResultPhase(s, 1)

\* The first drive with a result reports it; without one nothing follows.
CmdSenceIntStatus(s) ==
  LET reporting == {dr \in Addresses : s.dresult[dr] # {}}
      i == Min(reporting)
  IN IF ~s.int_requested THEN ShiftToResultPhase(s, 1)
     ELSE IF reporting = {} THEN [s EXCEPT !.int_requested = FALSE]
     ELSE ShiftToResultPhase([s EXCEPT !.dresult[i] = {}, !.int_requested = reporting # {i}], 2)

CmdSenceDeviceStatus(s) ==
  CASE s.phase = "idle" -> ShiftToCommandPhase(s, 1)
    [] s.phase = "command" -> ShiftToResultPhase([s EXCEPT !.us = s.buffer.us], 1)
    [] OTHER -> s

CommandTable(s) ==
  CASE s.command.op = "ReadData" -> CmdReadData(s)
    [] s.command.op = "WriteData" -> CmdWriteData(s)
    [] s.command.op = "Scan" -> CmdScanEqual(s)
    [] s.command.op = "ReadID" -> CmdReadID(s)
    [] s.command.op = "WriteID" -> CmdWriteID(s)
    [] s.command.op = "ReadDiagnostic" -> CmdReadDiagnostic(s)
    [] s.command.op = "Seek" -> CmdSeek(s)
    [] s.command.op = "Recalibrate" -> CmdRecalibrate(s)
    [] s.command.op = "Specify" -> CmdSpecify(s)
    [] s.command.op = "SenceIntStatus" -> CmdSenceIntStatus(s)
    [] s.command.op = "SenceDeviceStatus" -> CmdSenceDeviceStatus(s)
    [] OTHER -> CmdInvalid(s)

-----------------------------------------------------------------------------
(* What the CPU does: the data register, TC and the ports.                 *)

Accepts(s) == "RQM" \in s.status /\ "DIO" \notin s.status

\* SetData, up to the phase it is for: the byte is taken.
Taken(s) == [s EXCEPT !.status = @ \ {"RQM"}, !.intr = FALSE]

SetCommand(s, command) == CommandTable([Taken(s) EXCEPT !.command = command])

SetParameter(s, p) ==
  IF s.count > 1 THEN [Taken(s) EXCEPT !.count = @ - 1, !.status = @ \union {"RQM"}]
  ELSE CommandTable([Taken(s) EXCEPT !.count = 0, !.buffer = p])

Unequal(s, data) ==
  CASE s.command.scan = "Equal" -> s.buffer[1] # data
    [] s.command.scan = "LowOrEqual" -> s.buffer[1] > data
    [] s.command.scan = "HighOrEqual" -> s.buffer[1] < data

\* One byte of the transfer less; the command goes on after the last.
Moved(s) ==
  IF s.count > 1 THEN [s EXCEPT !.count = @ - 1, !.status = @ \union {"RQM"}, !.intr = TRUE]
  ELSE CommandTable([s EXCEPT !.count = 0, !.status = @ \ {"NDM"}])

Compared(s, data) ==
  IF data # 255 /\ Unequal(s, data) THEN [s EXCEPT !.result = @ \ {"SH"}] ELSE s

\* In a phase that asks for none a byte is taken and forgotten.
SetData(s, data) ==
  CASE s.phase = "execwrite" -> Moved([Taken(s) EXCEPT !.buffer = Append(@, data)])
    [] s.phase = "execscan" -> Moved(Compared(Taken(s), data))
    [] OTHER -> Taken(s)

GetResult(s) ==
  IF s.count > 1 THEN [s EXCEPT !.count = @ - 1, !.status = @ \union {"RQM"}]
  ELSE ShiftToIdlePhase([s EXCEPT !.count = 0])

GetData(s) ==
  CASE s.phase = "execread" -> Moved(Taken(s))
    [] s.phase = "result" -> GetResult(Taken(s))
    [] OTHER -> Taken(s)

TC(s) == CommandTable([s EXCEPT !.prev_phase = s.phase, !.phase = "tc", !.accept_tc = FALSE])

DriveControl(s, mode) == [s EXCEPT !.mode = mode]

\* Mutant: the pending event is not deleted.
ResetKeepsTimer(s) ==
  [DriveControl(ShiftToIdlePhase(s), {}) EXCEPT
     !.int_requested = FALSE, !.intr = FALSE, !.seeks = [dr \in Addresses |-> 0]]

\* Reset clears neither the busy bits of the drives nor their results.
Reset(s) ==
  [DriveControl(ShiftToIdlePhase(s), {}) EXCEPT
     !.int_requested = FALSE, !.intr = FALSE, !.timers = <<>>, !.seeks = [dr \in Addresses |-> 0],
     !.handle = IF @ = "own" THEN "stale" ELSE @]

\* What the buffer holds for a WriteID that no data came for: what it held before.
IDsLeft(s) ==
  IF s.command.op = "WriteID" /\ s.phase \in {"idle", "command", "result"} /\ s.buffer = <<>>
  THEN {<<>>} \union {<<p.id>> : p \in Parameters} ELSE {s.buffer}

PhaseTimer(s, i) ==
  CommandTable([s EXCEPT !.handle = "null", !.timers = RemoveAt(@, i), !.phase = s.timers[i]])

SeekEvent(s, dr) ==
  [s EXCEPT !.seeks[dr] = @ - 1, !.unit[dr] = s.cylinder[dr], !.dresult[dr] = {"SE"},
            !.intr = TRUE, !.int_requested = TRUE, !.seek_state = @ \ {dr}]

\* SaveStatus: the phase of the last timer is saved when there is a handle; only the
\* low byte of the result and only the results of the drives with a unit are.
SaveStatus(s) ==
  [s EXCEPT !.result = @ \intersect {"AT", "NR", "SE", "EC"},
            !.t_phase = IF s.handle = "null" THEN "idle" ELSE @,
            !.dresult = [dr \in Drives |-> @[dr]]]

LoadStatus(s, saved) ==
  [saved EXCEPT
     !.disk = s.disk, !.intr = s.intr, !.given = s.given + 1,
     !.timers = IF saved.t_phase = "idle" THEN <<>> ELSE <<saved.t_phase>>,
     !.handle = IF saved.t_phase # "idle" THEN "own" ELSE IF s.handle = "own" THEN "stale" ELSE s.handle,
     !.seeks = [dr \in Addresses |-> IF dr \in saved.seek_state \cap Drives THEN 1 ELSE 0],
     !.dresult = [dr \in Addresses |-> IF dr \in Drives THEN saved.dresult[dr] ELSE s.dresult[dr]],
     !.unit = [dr \in Drives |-> saved.cylinder[dr]]]

-----------------------------------------------------------------------------
(* What the controller is doing between two handlers.                      *)

SectorCommands == {"ReadData", "WriteData", "Scan", "ReadDiagnostic"}

WithParameters ==
  SectorCommands \union {"ReadID", "WriteID", "Seek", "Recalibrate", "Specify", "SenceDeviceStatus"}

\* A timer will go on with the command.
Waits(s) ==
  /\ "RQM" \notin s.status
  /\ \/ s.command.op \in SectorCommands /\ s.timers \in {<<"execute">>, <<"timer">>}
     \/ s.command.op = "ReadID" /\ s.timers \in {<<"execute">>, <<"timer">>} /\ ~s.accept_tc
     \/ s.command.op = "WriteID" /\ s.timers = <<"timer">> /\ ~s.accept_tc

\* TC has ended a WriteID, which goes on with a timer and may still ask for data.
Ends(s) ==
  s.phase = "tc" /\ s.command.op = "WriteID" /\ s.timers = <<"timer">> /\ ~s.accept_tc

\* The CPU is to give a command, a parameter or a byte, or to take one.
Transfers(s) ==
  /\ s.accept_tc
  /\ \/ /\ s.phase = "execread" /\ "DIO" \in s.status
        /\ s.command.op \in {"ReadData", "ReadDiagnostic"}
     \/ /\ s.phase = "execwrite" /\ "DIO" \notin s.status
        /\ s.command.op \in {"WriteData", "WriteID"}
     \/ s.phase = "execscan" /\ "DIO" \notin s.status /\ s.command.op = "Scan"

Listens(s) ==
  /\ "RQM" \in s.status /\ s.timers = <<>>
  /\ \/ s.phase = "idle" /\ "DIO" \notin s.status /\ ~s.accept_tc
     \/ /\ s.phase = "command" /\ "DIO" \notin s.status /\ ~s.accept_tc
        /\ s.command.op \in WithParameters
     \/ s.phase = "result" /\ "DIO" \in s.status /\ ~s.accept_tc
     \/ Transfers(s)

PowerOn ==
  [phase |-> "idle", prev_phase |-> "idle", status |-> {"RQM"}, intr |-> FALSE,
   accept_tc |-> FALSE, count |-> 0, buffer |-> <<>>, timers |-> <<>>, t_phase |-> "idle",
   handle |-> "null", slot |-> {},
   command |-> [op |-> "Invalid"], us |-> 0, hd |-> 0, id |-> [c |-> 0, h |-> 0, r |-> 0, n |-> 0],
   eot |-> 0, stp |-> 0, wid |-> 0, result |-> {}, diag |-> <<>>, diag_at |-> 0, rest |-> FALSE,
   int_requested |-> FALSE, seek_state |-> {}, seeks |-> [dr \in Addresses |-> 0],
   dresult |-> [dr \in Addresses |-> {}], cylinder |-> [dr \in Addresses |-> 0],
   unit |-> [dr \in Drives |-> 0], mode |-> {}, disk |-> [dr \in Drives |-> NoDisk], given |-> 0]

\* Some drive has what was announced, and TC deletes no event but the pending one.
Reporting(s, drives) == s.int_requested => \E dr \in drives : s.dresult[dr] # {}

Owning(s) == s.accept_tc /\ s.command.op \in SectorCommands => s.handle # "stale"

Settled(s) ==
  /\ Waits(s) \/ Ends(s) \/ Listens(s)
  /\ s.handle = "own" <=> s.timers # <<>>
  /\ s.timers \in {<<>>, <<s.t_phase>>}
  /\ Reporting(s, Addresses) /\ Owning(s)

Coherent == ~misled => Settled(fdc)

\* A disk with all the tracks a program seeks, and its head on one of them or, just
\* put in, on none.
Readable(disk) ==
  /\ DOMAIN disk = {"tracks", "at", "cur", "readonly", "marked"}
  /\ Cylinders \X Heads \subseteq DOMAIN disk.tracks
  /\ \A tr \in DOMAIN disk.tracks : disk.tracks[tr] \in Seq(Range(disk.tracks[tr]))
  /\ disk.at # <<>> => disk.at \in DOMAIN disk.tracks /\ disk.cur \in 0..GetNumSectors(disk)

\* The drives stand on tracks that are there.
Placed(s) ==
  /\ DOMAIN s = DOMAIN PowerOn /\ DOMAIN s.dresult = Addresses
  /\ s.timers \in Seq({"execute", "timer"}) /\ s.t_phase \in {"idle", "execute", "timer"}
  /\ s.us \in Addresses /\ s.hd \in Heads /\ s.wid \in Nat
  /\ s.unit \in [Drives -> Cylinders] /\ s.cylinder \in [Addresses -> Cylinders]
  /\ DOMAIN s.disk = Drives /\ \A dr \in Drives : s.disk[dr] # NoDisk => Readable(s.disk[dr])
  /\ s.diag_at \in 0..Len(s.diag)

\* What a load does not restore: a timer that Reset had stopped, whose phase is saved
\* as if it ran, is started; the result of a drive without a unit is not saved, although
\* it was announced; and a handle from before the load stays, for TC to delete by.
Misleads(s, at) ==
  \/ at.handle # "own" /\ SaveStatus(at).t_phase # "idle"
  \/ ~Reporting(at, Drives)
  \/ ~Owning(LoadStatus(s, SaveStatus(at)))

-----------------------------------------------------------------------------
(* The specification.                                                      *)

ASSUME FdcAssumption ==
  /\ Drives \subseteq Addresses
  /\ TrackCapacity \in Nat
  /\ \A p \in Parameters : p.us \in Addresses /\ p.hd \in Heads /\ p.id.n \in Nat
  /\ \A d \in Disks : Readable(d)
  /\ \A p \in Paused : Placed(p.at) /\ (~p.misled => Settled(p.at))

FdcInit == fdc = PowerOn /\ misled = FALSE

GiveCommand == \E c \in Commands :
  /\ fdc.phase = "idle" /\ Accepts(fdc)
  /\ fdc.given < MaxCommands
  /\ fdc' = [SetCommand(fdc, c) EXCEPT !.given = @ + 1] /\ UNCHANGED misled

GiveParameter == \E p \in Parameters :
  /\ fdc.phase = "command" /\ Accepts(fdc)
  /\ fdc.count > 1 => p = CHOOSE q \in Parameters : TRUE
  /\ fdc.command.op \in {"Seek", "Recalibrate"} => fdc.seeks[p.us] < MaxSeeks
  /\ fdc' = SetParameter(fdc, p) /\ UNCHANGED misled

\* The bytes of an ID to format are taken together.
GiveData ==
  /\ fdc.phase \notin {"idle", "command"} /\ Accepts(fdc)
  /\ \E d \in IF fdc.command.op = "WriteID" THEN {p.id : p \in Parameters} ELSE Data :
       fdc' = SetData(fdc, d)
  /\ UNCHANGED misled

TakeData ==
  /\ {"RQM", "DIO"} \subseteq fdc.status
  /\ fdc' = GetData(fdc) /\ UNCHANGED misled

\* slot says what is in the slot the handle points at only while TC runs.
EndTransfer ==
  /\ fdc.accept_tc
  /\ \E slot \in InSlot(fdc) :
       fdc' = [TC([fdc EXCEPT !.slot = slot]) EXCEPT !.slot = {}]
  /\ UNCHANGED misled

SwitchDrives == \E mode \in DriveModes : fdc' = DriveControl(fdc, mode) /\ UNCHANGED misled

ResetFdc == fdc' = Reset(fdc) /\ misled' = FALSE

TimerFires == \E i \in DOMAIN fdc.timers, ids \in IDsLeft(fdc) :
  fdc' = PhaseTimer([fdc EXCEPT !.buffer = ids], i) /\ UNCHANGED misled

SeekDone == \E dr \in Drives :
  fdc.seeks[dr] > 0 /\ fdc' = SeekEvent(fdc, dr) /\ UNCHANGED misled

\* The drives hold what DiskManager puts in and takes out.
ChangeDisk == \E dr \in Drives, d \in Disks \union {NoDisk} :
  /\ (fdc.disk[dr] = NoDisk) # (d = NoDisk)
  /\ fdc' = [fdc EXCEPT !.disk[dr] = d] /\ UNCHANGED misled

LoadSnapshot == \E p \in Paused :
  /\ fdc.given < MaxCommands
  /\ fdc' = LoadStatus(fdc, SaveStatus(p.at))
  /\ misled' = (p.misled \/ Misleads(fdc, p.at))

CpuServes == GiveParameter \/ GiveData \/ TakeData

FdcNext ==
  \/ GiveCommand \/ CpuServes \/ EndTransfer \/ SwitchDrives \/ ResetFdc
  \/ TimerFires \/ SeekDone \/ ChangeDisk \/ LoadSnapshot

\* The scheduler runs its events; the program of the sub CPU completes the
\* commands it has begun.
FdcFairness ==
  /\ []<>(fdc.timers = <<>>) \/ []<><<TimerFires>>_fdcVars
  /\ []<>(\A dr \in Drives : fdc.seeks[dr] = 0) \/ []<><<SeekDone>>_fdcVars
  /\ []<>(fdc.phase = "idle" \/ "RQM" \notin fdc.status) \/ []<><<CpuServes>>_fdcVars

FdcSpec == FdcInit /\ [][FdcNext]_fdcVars /\ FdcFairness

-----------------------------------------------------------------------------
(* Properties.                                                             *)

\* The controller is never mute: it listens to the CPU or waits for one timer,
\* so no command, retry, end of transfer or reset leaves it with neither or with
\* two, nor with both but for the end of the transfer of WriteID; when it has announced
\* an interrupt there is a drive whose result SenceIntStatus reports; and the TC of a
\* transfer deletes no event but its own.  From the load of a snapshot that misleads
\* it to the next Reset none of this is so.
FdcAlive == ~misled =>
  /\ "RQM" \in fdc.status \/ fdc.timers # <<>>
  /\ "RQM" \in fdc.status /\ fdc.timers # <<>> => fdc.phase = "tc"
  /\ Len(fdc.timers) <= 1
  /\ fdc.int_requested => \E dr \in Addresses : fdc.dresult[dr] # {}
  /\ fdc.accept_tc /\ fdc.command.op \in SectorCommands => fdc.handle # "stale"

\* The head never stands on a sector that is not there any more: what a search, a
\* format or a sector that grew over those behind it leaves in cur_sector_ is a
\* sector of the track under the head, and the copy of a track that ReadDiagnostic
\* goes through has the sector it stands at.
HeadOnTrack ==
  /\ \A dr \in Drives : LET disk == fdc.disk[dr] IN
       /\ disk # NoDisk /\ disk.at # <<>> => disk.cur \in 0..GetNumSectors(disk)
  /\ fdc.diag_at \in 0..Len(fdc.diag)

\* A disk never changes in a drive whose tab is set, and a change of one of its first
\* tracks marks it to be written back when it is taken out; except by a write that
\* runs over the end of the track, which Resize lets destroy sectors unmarked.
\* Modified takes no notice of the last tracks: what is written there alone is lost.
Overruns(s) ==
  s.command.op = "WriteData" /\ \E e \in Range(Here(Under(s))) : e.id = s.id /\ e.size < Bytes(s.id.n)

ChangesMarked == [][\A dr \in Drives :
  fdc.disk[dr] # NoDisk /\ fdc'.disk[dr] # NoDisk =>
    \A tr \in DOMAIN fdc.disk[dr].tracks : fdc'.disk[dr].tracks[tr] # fdc.disk[dr].tracks[tr] =>
      /\ ~fdc.disk[dr].readonly
      /\ Number(tr) < MarkedTracks => fdc'.disk[dr].marked \/ Overruns(fdc)]_fdc

\* Every command the CPU completes ends, whatever is on the disk and although the
\* disk is taken out and put in again, unless the drive is found empty or a snapshot
\* was loaded that the controller cannot go on from.
FdcCommandEnds ==
  fdc.phase # "idle" ~>
    fdc.phase = "idle" \/ misled \/ \E dr \in Drives : fdc.disk[dr] = NoDisk
====

---- MODULE CDIF ----
(***************************************************************************)
(* The CD-ROM interface (modules/cdif/src/cdif.cpp, cdctrl.cpp).  Its      *)
(* ports run a handshake on the emulation thread; what takes time is       *)
(* posted to the thread of the drive, which calls Done when it is over.    *)
(* There is no lock between the two.  A program may call any port at any   *)
(* time; whether it has kept to what the status register asks for is       *)
(* remembered in world.inTurn.  Ports 92, 93, 96, 99, 9b and 9d read       *)
(* constants, writes to 97 and 99 and to 94 without bit 7 do nothing, and  *)
(* reading 90 returns the status register.                                 *)
(***************************************************************************)
EXTENDS Integers, Sequences

CONSTANTS
  ShortSize, LongSize,   \* bytes of a command below 0x80, and of the others: 6 and 10
  ModeSize,              \* bytes SetReadMode receives: 11
  ModeAt,                \* which of them is the read mode: 4; the last is the retry count
  SectorSize, RawSize,   \* bytes of a sector read in mode 0, and in the others: 2048 and 2340
  MostBytes,             \* of the subcode that are sent at most: 10
  Retries,               \* retry counts and read modes a program sets
  Arguments,             \* second bytes of commands
  MaxOrders,             \* bound: commands a program begins
  LengthValues,          \* values of the length in a snapshot: 65536
  MaxUnusual             \* bound: resets of the drive, calls out of turn, snapshots saved and loaded
ASSUME CdAssumption ==
  /\ {ShortSize, LongSize, ModeSize, MostBytes, LengthValues, SectorSize, RawSize} \subseteq Nat \ {0}
  /\ ModeAt \in Nat
  /\ Retries \subseteq Nat /\ Arguments \subseteq Nat
  /\ MaxOrders \in Nat /\ MaxUnusual \in Nat

SelectByte == 129        \* 0x81, the byte that selects the drive
CheckDrive == 0
ReadData == 8
SetModeCommand == 21
Search == 216
Play == 217
StopPlay == 218
Subcode == 221
Toc == 222
Unknown == 1
CommandCodes == {CheckDrive, ReadData, SetModeCommand, Search, Play, StopPlay, Subcode, Toc, Unknown}

VARIABLES
  cd,           \* the interface; status is the set of the bits that are on
  queue,        \* what SendCommand has posted to the thread of the drive
  drive,        \* that thread: "waits", or "answers" once Done has seen the wait phase
  discPresent,  \* disc_present_, of that thread
  ending,       \* CDControl::CleanUp: "no", or how far it and the thread have come
  sectorSent,   \* bytes of the transfer requested last on channel 1 of the DMA controller
  world         \* counts of what has been done; inTurn; the snapshot, and whether it was in turn
cdvars == <<cd, queue, drive, discPresent, ending, sectorSent, world>>

Mode == {8, 16, 32}
RequestBit == 64
Busy == 128

-----------------------------------------------------------------------------
(* The phases.  r is the interface and the queue after a call, and what it  *)
(* has asked the DMA controller for; inside tells what the emulation thread *)
(* has yet to do before its call returns.                                   *)

R(c, q) == [cd |-> c, queue |-> q, sent |-> 0]
ResultPhase(c, res) == [c EXCEPT !.data = res, !.status = @ \union {8, 16, RequestBit}, !.phase = "Result"]
CdSendPhase(c, bytes, first) ==
  [c EXCEPT !.rslt = 0, !.phase = "Send", !.length = bytes - 1, !.status = @ \union {8, RequestBit}, !.data = first]
CdRecvPhase(c, bytes) == [c EXCEPT !.phase = "Recv", !.length = bytes, !.status = @ \union {RequestBit}]
SendCommand(c, q, order) == R([c EXCEPT !.phase = "Wait"], Append(q, order))
Answer(c, q) == R(ResultPhase(c, 0), q)
Same(c, q) == R(c, q)

-----------------------------------------------------------------------------
(* The commands.  m is what the drive says: whether the track asked for     *)
(* exists, what its audio does, and the byte that is sent first; of a byte  *)
(* only that it may be SelectByte, which Out90 looks for, is told apart.    *)

DriveBytes == {0, SelectByte}
Media == [found : BOOLEAN, audio : {"plays", "paused", "else"}, byte : DriveBytes]

\* Each read that has failed is tried again, up to the count the program has set.
TryToRead(c, q) ==
  IF c.length > 0 THEN SendCommand([c EXCEPT !.length = @ - 1], q, IF c.readMode # 0 THEN "read2" ELSE "read1")
  ELSE Answer([c EXCEPT !.length = @ - 1], q)

\* The sector goes to the memory by channel 1 of the DMA controller.
Transfer(c, q) == [Answer(c, q) EXCEPT !.sent = IF c.readMode # 0 THEN RawSize ELSE SectorSize]

ReadSector(c, q) ==
  CASE c.phase = "Exec" -> TryToRead([c EXCEPT !.sector = c.arg, !.length = c.retry + 1, !.rslt = 0], q)
    [] c.phase = "Wait" /\ c.rslt = 0 -> TryToRead(c, q)
    [] c.phase = "Wait" /\ c.rslt # 0 -> Transfer(c, q)
    [] OTHER -> Same(c, q)

SetReadMode(c, q) ==
  CASE c.phase = "Exec" -> R(CdRecvPhase(c, ModeSize), q)
    [] c.phase = "Recv" -> Answer([c EXCEPT !.retry = c.last, !.readMode = c.fifth], q)
    [] OTHER -> Same(c, q)

\* The still mode is set after the order is posted: see StillModeSet.
TrackSearch(c, q) ==
  CASE c.phase = "Exec" -> SendCommand([c EXCEPT !.addrs = "asked", !.inside = IF c.arg % 2 = 1 THEN "still2" ELSE "still0"],
                                       q, "playAudio")
    [] c.phase = "Wait" /\ c.still = 0 -> SendCommand([c EXCEPT !.still = 2], q, "pause")
    [] c.phase = "Wait" /\ c.still # 0 -> Answer(c, q)
    [] OTHER -> Same(c, q)

\* The orders that are answered when they are done.
Simple(c, q, order) ==
  CASE c.phase = "Exec" -> SendCommand(c, q, order)
    [] c.phase = "Wait" -> Answer(c, q)
    [] OTHER -> Same(c, q)

PlayStart(c, q) == Simple(c, q, "playAudio")
CheckDriveStatus(c, q) == Simple(c, q, "checkDisc")

\* CDControl::GetTime asks the drive only when there is a disc.
DiscTime == IF discPresent THEN "heard" ELSE "zero"
PlayStop(c, q) ==
  Simple(IF c.phase = "Exec" THEN [c EXCEPT !.addrs = DiscTime, !.inside = "still1"] ELSE c, q, "pause")

AudioStatus(c, m) == CASE m.audio = "plays" -> 0 [] m.audio = "paused" -> c.still [] OTHER -> 3
ReadSubcodeQ(c, q, m) ==
  CASE c.phase = "Exec" -> SendCommand(c, q, "readSubCodeq")
    [] c.phase = "Wait" -> R(CdSendPhase(c, IF c.arg < MostBytes THEN c.arg ELSE MostBytes, AudioStatus(c, m)), q)
    [] OTHER -> Same(c, q)

ReadTOC(c, q, m) ==
  CASE c.phase = "Exec" ->
         IF c.arg = 0 THEN SendCommand(c, q, "readTOC")
         ELSE IF c.arg = 1 \/ (c.arg = 2 /\ m.found) THEN R(CdSendPhase(c, 4, m.byte), q)
         ELSE Answer(c, q)
    [] c.phase = "Wait" -> R(CdSendPhase(c, 4, IF m.found THEN 1 ELSE 0), q)
    [] OTHER -> Same(c, q)

ProcessCommand(c, q, m) ==
  CASE c.cmd = CheckDrive -> CheckDriveStatus(c, q)
    [] c.cmd = ReadData -> ReadSector(c, q)
    [] c.cmd = SetModeCommand -> SetReadMode(c, q)
    [] c.cmd = Search -> TrackSearch(c, q)
    [] c.cmd = Play -> PlayStart(c, q)
    [] c.cmd = StopPlay -> PlayStop(c, q)
    [] c.cmd = Subcode -> ReadSubcodeQ(c, q, m)
    [] c.cmd = Toc -> ReadTOC(c, q, m)
    [] OTHER -> Answer(c, q)

-----------------------------------------------------------------------------
(* Bytes across port 0x91.  The last byte of a command or of its data makes  *)
(* the call process the command, which is a step of its own: CallProcesses.  *)

CommandSize(byte) == IF byte < 128 THEN ShortSize ELSE LongSize

\* A byte of a command: the first says how many follow, the second is its argument.
Parameter(c) ==
  LET first == c.phase = "Cmd2"
      size == CommandSize(IF first THEN c.data ELSE c.cmd)
      left == IF first THEN size ELSE c.length
      got == [c EXCEPT !.cmd = IF first THEN c.data ELSE @, !.arg = IF left = size - 1 THEN c.data ELSE @,
                       !.phase = "Param", !.length = left - 1]
  IN IF left > 1 THEN [got EXCEPT !.status = @ \union {16, RequestBit}]
     ELSE [got EXCEPT !.phase = "Exec", !.inside = "process"]

DataOut(before) ==
  LET mode == before.status \intersect Mode
      c == [before EXCEPT !.status = @ \ (Mode \union {RequestBit})]
      into == c.phase = "Recv"
      taken == [c EXCEPT !.length = @ - 1, !.last = IF into /\ c.length = 1 THEN c.data ELSE @,
                         !.fifth = IF into /\ c.length = ModeSize - ModeAt THEN c.data ELSE @]
  IN CASE mode = {} /\ c.length > 1 -> [taken EXCEPT !.status = @ \union {RequestBit}]
       [] mode = {} /\ c.length <= 1 -> [taken EXCEPT !.inside = "process"]
       [] mode = {16} /\ c.phase \in {"Cmd2", "Param"} -> Parameter(c)
       [] OTHER -> c

\* next is the byte that follows in the buffer.
DataIn(before, next) ==
  LET mode == before.status \intersect Mode
      c == [before EXCEPT !.status = @ \ (Mode \union {RequestBit})]
      sent == [c EXCEPT !.length = @ - 1]
  IN CASE mode = {8} /\ c.length > 0 -> [sent EXCEPT !.status = @ \union {8, RequestBit}, !.data = next]
       [] mode = {8} /\ c.length <= 0 -> ResultPhase(sent, c.rslt)
       [] mode = {8, 16} -> [c EXCEPT !.data = 0, !.phase = "Status", !.status = @ \union Mode \union {RequestBit}]
       [] mode = Mode -> [c EXCEPT !.data = 0, !.phase = "Idle", !.status = {}]
       [] OTHER -> c

-----------------------------------------------------------------------------
(* The ports, called by the program on the emulation thread. *)

Returned == cd.inside = "no" /\ ending = "no"
driveSide == <<drive, discPresent, ending, sectorSent>>

Out90(on) ==
  /\ Returned
  /\ cd' = CASE on /\ cd.active /\ cd.data = SelectByte ->
                 [cd EXCEPT !.status = (@ \union {RequestBit, 1}) \ (Mode \union {Busy}), !.phase = "Cmd1"]
             [] on /\ ~(cd.active /\ cd.data = SelectByte) -> cd
             [] ~on /\ cd.phase = "Cmd1" ->
                  [cd EXCEPT !.phase = "Cmd2", !.status = (@ \ (Mode \union {1})) \union {Busy, RequestBit, 16}]
             [] OTHER -> [cd EXCEPT !.status = @ \ {1}]
  /\ UNCHANGED <<queue, driveSide, world>>

\* What a byte does, whatever it is, is told apart by these at each point.
BytesToldApart ==
  CASE Busy \notin cd.status -> {0, SelectByte}
    [] Busy \in cd.status /\ cd.phase = "Cmd2" -> CommandCodes
    [] Busy \in cd.status /\ cd.phase = "Param" /\ cd.length = CommandSize(cd.cmd) - 1 -> Arguments
    [] Busy \in cd.status /\ cd.phase = "Recv" /\ cd.length \in {1, ModeSize - ModeAt} -> Retries
    [] OTHER -> {0}

\* The program reads the status register before each byte: a busy interface asks for one
\* with the request bit, and bit 3 tells the direction.  Other calls are out of turn.
AsAsked(in) == Busy \in cd.status => RequestBit \in cd.status /\ (8 \in cd.status <=> in)
Turn(w, in) == IF AsAsked(in) THEN w ELSE [w EXCEPT !.inTurn = FALSE, !.unusual = @ + 1]
StraysBound(in) == AsAsked(in) \/ world.unusual < MaxUnusual

Out91 == \E d \in BytesToldApart :
  LET given == [cd EXCEPT !.data = d]
      begins == Busy \in cd.status /\ cd.phase = "Cmd2"
  IN /\ Returned /\ StraysBound(FALSE)
     /\ begins => world.orders < MaxOrders
     /\ cd' = IF Busy \in cd.status THEN DataOut(given) ELSE given
     /\ world' = Turn([world EXCEPT !.orders = IF begins THEN @ + 1 ELSE @], FALSE)
     /\ UNCHANGED <<queue, driveSide>>

\* A call of In91, which first fetches the byte that is there.
In91 == \E next \in DriveBytes :
  /\ Returned /\ StraysBound(TRUE)
  /\ cd' = IF Busy \in cd.status THEN DataIn(cd, next) ELSE cd
  /\ world' = Turn(world, TRUE)
  /\ UNCHANGED <<queue, driveSide>>

\* What a processed command asks the DMA controller for.
Requests(r) == sectorSent' = IF r.sent # 0 THEN r.sent ELSE sectorSent

\* The call of Out91 goes on: it processes the command, in whatever phase it is by now.
CallProcesses == \E m \in Media :
  LET r == ProcessCommand([cd EXCEPT !.inside = "no"], queue, m)
  IN /\ cd.inside = "process"
     /\ cd' = r.cd /\ queue' = r.queue /\ Requests(r)
     /\ UNCHANGED <<drive, discPresent, ending, world>>

\* It sets the still mode after it has posted the order.
Settled(c) ==
  [c EXCEPT !.inside = "no",
            !.still = CASE c.inside = "still0" -> 0 [] c.inside = "still1" -> 1 [] c.inside = "still2" -> 2 [] OTHER -> @]
StillModeSet ==
  /\ cd.inside \in {"still0", "still1", "still2"}
  /\ cd' = Settled(cd)
  /\ UNCHANGED <<queue, driveSide, world>>

CdCleared(c) == [c EXCEPT !.status = {}, !.data = 0, !.phase = "Idle", !.playMode = 0, !.addrs = "zero", !.still = 0]

\* Out94 with bit 7: the program resets the drive; the order that stops it is not answered.
CdReset ==
  /\ Returned /\ world.unusual < MaxUnusual
  /\ cd' = CdCleared(cd)
  /\ queue' = Append(queue, "stop")
  /\ world' = [world EXCEPT !.unusual = @ + 1, !.inTurn = TRUE]
  /\ UNCHANGED driveSide

Out9f(on) ==
  /\ Returned
  /\ cd' = IF cd.enable THEN [cd EXCEPT !.active = on] ELSE cd
  /\ UNCHANGED <<queue, driveSide, world>>

\* The register of the play mode, and reading it, which turns a clock bit.
Out98 ==
  /\ Returned /\ world.unusual < MaxUnusual
  /\ cd' = [cd EXCEPT !.playMode = 1]
  /\ world' = [world EXCEPT !.unusual = @ + 1]
  /\ UNCHANGED <<queue, driveSide>>
In98 ==
  /\ Returned /\ world.unusual < MaxUnusual
  /\ cd' = IF cd.enable THEN [cd EXCEPT !.clk = ~@] ELSE cd
  /\ world' = [world EXCEPT !.unusual = @ + 1]
  /\ UNCHANGED <<queue, driveSide>>

\* The machine is reset into a mode with the drive, or without.
SystemReset(on) ==
  /\ Returned
  /\ cd' = [cd EXCEPT !.enable = on]
  /\ UNCHANGED <<queue, driveSide, world>>

-----------------------------------------------------------------------------
(* The thread of the drive.  Done is two steps: it stores the answer and     *)
(* sees the wait phase, then processes the command, whatever it is by then.  *)

Answered(c, ret) == [c EXCEPT !.rslt = ret]

\* Mutant: an order that failed is taken for one that will be tried again.
DoneSeesSuccess(ret) == IF cd.phase = "Wait" /\ ret # 0 THEN "answers" ELSE "waits"

\* Done, up to the test of the phase.
DoneSees(ret) == IF cd.phase = "Wait" THEN "answers" ELSE "waits"

\* What CDROM returns: ExecuteSCSICommand never gives a negative result, which is what
\* reads, pauses and stops take for a failure.
Reports(order) == IF order \in {"playAudio", "checkDisc", "readTOC"} THEN {0, 1} ELSE {1}

\* The disc is noticed by reading its contents, and missed by a check that fails.
DiscAfter(order, ret) ==
  CASE order = "readTOC" -> {discPresent \/ ret = 1}
    [] order = "checkDisc" /\ discPresent -> {ret = 1}
    [] order = "checkDisc" /\ ~discPresent /\ ret = 1 -> BOOLEAN
    [] OTHER -> {discPresent}

ExecCommand == \E ret \in {0, 1} :
  /\ drive = "waits" /\ queue # <<>> /\ ending \in {"no", "posted"}
  /\ ret \in Reports(Head(queue))
  /\ queue' = Tail(queue)
  /\ IF Head(queue) = "stop" THEN UNCHANGED <<cd, drive, discPresent>>
     ELSE cd' = Answered(cd, ret) /\ drive' = DoneSees(ret) /\ discPresent' \in DiscAfter(Head(queue), ret)
  /\ UNCHANGED <<ending, sectorSent, world>>

DoneProcesses == \E m \in Media :
  LET r == ProcessCommand([cd EXCEPT !.inside = "no"], queue, m)
  IN /\ drive = "answers"
     /\ cd' = [Settled(r.cd) EXCEPT !.inside = cd.inside]
     /\ queue' = r.queue /\ drive' = "waits" /\ Requests(r)
     /\ UNCHANGED <<discPresent, ending, world>>

\* CDControl::CleanUp posts an order, which unlike that of a reset is answered, and then
\* asks the thread to end.  The thread looks for that before it fetches an order, so that
\* one that has come back for the next order by then waits for ever: it is terminated
\* after three seconds, and has not said that it stopped.
CleanUpPosts ==
  /\ Returned /\ world.unusual < MaxUnusual
  /\ queue' = Append(queue, "halt") /\ ending' = "posted"
  /\ UNCHANGED <<cd, drive, discPresent, sectorSent, world>>
RequestThreadStop ==
  /\ ending = "posted"
  /\ ending' \in IF queue = <<>> /\ drive = "waits" THEN {"stopped", "stuck"} ELSE {"requested"}
  /\ UNCHANGED <<cd, queue, drive, discPresent, sectorSent, world>>
ThreadEnds ==
  /\ ending = "requested" /\ drive = "waits"
  /\ queue' \in {queue} \union (IF queue = <<>> THEN {} ELSE {Tail(queue)})
  /\ ending' = "stopped"
  /\ UNCHANGED <<cd, drive, discPresent, sectorSent, world>>
Terminated ==
  /\ ending = "stuck" /\ ending' = "terminated"
  /\ UNCHANGED <<cd, queue, drive, discPresent, sectorSent, world>>

-----------------------------------------------------------------------------
(* Snapshots, taken and loaded between two calls: active, enable, the read  *)
(* mode, the clock bit, what the drive is doing and what has been posted to *)
(* it are not in them; the length has 16 bits there.                        *)

CdSaveStatus(c) == [c EXCEPT !.length = @ % LengthValues]
CdLoadStatus(s) == [s EXCEPT !.active = cd.active, !.enable = cd.enable, !.readMode = cd.readMode, !.clk = cd.clk]

CdSave ==
  /\ Returned /\ world.unusual < MaxUnusual
  /\ world' = [world EXCEPT !.unusual = @ + 1, !.saved = <<CdSaveStatus(cd)>>, !.savedInTurn = world.inTurn /\ cd.phase # "Wait"]
  /\ UNCHANGED <<cd, queue, driveSide>>

CdLoad ==
  /\ Returned /\ world.unusual < MaxUnusual /\ world.saved # <<>>
  /\ cd' = CdLoadStatus(world.saved[1])
  /\ world' = [world EXCEPT !.unusual = @ + 1, !.inTurn = world.savedInTurn]
  /\ UNCHANGED <<queue, driveSide>>

\* CDIF::Init, and CDROMModule::Init, which enables the interface.
CdInit ==
  /\ cd = [phase |-> "Idle", status |-> {}, data |-> 0, length |-> 0, cmd |-> 0, arg |-> 0, last |-> 0, fifth |-> 0,
           rslt |-> 0, retry |-> 0, readMode |-> 0, sector |-> 0, still |-> 0, addrs |-> "unset", playMode |-> 0,
           clk |-> FALSE, inside |-> "no", active |-> FALSE, enable |-> TRUE]
  /\ queue = <<>> /\ drive = "waits" /\ discPresent = FALSE /\ ending = "no" /\ sectorSent = 0
  /\ world = [orders |-> 0, unusual |-> 0, inTurn |-> TRUE, saved |-> <<>>, savedInTurn |-> TRUE]

CdNext ==
  \/ \E on \in BOOLEAN : Out90(on) \/ Out9f(on) \/ SystemReset(on)
  \/ Out91 \/ In91 \/ CallProcesses \/ StillModeSet \/ CdReset \/ Out98 \/ In98
  \/ ExecCommand \/ DoneProcesses
  \/ CleanUpPosts \/ RequestThreadStop \/ ThreadEnds \/ Terminated
  \/ CdSave \/ CdLoad

CdSpec == CdInit /\ [][CdNext]_cdvars

-----------------------------------------------------------------------------
\* A busy interface leaves nobody waiting for ever: it asks the program for a byte, or
\* it waits for the drive and an order that the drive answers is posted or is being
\* answered, through orders that fail, resets in the middle of a command and late answers
\* (CDIF::SendCommand, Done, DataOut, DataIn), until the machine is closed.  It is promised to a program that moves
\* bytes as the status register asks and, after a call out of turn or a snapshot that
\* was taken while the drive worked, again from the next reset on.
SomebodyActs ==
  Busy \in cd.status /\ world.inTurn /\ ending \in {"no", "posted"} =>
    \/ cd.inside # "no"
    \/ RequestBit \in cd.status
    \/ cd.phase = "Wait" /\ (drive = "answers" \/ \E i \in 1 .. Len(queue) : queue[i] # "stop")
====

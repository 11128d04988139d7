---- MODULE MCFloppy ----
(***************************************************************************)
(* Three parts of the disk system share a run: the controller with its     *)
(* disks (FDC), the disk manager with its image files (Disks) and the      *)
(* ports between the CPUs (SubSystem).  Their variables are independent,   *)
(* so a behaviour is one of the part that part says, and the others rest.  *)
(***************************************************************************)
EXTENDS FDC, Disks, SubSystem

Id(c, h, r, n) == [c |-> c, h |-> h, r |-> r, n |-> n]
Sector(id, size, flags) == [id |-> id, size |-> size, flags |-> flags, data |-> 0]
MCTracks == [t \in {0, 1} \X {0, 1} |->
  CASE t = <<0, 0>> -> << Sector(Id(0, 0, 1, 1), 256, {"MFM"}), Sector(Id(0, 0, 2, 1), 256, {"MFM", "Deleted"}) >>
    [] t = <<0, 1>> -> << Sector(Id(1, 1, 1, 2), 256, {"MFM"}), Sector(Id(0, 1, 2, 1), 256, {"MFM", "CRC"}) >>
    [] OTHER -> <<>>]
MCDisk(ro) == [tracks |-> MCTracks, at |-> <<>>, cur |-> 0, readonly |-> ro, marked |-> FALSE]
MCDisks == {MCDisk(FALSE), MCDisk(TRUE)}

Cmd(op, deleted, mt, scan) ==
  [op |-> op, deleted |-> deleted, mt |-> mt, density |-> {"MFM"}, skip |-> deleted, scan |-> scan]
MCCommands ==
  { Cmd(op, FALSE, FALSE, "Equal") : op \in {"ReadID", "WriteID", "ReadDiagnostic", "Seek",
      "Recalibrate", "Specify", "SenceIntStatus", "SenceDeviceStatus", "Invalid"} }
  \union { Cmd("ReadData", FALSE, TRUE, "Equal"), Cmd("ReadData", TRUE, FALSE, "Equal"),
      Cmd("WriteData", TRUE, FALSE, "Equal"), Cmd("Scan", FALSE, FALSE, "LowOrEqual") }
Par(us, hd, id, eot, stp) == [us |-> us, hd |-> hd, id |-> id, eot |-> eot, stp |-> stp]
MCParameters == { Par(0, 0, Id(0, 0, 1, 1), 2, 1), Par(0, 1, Id(1, 1, 1, 2), 1, 2), Par(2, 0, Id(1, 0, 1, 1), 0, 1) }
\* Saved while the drive is awaited, in the middle of a transfer (also one that began
\* during a seek), during a seek; and where a load misleads the controller: after Reset
\* has stopped a timer, and after a seek of a drive that is not there.
Read == Cmd("ReadData", FALSE, TRUE, "Equal")
Given(s, c, p) == SetParameter(IF Few = 1 THEN SetCommand(s, c) ELSE SetParameter(SetCommand(s, c), p), p)
Waiting == Given(PowerOn, Read, Par(0, 0, Id(0, 0, 1, 1), 2, 1))
Transferring == PhaseTimer([Waiting EXCEPT !.disk[0] = MCDisk(FALSE)], 1)
Seeking == Given(PowerOn, Cmd("Seek", FALSE, FALSE, "Equal"), Par(0, 1, Id(1, 1, 1, 2), 1, 2))
Failed == Given(PowerOn, Cmd("Seek", FALSE, FALSE, "Equal"), Par(2, 0, Id(1, 0, 1, 1), 0, 1))
Identifying == Given([PowerOn EXCEPT !.disk[0] = MCDisk(FALSE)],
  Cmd("ReadID", FALSE, FALSE, "Equal"), Par(0, 0, Id(0, 0, 1, 1), 2, 1))
\* As Reset leaves a controller without seeks.
Stopped(s) == [ShiftToIdlePhase(s) EXCEPT !.timers = <<>>, !.handle = "stale"]
MCPaused == [at : {Waiting, Transferring, [Transferring EXCEPT !.seek_state = {0}, !.seeks[0] = 1],
                   Seeking, Failed, Stopped(Waiting), Stopped(Identifying)}, misled : {FALSE}]

MCImages == [f \in {"two.d88", "new.d88"} |->
  IF f = "two.d88" THEN Cells(2, 1) \o Cells(1, 2) ELSE Absent]
MCSavedDisks == {<<0, 1>>, <<1, -1>>, <<0, 0>>}

\* The usual handshake: the sub CPU has sent a byte, the main CPU is to fetch it.
MCSent == [SubPowerOn EXCEPT
  !.main = SetBit(Control(@, {"A", "CH"}), 1, TRUE),
  !.sub = SetBit(PioSetData(Control(@, {"B", "CH"}), 1, 1), 0, TRUE), !.idle = 1]
MCSavedSub == {SubPowerOn, MCSent}

VARIABLE part

vars == <<fdc, misled, dm, sub, part>>

Init == FdcInit /\ DisksInit /\ SubInit /\ part \in {"fdc", "disks", "ports"}

Next ==
  \/ part = "fdc" /\ FdcNext /\ UNCHANGED <<dm, sub, part>>
  \/ part = "disks" /\ DisksNext /\ UNCHANGED <<fdcVars, sub, part>>
  \/ part = "ports" /\ SubNext /\ UNCHANGED <<fdcVars, dm, part>>

Spec == Init /\ [][Next]_vars /\ FdcFairness

-----------------------------------------------------------------------------
(* The searches as the loops of the code, which the operators of Floppy give *)
(* in closed form.                                                           *)

GetSector(disk) == [sector |-> UnderHead(disk),
                    disk |-> IF UnderHead(disk) = 0 THEN disk ELSE At(disk, UnderHead(disk))]

RECURSIVE ReadIDLoop(_, _, _)
ReadIDLoop(disk, density, i) ==
  LET got == GetSector(disk)
  IN IF i = 0 \/ got.sector = 0 THEN [sector |-> 0, disk |-> IndexHole(disk)]
     ELSE IF Density(Here(disk)[got.sector].flags) = density THEN got
     ELSE ReadIDLoop(got.disk, density, i - 1)

RECURSIVE SearchLoop(_, _, _, _, _)
SearchLoop(disk, density, id, i, cy) ==
  LET got == ReadIDLoop(disk, density, GetNumSectors(disk))
      rid == Here(disk)[got.sector].id
  IN IF i = 0 THEN [hit |-> 0, disk |-> IndexHole(disk), cy |-> cy]
     ELSE IF got.sector = 0 THEN [hit |-> 0, disk |-> got.disk, cy |-> -1]
     ELSE IF rid = id THEN [hit |-> got.sector, disk |-> got.disk, cy |-> rid.c]
     ELSE SearchLoop(got.disk, density, id, i - 1, rid.c)

Following(disk, i) == IF i = 0 THEN IF Here(disk) = <<>> THEN 0 ELSE 1 ELSE After(disk, i)

RECURSIVE FindIDLoop(_, _, _, _)
FindIDLoop(disk, density, id, i) ==
  IF i # 0 /\ Here(disk)[i].id = id /\ Density(Here(disk)[i].flags) = density THEN i
  ELSE IF Following(disk, i) = disk.cur THEN 0 ELSE FindIDLoop(disk, density, id, Following(disk, i))

IDs == {Id(0, 0, 1, 1), Id(1, 0, 2, 1)}
SmallTracks == UNION {[1..n -> {Sector(i, 256, f) : i \in IDs, f \in {{}, {"MFM"}}}] : n \in 0..3}
SmallDisks == UNION {
  {[tracks |-> <<t>>, at |-> 1, cur |-> c, readonly |-> FALSE, marked |-> FALSE] : c \in 0..Len(t)} :
  t \in SmallTracks}

\* One turn of ReadID, and the whole search of ReadSector, find what their loops
\* find and leave the head where they leave it; FindID, of the code, stops on the
\* sector its loop stops on, if there is one.
ASSUME SearchesAreTheLoops ==
  \A disk \in SmallDisks, id \in IDs :
    /\ ReadID(disk, {}) = ReadIDLoop(disk, {}, GetNumSectors(disk))
    /\ Search(disk, {}, id) = SearchLoop(disk, {}, id, GetNumSectors(disk), -1)
    /\ LET found == FindIDLoop(disk, {}, id, disk.cur)
       IN /\ (FindID(disk, {}, id).result = {}) = (found # 0)
          /\ found # 0 => FindID(disk, {}, id).disk.cur = found
====

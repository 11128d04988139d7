---- MODULE DeviceProofs ----
(***************************************************************************)
(* Proofs about five devices, whatever the sizes of commands, blocks and   *)
(* bytes, the tapes, the masks, the keys, the times, the ports and the     *)
(* bounds.                                                                 *)
(*                                                                         *)
(* The CD-ROM interface never leaves a program that follows the status     *)
(* register waiting for nobody; the line of the interrupt controller       *)
(* always tells whether a request is let through; the files of the host    *)
(* cross the ports of the disk driver whole and in order; the ports of the *)
(* keyboard show the keys that are held; and the bits of the calendar are  *)
(* those of the time that was read.                                        *)
(***************************************************************************)
EXTENDS CDIF, Tape, DiskIO, Keys, Calendar, SequenceTheorems, TLAPS

-----------------------------------------------------------------------------
(* The CD-ROM interface: types *)

Phases == {"Idle", "Cmd1", "Cmd2", "Param", "Exec", "Wait", "Recv", "Send", "Result", "Status"}
StatusBits == Mode \union {1, RequestBit, Busy}
Orders == {"read1", "read2", "playAudio", "pause", "checkDisc", "readSubCodeq", "readTOC", "stop", "halt"}
CdState ==
  [phase : Phases, status : SUBSET StatusBits, data : Nat, length : Int, cmd : Nat, arg : Nat, last : Nat,
   fifth : Nat, rslt : Nat, retry : Nat, readMode : Nat, sector : Nat, still : Nat,
   addrs : {"unset", "zero", "asked", "heard"}, playMode : Nat, clk : BOOLEAN,
   inside : {"no", "process", "still0", "still1", "still2"}, active : BOOLEAN, enable : BOOLEAN]
Worlds == [orders : Nat, unusual : Nat, inTurn : BOOLEAN, saved : Seq(CdState), savedInTurn : BOOLEAN]

CdTypeOK ==
  /\ cd \in CdState /\ queue \in Seq(Orders) /\ drive \in {"waits", "answers"} /\ world \in Worlds
  /\ discPresent \in BOOLEAN /\ sectorSent \in Nat
  /\ ending \in {"no", "posted", "requested", "stopped", "stuck", "terminated"}

-----------------------------------------------------------------------------
(* What the phases and the bits of the status register have to do with      *)
(* each other while the program follows them.                               *)

\* The three bits that tell the direction and the kind of the next byte.
ModeIs(c, bits) == \A b \in Mode : b \in c.status <=> b \in bits
\* Each phase shows its mode, and whoever waits for a byte asks for it.
Asks(c) ==
  /\ c.phase \in {"Idle", "Cmd1", "Exec", "Wait", "Recv"} => ModeIs(c, {})
  /\ c.phase \in {"Cmd2", "Param"} => ModeIs(c, {16})
  /\ c.phase = "Send" => ModeIs(c, {8})
  /\ c.phase = "Result" => 8 \in c.status /\ 16 \in c.status
  /\ c.phase = "Status" => ModeIs(c, Mode)
  /\ 32 \in c.status => 8 \in c.status /\ 16 \in c.status
  /\ c.phase \in {"Cmd2", "Param", "Send", "Result", "Status"} => RequestBit \in c.status
  /\ c.phase \in {"Exec", "Wait"} => RequestBit \notin c.status
  /\ c.phase \in {"Idle", "Cmd1"} => Busy \notin c.status
  /\ c.phase = "Wait" => c.cmd # SetModeCommand
  /\ c.phase = "Recv" => c.cmd = SetModeCommand

\* The thread of the drive will answer.
Answers(q) == \E i \in 1 .. Len(q) : q[i] # "stop"

\* A command has been taken a step on: it waits for the program or for an answer.
Settles(r) ==
  /\ Asks(r.cd)
  /\ r.cd.phase # "Exec"
  /\ r.cd.phase = "Recv" => RequestBit \in r.cd.status
  /\ r.cd.phase = "Wait" => Answers(r.queue)
Typed(r) == r.cd \in CdState /\ r.queue \in Seq(Orders) /\ r.sent \in Nat

-----------------------------------------------------------------------------
(* Each command settles, in whatever phase it is run. *)

\* One field is set.
LEMMA FieldSet ==
  ASSUME NEW c \in CdState
  PROVE  /\ \A s \in SUBSET StatusBits : LET d == [c EXCEPT !.status = s] IN d \in CdState /\ d.status = s /\ d.phase = c.phase
         /\ \A p \in Phases : LET d == [c EXCEPT !.phase = p] IN d \in CdState /\ d.status = c.status /\ d.phase = p
         /\ \A n \in Nat : LET d == [c EXCEPT !.data = n] IN d \in CdState /\ d.status = c.status /\ d.phase = c.phase
         /\ LET d == [c EXCEPT !.inside = "process"]
            IN d \in CdState /\ d.status = c.status /\ d.phase = c.phase /\ d.inside = "process"
<1>1. ASSUME NEW s \in SUBSET StatusBits
      PROVE  LET d == [c EXCEPT !.status = s] IN d \in CdState /\ d.status = s /\ d.phase = c.phase
  BY DEF CdState
<1>2. ASSUME NEW p \in Phases
      PROVE  LET d == [c EXCEPT !.phase = p] IN d \in CdState /\ d.status = c.status /\ d.phase = p
  BY DEF CdState
<1>3. ASSUME NEW n \in Nat
      PROVE  LET d == [c EXCEPT !.data = n] IN d \in CdState /\ d.status = c.status /\ d.phase = c.phase
  BY DEF CdState
<1>4. LET d == [c EXCEPT !.inside = "process"]
      IN d \in CdState /\ d.status = c.status /\ d.phase = c.phase /\ d.inside = "process"
  BY DEF CdState
<1> QED BY <1>1, <1>2, <1>3, <1>4

LEMMA AnswerSettles ==
  ASSUME NEW c \in CdState, NEW q \in Seq(Orders)
  PROVE  Typed(Answer(c, q)) /\ (Asks(c) => Settles(Answer(c, q)))
<1>1. Typed(Answer(c, q))
  BY DEF Typed, Answer, R, ResultPhase, CdState, Phases, StatusBits, Mode, RequestBit
<1>2. Asks(c) => Settles(Answer(c, q))
  <2>1. SUFFICES ASSUME Asks(c) PROVE Settles(Answer(c, q))
    OBVIOUS
  <2> DEFINE a == Answer(c, q).cd
  <2>2. a.phase = "Result" /\ a.status = c.status \union {8, 16, RequestBit}
    BY DEF Answer, R, ResultPhase, CdState
  <2> HIDE DEF a
  <2>3. Asks(a)
    BY <2>1, <2>2 DEF Asks, RequestBit
  <2> QED BY <2>2, <2>3 DEF Settles, a
<1> QED BY <1>1, <1>2

LEMMA SendSettles ==
  ASSUME NEW c \in CdState, NEW q \in Seq(Orders), NEW order \in Orders \ {"stop"}
  PROVE  /\ Typed(SendCommand(c, q, order))
         /\ Asks(c) /\ c.phase \in {"Exec", "Wait"} /\ c.cmd # SetModeCommand => Settles(SendCommand(c, q, order))
<1>1. Typed(SendCommand(c, q, order))
  <2>1. [c EXCEPT !.phase = "Wait"] \in CdState
    BY DEF CdState, Phases
  <2>2. Append(q, order) \in Seq(Orders)
    OBVIOUS
  <2> QED BY <2>1, <2>2 DEF Typed, SendCommand, R
<1>2. Answers(Append(q, order))
  <2>1. Append(q, order)[Len(q) + 1] = order /\ Len(Append(q, order)) = Len(q) + 1 /\ Len(q) + 1 \in Nat
    OBVIOUS
  <2> QED BY <2>1 DEF Answers, Orders
<1>3. ASSUME Asks(c), c.phase \in {"Exec", "Wait"}, c.cmd # SetModeCommand PROVE Settles(SendCommand(c, q, order))
  BY <1>2, <1>3 DEF Settles, Asks, ModeIs, SendCommand, R, CdState, Phases, Mode, RequestBit, Busy
<1> QED BY <1>1, <1>3

LEMMA SendPhaseSettles ==
  ASSUME NEW c \in CdState, NEW q \in Seq(Orders), NEW bytes \in Int, NEW first \in Nat
  PROVE  /\ Typed(R(CdSendPhase(c, bytes, first), q))
         /\ Asks(c) /\ c.phase \in {"Exec", "Wait"} => Settles(R(CdSendPhase(c, bytes, first), q))
<1>1. CdSendPhase(c, bytes, first) \in CdState
  <2>1. c.status \union {8, RequestBit} \in SUBSET StatusBits
    BY DEF CdState, StatusBits, Mode, RequestBit, Busy
  <2>2. bytes - 1 \in Int /\ "Send" \in Phases
    BY DEF Phases
  <2> QED BY <2>1, <2>2 DEF CdSendPhase, CdState
<1>1a. Typed(R(CdSendPhase(c, bytes, first), q))
  BY <1>1 DEF Typed, R
<1>2. ASSUME Asks(c), c.phase \in {"Exec", "Wait"} PROVE Asks(CdSendPhase(c, bytes, first))
  <2> DEFINE d == CdSendPhase(c, bytes, first)
  <2>1. d.phase = "Send" /\ d.status = c.status \union {8, RequestBit} /\ d.cmd = c.cmd
    BY DEF CdSendPhase, CdState
  <2>2. 16 \notin d.status /\ 32 \notin d.status /\ 8 \in d.status /\ RequestBit \in d.status
    BY <1>2, <2>1 DEF Asks, ModeIs, Mode, RequestBit
  <2> QED BY <2>1, <2>2 DEF Asks, ModeIs, Mode
<1>3. CdSendPhase(c, bytes, first).phase = "Send"
  BY DEF CdSendPhase, CdState
<1> QED BY <1>1a, <1>2, <1>3 DEF Settles, R

LEMMA TryToReadSettles ==
  ASSUME NEW c \in CdState, NEW q \in Seq(Orders)
  PROVE  /\ Typed(TryToRead(c, q))
         /\ Asks(c) /\ c.phase \in {"Exec", "Wait"} /\ c.cmd # SetModeCommand => Settles(TryToRead(c, q))
<1> DEFINE n == c.length - 1
           d == [c EXCEPT !.length = n]
<1>0. n \in Int
  BY DEF CdState
<1>1. d \in CdState /\ d.phase = c.phase /\ d.cmd = c.cmd /\ d.status = c.status
  <2> HIDE DEF n
  <2> QED BY <1>0 DEF CdState
<1>2. Asks(c) => Asks(d)
  BY <1>1 DEF Asks, ModeIs
<1>3. \E order \in {"read1", "read2"} : TryToRead(c, q) = SendCommand(d, q, order) \/ TryToRead(c, q) = Answer(d, q)
  BY DEF TryToRead
<1> HIDE DEF d
<1> QED BY <1>1, <1>2, <1>3, AnswerSettles, SendSettles DEF Orders

LEMMA SameAsks ==
  ASSUME NEW c, NEW d, d.phase = c.phase, d.status = c.status, d.cmd = c.cmd
  PROVE  Asks(c) <=> Asks(d)
  BY DEF Asks, ModeIs

LEMMA SameSettles ==
  ASSUME NEW c \in CdState, NEW q \in Seq(Orders)
  PROVE  /\ Typed(Same(c, q))
         /\ Asks(c) /\ c.phase \notin {"Exec", "Wait", "Recv"} => Settles(Same(c, q))
  BY DEF Typed, Settles, Same, R

LEMMA TransferSettles ==
  ASSUME NEW c \in CdState, NEW q \in Seq(Orders)
  PROVE  Typed(Transfer(c, q)) /\ (Asks(c) => Settles(Transfer(c, q)))
<1> DEFINE n == IF c.readMode # 0 THEN RawSize ELSE SectorSize
<1>1. n \in Nat
  BY CdAssumption
<1>2. Transfer(c, q) = [Answer(c, q) EXCEPT !.sent = n]
  BY DEF Transfer
<1> HIDE DEF n
<1>3. /\ Transfer(c, q).cd = Answer(c, q).cd /\ Transfer(c, q).queue = Answer(c, q).queue
      /\ Transfer(c, q).sent = n
  BY <1>2 DEF Answer, R
<1> QED BY <1>1, <1>3, AnswerSettles DEF Typed, Settles

\* What a command does next, in the words of SendSettles and the like.
Well(r, c) == Typed(r) /\ (Asks(c) => Settles(r))

LEMMA ReadSectorSettles ==
  ASSUME NEW c \in CdState, NEW q \in Seq(Orders), c.cmd = ReadData
  PROVE  Well(ReadSector(c, q), c)
<1>0. Asks(c) => c.phase # "Recv" /\ c.cmd # SetModeCommand
  BY DEF Asks, ReadData, SetModeCommand
<1>1. CASE c.phase = "Exec"
  <2> DEFINE n == c.retry + 1
             d == [c EXCEPT !.sector = c.arg, !.length = n, !.rslt = 0]
  <2>0. n \in Int
    BY DEF CdState
  <2>1. d \in CdState /\ d.phase = c.phase /\ d.status = c.status /\ d.cmd = c.cmd
    <3> HIDE DEF n
    <3> QED BY <2>0 DEF CdState
  <2>2. ReadSector(c, q) = TryToRead(d, q)
    BY <1>1 DEF ReadSector
  <2>3. Asks(c) <=> Asks(d)
    BY <2>1, SameAsks
  <2> HIDE DEF d
  <2> QED BY <1>0, <1>1, <2>1, <2>2, <2>3, TryToReadSettles DEF Well
<1>2. CASE c.phase = "Wait"
  <2>1. ReadSector(c, q) = TryToRead(c, q) \/ ReadSector(c, q) = Transfer(c, q)
    BY <1>2 DEF ReadSector
  <2> QED BY <1>0, <1>2, <2>1, TryToReadSettles, TransferSettles DEF Well
<1>3. CASE c.phase \notin {"Exec", "Wait"}
  <2>1. ReadSector(c, q) = Same(c, q)
    BY <1>3 DEF ReadSector
  <2> QED BY <1>0, <1>3, <2>1, SameSettles DEF Well
<1> QED BY <1>1, <1>2, <1>3

LEMMA SetReadModeSettles ==
  ASSUME NEW c \in CdState, NEW q \in Seq(Orders), c.cmd = SetModeCommand
  PROVE  Well(SetReadMode(c, q), c)
<1>1. CASE c.phase = "Exec"
  <2> DEFINE d == CdRecvPhase(c, ModeSize)
  <2>1. /\ d.phase = "Recv" /\ d.status = c.status \union {RequestBit} /\ d.cmd = c.cmd
    BY DEF CdRecvPhase, CdState
  <2>2. d \in CdState
    <3>1. c.status \union {RequestBit} \in SUBSET StatusBits
      BY DEF CdState, StatusBits, RequestBit
    <3>2. ModeSize \in Int /\ "Recv" \in Phases
      BY CdAssumption DEF Phases
    <3> QED BY <3>1, <3>2 DEF CdRecvPhase, CdState
  <2>3. Asks(c) => Asks(d)
    BY <1>1, <2>1 DEF Asks, ModeIs, Mode, RequestBit
  <2>4. SetReadMode(c, q) = R(d, q)
    BY <1>1 DEF SetReadMode
  <2> HIDE DEF d
  <2> QED BY <2>1, <2>2, <2>3, <2>4 DEF Well, Typed, Settles, R
<1>2. CASE c.phase = "Recv"
  <2> DEFINE d == [c EXCEPT !.retry = c.last, !.readMode = c.fifth]
  <2>1. d \in CdState /\ d.phase = c.phase /\ d.status = c.status /\ d.cmd = c.cmd
    BY DEF CdState
  <2>2. SetReadMode(c, q) = Answer(d, q)
    BY <1>2 DEF SetReadMode
  <2>3. Asks(c) <=> Asks(d)
    BY <2>1, SameAsks
  <2> HIDE DEF d
  <2> QED BY <2>1, <2>2, <2>3, AnswerSettles DEF Well
<1>3. CASE c.phase \notin {"Exec", "Recv"}
  <2>1. SetReadMode(c, q) = Same(c, q)
    BY <1>3 DEF SetReadMode
  <2>2. Asks(c) => c.phase # "Wait"
    BY DEF Asks
  <2> QED BY <1>3, <2>1, <2>2, SameSettles DEF Well
<1> QED BY <1>1, <1>2, <1>3

LEMMA TrackSearchSettles ==
  ASSUME NEW c \in CdState, NEW q \in Seq(Orders), c.cmd = Search
  PROVE  Well(TrackSearch(c, q), c)
<1>0. Asks(c) => c.phase # "Recv" /\ c.cmd # SetModeCommand
  BY DEF Asks, Search, SetModeCommand
<1>1. CASE c.phase = "Exec"
  <2> DEFINE d == [c EXCEPT !.addrs = "asked", !.inside = IF c.arg % 2 = 1 THEN "still2" ELSE "still0"]
  <2>1. d \in CdState /\ d.phase = c.phase /\ d.status = c.status /\ d.cmd = c.cmd
    BY DEF CdState
  <2>2. TrackSearch(c, q) = SendCommand(d, q, "playAudio")
    BY <1>1 DEF TrackSearch
  <2>3. Asks(c) <=> Asks(d)
    BY <2>1, SameAsks
  <2> HIDE DEF d
  <2> QED BY <1>0, <1>1, <2>1, <2>2, <2>3, SendSettles DEF Well, Orders
<1>2. CASE c.phase = "Wait"
  <2> DEFINE d == [c EXCEPT !.still = 2]
  <2>1. d \in CdState /\ d.phase = c.phase /\ d.status = c.status /\ d.cmd = c.cmd
    BY DEF CdState
  <2>2. TrackSearch(c, q) = SendCommand(d, q, "pause") \/ TrackSearch(c, q) = Answer(c, q)
    BY <1>2 DEF TrackSearch
  <2>3. Asks(c) <=> Asks(d)
    BY <2>1, SameAsks
  <2> HIDE DEF d
  <2> QED BY <1>0, <1>2, <2>1, <2>2, <2>3, SendSettles, AnswerSettles DEF Well, Orders
<1>3. CASE c.phase \notin {"Exec", "Wait"}
  <2>1. TrackSearch(c, q) = Same(c, q)
    BY <1>3 DEF TrackSearch
  <2> QED BY <1>0, <1>3, <2>1, SameSettles DEF Well
<1> QED BY <1>1, <1>2, <1>3

LEMMA SimpleSettles ==
  ASSUME NEW c \in CdState, NEW q \in Seq(Orders), NEW order \in Orders \ {"stop"}, c.cmd # SetModeCommand
  PROVE  Well(Simple(c, q, order), c)
<1>0. Asks(c) => c.phase # "Recv"
  BY DEF Asks
<1>1. CASE c.phase = "Exec"
  <2>1. Simple(c, q, order) = SendCommand(c, q, order)
    BY <1>1 DEF Simple
  <2> QED BY <1>1, <2>1, SendSettles DEF Well
<1>2. CASE c.phase = "Wait"
  <2>1. Simple(c, q, order) = Answer(c, q)
    BY <1>2 DEF Simple
  <2> QED BY <2>1, AnswerSettles DEF Well
<1>3. CASE c.phase \notin {"Exec", "Wait"}
  <2>1. Simple(c, q, order) = Same(c, q)
    BY <1>3 DEF Simple
  <2> QED BY <1>0, <1>3, <2>1, SameSettles DEF Well
<1> QED BY <1>1, <1>2, <1>3

LEMMA PlayStopSettles ==
  ASSUME NEW c \in CdState, NEW q \in Seq(Orders), c.cmd # SetModeCommand
  PROVE  Well(PlayStop(c, q), c)
<1> DEFINE d == IF c.phase = "Exec" THEN [c EXCEPT !.addrs = DiscTime, !.inside = "still1"] ELSE c
<1>1. d \in CdState /\ d.phase = c.phase /\ d.status = c.status /\ d.cmd = c.cmd
  BY DEF CdState, DiscTime
<1>2. PlayStop(c, q) = Simple(d, q, "pause")
  BY DEF PlayStop
<1>3. Asks(c) <=> Asks(d)
  BY <1>1, SameAsks
<1> HIDE DEF d
<1> QED BY <1>1, <1>2, <1>3, SimpleSettles DEF Well, Orders

LEMMA ReadSubcodeSettles ==
  ASSUME NEW c \in CdState, NEW q \in Seq(Orders), NEW m \in Media, c.cmd # SetModeCommand
  PROVE  Well(ReadSubcodeQ(c, q, m), c)
<1>0. Asks(c) => c.phase # "Recv"
  BY DEF Asks
<1>1. CASE c.phase = "Exec"
  <2>1. ReadSubcodeQ(c, q, m) = SendCommand(c, q, "readSubCodeq")
    BY <1>1 DEF ReadSubcodeQ
  <2> QED BY <1>1, <2>1, SendSettles DEF Well, Orders
<1>2. CASE c.phase = "Wait"
  <2> DEFINE n == IF c.arg < MostBytes THEN c.arg ELSE MostBytes
  <2>1. n \in Int
    BY CdAssumption DEF CdState
  <2>2. ReadSubcodeQ(c, q, m) = R(CdSendPhase(c, n, AudioStatus(c, m)), q)
    BY <1>2 DEF ReadSubcodeQ
  <2>3. AudioStatus(c, m) \in Nat
    BY DEF AudioStatus, CdState
  <2> HIDE DEF n
  <2> QED BY <1>2, <2>1, <2>2, <2>3, SendPhaseSettles DEF Well
<1>3. CASE c.phase \notin {"Exec", "Wait"}
  <2>1. ReadSubcodeQ(c, q, m) = Same(c, q)
    BY <1>3 DEF ReadSubcodeQ
  <2> QED BY <1>0, <1>3, <2>1, SameSettles DEF Well
<1> QED BY <1>1, <1>2, <1>3

LEMMA ReadTOCSettles ==
  ASSUME NEW c \in CdState, NEW q \in Seq(Orders), NEW m \in Media, c.cmd # SetModeCommand
  PROVE  Well(ReadTOC(c, q, m), c)
<1>0. Asks(c) => c.phase # "Recv"
  BY DEF Asks
<1>1. CASE c.phase = "Exec"
  <2>1. \/ ReadTOC(c, q, m) = SendCommand(c, q, "readTOC")
        \/ ReadTOC(c, q, m) = R(CdSendPhase(c, 4, m.byte), q)
        \/ ReadTOC(c, q, m) = Answer(c, q)
    BY <1>1 DEF ReadTOC
  <2>2. m.byte \in Nat
    BY DEF Media, DriveBytes, SelectByte
  <2> QED BY <1>1, <2>1, <2>2, SendSettles, SendPhaseSettles, AnswerSettles DEF Well, Orders
<1>2. CASE c.phase = "Wait"
  <2> DEFINE b == IF m.found THEN 1 ELSE 0
  <2>1. ReadTOC(c, q, m) = R(CdSendPhase(c, 4, b), q)
    BY <1>2 DEF ReadTOC
  <2> QED BY <1>2, <2>1, SendPhaseSettles DEF Well
<1>3. CASE c.phase \notin {"Exec", "Wait"}
  <2>1. ReadTOC(c, q, m) = Same(c, q)
    BY <1>3 DEF ReadTOC
  <2> QED BY <1>0, <1>3, <2>1, SameSettles DEF Well
<1> QED BY <1>1, <1>2, <1>3

LEMMA CommandSettles ==
  ASSUME NEW c \in CdState, NEW q \in Seq(Orders), NEW m \in Media
  PROVE  Well(ProcessCommand(c, q, m), c)
<1> USE DEF CheckDrive, ReadData, SetModeCommand, Search, Play, StopPlay, Subcode, Toc
<1>1. CASE c.cmd = CheckDrive
  <2>1. ProcessCommand(c, q, m) = Simple(c, q, "checkDisc")
    BY <1>1 DEF ProcessCommand, CheckDriveStatus
  <2> QED BY <1>1, <2>1, SimpleSettles DEF Orders
<1>2. CASE c.cmd = ReadData
  <2>1. ProcessCommand(c, q, m) = ReadSector(c, q)
    BY <1>2 DEF ProcessCommand
  <2> QED BY <1>2, <2>1, ReadSectorSettles
<1>3. CASE c.cmd = SetModeCommand
  <2>1. ProcessCommand(c, q, m) = SetReadMode(c, q)
    BY <1>3 DEF ProcessCommand
  <2> QED BY <1>3, <2>1, SetReadModeSettles
<1>4. CASE c.cmd = Search
  <2>1. ProcessCommand(c, q, m) = TrackSearch(c, q)
    BY <1>4 DEF ProcessCommand
  <2> QED BY <1>4, <2>1, TrackSearchSettles
<1>5. CASE c.cmd = Play
  <2>1. ProcessCommand(c, q, m) = Simple(c, q, "playAudio")
    BY <1>5 DEF ProcessCommand, PlayStart
  <2> QED BY <1>5, <2>1, SimpleSettles DEF Orders
<1>6. CASE c.cmd = StopPlay
  <2>1. ProcessCommand(c, q, m) = PlayStop(c, q)
    BY <1>6 DEF ProcessCommand
  <2> QED BY <1>6, <2>1, PlayStopSettles
<1>7. CASE c.cmd = Subcode
  <2>1. ProcessCommand(c, q, m) = ReadSubcodeQ(c, q, m)
    BY <1>7 DEF ProcessCommand
  <2> QED BY <1>7, <2>1, ReadSubcodeSettles
<1>8. CASE c.cmd = Toc
  <2>1. ProcessCommand(c, q, m) = ReadTOC(c, q, m)
    BY <1>8 DEF ProcessCommand
  <2> QED BY <1>8, <2>1, ReadTOCSettles
<1>9. CASE c.cmd \notin {CheckDrive, ReadData, SetModeCommand, Search, Play, StopPlay, Subcode, Toc}
  <2>1. ProcessCommand(c, q, m) = Answer(c, q)
    BY <1>9 DEF ProcessCommand
  <2> QED BY <2>1, AnswerSettles DEF Well
<1> QED BY <1>1, <1>2, <1>3, <1>4, <1>5, <1>6, <1>7, <1>8, <1>9

-----------------------------------------------------------------------------
(* The inductive invariant: between the steps of the two threads the phase   *)
(* and the status agree, a command is processed by the call that is inside,  *)
(* and a wait has an order.  A snapshot saved in such a state restores one.  *)

\* The thread of the drive has not been asked to end.
Served == ending \in {"no", "posted"}
Posted == drive = "answers" \/ Answers(queue)
InStep ==
  /\ Asks(cd)
  /\ cd.phase = "Exec" => cd.inside = "process"
  /\ cd.phase = "Recv" => RequestBit \in cd.status \/ cd.inside = "process"
  /\ cd.phase = "Wait" => Posted \/ cd.inside = "process"
Loadable(c) ==
  /\ Asks(c) /\ c.phase \notin {"Exec", "Wait"}
  /\ c.phase = "Recv" => RequestBit \in c.status
CdInv ==
  /\ CdTypeOK
  /\ world.inTurn /\ Served => InStep
  /\ world.savedInTurn => \A i \in 1 .. Len(world.saved) : Loadable(world.saved[i])

LEMMA CdInitInv == CdInit => CdInv
<1> SUFFICES ASSUME CdInit PROVE CdInv
  OBVIOUS
<1>1. CdTypeOK
  <2>1. cd \in CdState
    BY DEF CdInit, CdState, Phases, StatusBits
  <2>2. queue \in Seq(Orders) /\ world \in Worlds
    BY DEF CdInit, Worlds
  <2> QED BY <2>1, <2>2 DEF CdInit, CdTypeOK
<1>2. InStep
  BY DEF CdInit, InStep, Asks, ModeIs, Mode
<1>3. \A i \in 1 .. Len(world.saved) : Loadable(world.saved[i])
  BY DEF CdInit
<1> QED BY <1>1, <1>2, <1>3 DEF CdInv

\* Calls that leave the phase, the command and what is posted, and no less of the bits.
LEMMA QuietStep ==
  ASSUME CdInv, cd' \in CdState, cd'.phase = cd.phase, cd'.status = cd.status, cd'.cmd = cd.cmd,
         cd'.inside = cd.inside, UNCHANGED <<queue, driveSide, world>>
  PROVE  CdInv'
<1>1. CdTypeOK'
  BY DEF CdInv, CdTypeOK, driveSide
<1>2. Asks(cd) <=> Asks(cd')
  BY SameAsks
<1>3. (Served <=> Served') /\ (InStep => InStep')
  BY <1>2 DEF InStep, Posted, Answers, driveSide, Served
<1>4. (world.savedInTurn => \A i \in 1 .. Len(world.saved) : Loadable(world.saved[i]))'
  BY DEF CdInv, Loadable, Asks, ModeIs
<1> QED BY <1>1, <1>3, <1>4 DEF CdInv

LEMMA SavedKept ==
  ASSUME CdInv, world'.saved = world.saved, world'.savedInTurn = world.savedInTurn
  PROVE  (world.savedInTurn => \A i \in 1 .. Len(world.saved) : Loadable(world.saved[i]))'
  BY DEF CdInv, Loadable, Asks, ModeIs

LEMMA Out90Kept == ASSUME CdInv, NEW on \in BOOLEAN, Out90(on) PROVE CdInv'
<1> USE DEF Mode, RequestBit, Busy
<1>1. /\ UNCHANGED <<queue, driveSide, world>> /\ cd.inside = "no"
      /\ UNCHANGED <<drive, discPresent, ending, sectorSent>>
  BY DEF Out90, Returned, driveSide
<1>2. (world.savedInTurn => \A i \in 1 .. Len(world.saved) : Loadable(world.saved[i]))'
  BY <1>1, SavedKept
<1>3. CASE on /\ cd.active /\ cd.data = SelectByte
  <2> DEFINE s == (cd.status \union {RequestBit, 1}) \ (Mode \union {Busy})
  <2>1. cd' = [cd EXCEPT !.status = s, !.phase = "Cmd1"]
    BY <1>3 DEF Out90
  <2>2. s \in SUBSET StatusBits /\ Busy \notin s /\ 8 \notin s /\ 16 \notin s /\ 32 \notin s
    BY DEF CdInv, CdTypeOK, CdState, StatusBits
  <2> HIDE DEF s
  <2>3. cd' \in CdState /\ cd'.status = s /\ cd'.phase = "Cmd1"
    BY <2>1, <2>2 DEF CdInv, CdTypeOK, CdState, Phases
  <2>4. InStep'
    BY <2>2, <2>3 DEF InStep, Asks, ModeIs
  <2> QED BY <1>1, <1>2, <2>3, <2>4 DEF CdInv, CdTypeOK
<1>4. CASE on /\ ~(cd.active /\ cd.data = SelectByte)
  <2>1. cd' = cd
    BY <1>4 DEF Out90
  <2> QED BY <1>1, <2>1, QuietStep DEF CdInv, CdTypeOK
<1>5. CASE ~on /\ cd.phase = "Cmd1"
  <2> DEFINE s == (cd.status \ (Mode \union {1})) \union {Busy, RequestBit, 16}
  <2>1. cd' = [cd EXCEPT !.phase = "Cmd2", !.status = s]
    BY <1>5 DEF Out90
  <2>2. s \in SUBSET StatusBits /\ RequestBit \in s /\ 16 \in s /\ 8 \notin s /\ 32 \notin s
    BY DEF CdInv, CdTypeOK, CdState, StatusBits
  <2> HIDE DEF s
  <2>3. cd' \in CdState /\ cd'.status = s /\ cd'.phase = "Cmd2"
    <3> DEFINE d == [cd EXCEPT !.phase = "Cmd2"]
    <3>1. d \in CdState /\ d.phase = "Cmd2"
      BY FieldSet DEF CdInv, CdTypeOK, Phases
    <3>2. cd' = [d EXCEPT !.status = s]
      BY <2>1
    <3> HIDE DEF d
    <3>3. LET e == [d EXCEPT !.status = s] IN e \in CdState /\ e.status = s /\ e.phase = d.phase
      BY <2>2, <3>1, FieldSet, Zenon
    <3> QED BY <3>1, <3>2, <3>3
  <2>4. InStep'
    BY <2>2, <2>3 DEF InStep, Asks, ModeIs
  <2> QED BY <1>1, <1>2, <2>3, <2>4 DEF CdInv, CdTypeOK
<1>6. CASE ~on /\ cd.phase # "Cmd1"
  <2> DEFINE s == cd.status \ {1}
  <2>1. cd' = [cd EXCEPT !.status = s]
    BY <1>6 DEF Out90
  <2>2. /\ s \in SUBSET StatusBits
        /\ \A b \in {8, 16, 32, 64, 128} : b \in s <=> b \in cd.status
    BY DEF CdInv, CdTypeOK, CdState, StatusBits
  <2> HIDE DEF s
  <2>3. /\ cd' \in CdState
        /\ cd'.status = s /\ cd'.phase = cd.phase /\ cd'.cmd = cd.cmd /\ cd'.inside = cd.inside
    BY <2>1, <2>2 DEF CdInv, CdTypeOK, CdState
  <2>4. InStep => Asks(cd')
    BY <2>2, <2>3 DEF InStep, Asks, ModeIs
  <2>5. InStep => InStep'
    BY <1>1, <2>2, <2>3, <2>4 DEF InStep, Posted, Answers
  <2> QED BY <1>1, <1>2, <2>3, <2>5 DEF CdInv, CdTypeOK, Served
<1> QED BY <1>3, <1>4, <1>5, <1>6

-----------------------------------------------------------------------------
(* The steps of the program. *)

LEMMA ParameterSettles ==
  ASSUME NEW c \in CdState, c.phase \in {"Cmd2", "Param"}
  PROVE  LET d == Parameter(c)
         IN  /\ d \in CdState
             /\ \/ /\ d.phase = "Param" /\ d.status = c.status \union {16, RequestBit} /\ d.inside = c.inside
                \/ /\ d.phase = "Exec" /\ d.status = c.status /\ d.inside = "process"
<1> DEFINE first == c.phase = "Cmd2"
           size == CommandSize(IF first THEN c.data ELSE c.cmd)
           left == IF first THEN size ELSE c.length
           cmd == IF first THEN c.data ELSE c.cmd
           arg == IF left = size - 1 THEN c.data ELSE c.arg
           n == left - 1
           got == [c EXCEPT !.cmd = cmd, !.arg = arg, !.phase = "Param", !.length = n]
<1>1. left \in Int /\ n \in Int /\ cmd \in Nat /\ arg \in Nat
  BY CdAssumption DEF CommandSize, CdState
<1>2. Parameter(c) = IF left > 1 THEN [got EXCEPT !.status = @ \union {16, RequestBit}]
                     ELSE [got EXCEPT !.phase = "Exec", !.inside = "process"]
  BY DEF Parameter, CdState
<1> HIDE DEF first, size, left, cmd, arg, n
<1>3. got \in CdState /\ got.phase = "Param" /\ got.status = c.status /\ got.inside = c.inside
  BY <1>1 DEF CdState, Phases
<1> HIDE DEF got
<1>4. c.status \union {16, RequestBit} \in SUBSET StatusBits
  BY DEF CdState, StatusBits, Mode, RequestBit
<1>5. CASE left > 1
  BY <1>2, <1>3, <1>4, <1>5 DEF CdState
<1>6. CASE ~(left > 1)
  <2> DEFINE e == [got EXCEPT !.phase = "Exec"]
  <2>1. e \in CdState /\ e.phase = "Exec" /\ e.status = c.status
    BY <1>3, FieldSet DEF Phases
  <2>2. Parameter(c) = [e EXCEPT !.inside = "process"]
    BY <1>2, <1>6
  <2> HIDE DEF e
  <2> QED BY <2>1, <2>2, FieldSet
<1> QED BY <1>5, <1>6

LEMMA DataOutTyped == ASSUME NEW b \in CdState PROVE DataOut(b) \in CdState
<1> USE DEF Mode, RequestBit, Busy
<1> DEFINE mode == b.status \intersect Mode
           s == b.status \ (Mode \union {RequestBit})
           c == [b EXCEPT !.status = s]
           n == c.length - 1
           last == IF c.phase = "Recv" /\ c.length = 1 THEN c.data ELSE c.last
           fifth == IF c.phase = "Recv" /\ c.length = ModeSize - ModeAt THEN c.data ELSE c.fifth
           taken == [c EXCEPT !.length = n, !.last = last, !.fifth = fifth]
<1>1. s \in SUBSET StatusBits /\ s \union {RequestBit} \in SUBSET StatusBits
  BY DEF CdState, StatusBits
<1>2. c \in CdState /\ c.phase = b.phase /\ c.status = s
  <2> HIDE DEF s
  <2> QED BY <1>1 DEF CdState
<1>3. DataOut(b) = CASE mode = {} /\ c.length > 1 -> [taken EXCEPT !.status = @ \union {RequestBit}]
                     [] mode = {} /\ c.length <= 1 -> [taken EXCEPT !.inside = "process"]
                     [] mode = {16} /\ c.phase \in {"Cmd2", "Param"} -> Parameter(c)
                     [] OTHER -> c
  BY DEF DataOut
<1> HIDE DEF c
<1>4. n \in Int /\ last \in Nat /\ fifth \in Nat
  BY <1>2 DEF CdState
<1>5. taken \in CdState /\ taken.status = s
  <2> HIDE DEF n, last, fifth, s
  <2> QED BY <1>2, <1>4 DEF CdState
<1> HIDE DEF taken, s
<1>6. [taken EXCEPT !.status = @ \union {RequestBit}] \in CdState
  BY <1>1, <1>5 DEF CdState
<1>7. [taken EXCEPT !.inside = "process"] \in CdState
  BY <1>5 DEF CdState
<1>8. c.phase \in {"Cmd2", "Param"} => Parameter(c) \in CdState
  BY <1>2, ParameterSettles
<1>9. c.length \in Int
  BY <1>2 DEF CdState
<1> HIDE DEF mode
<1> QED
  <2>1. \/ DataOut(b) = [taken EXCEPT !.status = @ \union {RequestBit}]
        \/ DataOut(b) = [taken EXCEPT !.inside = "process"]
        \/ c.phase \in {"Cmd2", "Param"} /\ DataOut(b) = Parameter(c)
        \/ DataOut(b) = c
    BY <1>3, <1>9
  <2> QED BY <1>2, <1>6, <1>7, <1>8, <2>1

\* A byte written as the status register asks.
LEMMA DataOutKept ==
  ASSUME NEW b \in CdState, Asks(b), RequestBit \in b.status, 8 \notin b.status, Busy \in b.status
  PROVE  LET d == DataOut(b)
         IN  /\ Asks(d) /\ d.phase # "Wait"
             /\ d.phase = "Exec" => d.inside = "process"
             /\ d.phase = "Recv" => RequestBit \in d.status \/ d.inside = "process"
<1> USE DEF Mode, RequestBit, Busy
<1> DEFINE mode == b.status \intersect Mode
           s == b.status \ (Mode \union {RequestBit})
           c == [b EXCEPT !.status = s]
           n == c.length - 1
           last == IF c.phase = "Recv" /\ c.length = 1 THEN c.data ELSE c.last
           fifth == IF c.phase = "Recv" /\ c.length = ModeSize - ModeAt THEN c.data ELSE c.fifth
           taken == [c EXCEPT !.length = n, !.last = last, !.fifth = fifth]
<1>1. b.phase \in {"Cmd2", "Param", "Recv"}
  BY DEF CdState, Phases, Asks, ModeIs
<1>0. DataOut(b) = CASE mode = {} /\ c.length > 1 -> [taken EXCEPT !.status = @ \union {RequestBit}]
                     [] mode = {} /\ c.length <= 1 -> [taken EXCEPT !.inside = "process"]
                     [] mode = {16} /\ c.phase \in {"Cmd2", "Param"} -> Parameter(c)
                     [] OTHER -> c
  BY DEF DataOut
<1>2. s \in SUBSET StatusBits /\ \A bit \in {8, 16, 32, 64} : bit \notin s
  BY DEF CdState, StatusBits
<1>3. s \union {RequestBit} \in SUBSET StatusBits /\ \A bit \in {8, 16, 32} : bit \notin s \union {RequestBit}
  BY <1>2 DEF StatusBits
<1> HIDE DEF s
<1>4. c \in CdState /\ c.phase = b.phase /\ c.status = s /\ c.cmd = b.cmd
  BY <1>2 DEF CdState
<1>5. n \in Int /\ last \in Nat /\ fifth \in Nat
  <2> HIDE DEF c
  <2> QED BY <1>4 DEF CdState
<1>6. taken \in CdState /\ taken.phase = b.phase /\ taken.status = s /\ taken.cmd = b.cmd
  <2> HIDE DEF c, n, last, fifth
  <2> DEFINE t1 == [c EXCEPT !.length = n]
             t2 == [t1 EXCEPT !.last = last]
  <2>1. t1 \in CdState /\ t1.phase = b.phase /\ t1.status = s /\ t1.cmd = b.cmd
    BY <1>4, <1>5 DEF CdState
  <2> HIDE DEF t1
  <2>2. t2 \in CdState /\ t2.phase = b.phase /\ t2.status = s /\ t2.cmd = b.cmd
    BY <1>5, <2>1 DEF CdState
  <2> HIDE DEF t2
  <2>3. taken = [t2 EXCEPT !.fifth = fifth]
    BY DEF t1, t2
  <2>4. LET t3 == [t2 EXCEPT !.fifth = fifth]
        IN t3 \in CdState /\ t3.phase = t2.phase /\ t3.status = t2.status /\ t3.cmd = t2.cmd
    BY <1>5, <2>2 DEF CdState
  <2> HIDE DEF taken
  <2> QED BY <2>2, <2>3, <2>4
<1>7. CASE b.phase = "Recv"
  <2>1. mode = {}
    BY <1>7 DEF Asks, ModeIs
  <2>2. \/ DataOut(b) = [taken EXCEPT !.status = @ \union {RequestBit}]
        \/ DataOut(b) = [taken EXCEPT !.inside = "process"]
    <3>1. c.length \in Int
      BY <1>4 DEF CdState
    <3> HIDE DEF c, taken, mode
    <3> QED BY <1>0, <2>1, <3>1
  <2> HIDE DEF taken
  <2>3. CASE DataOut(b) = [taken EXCEPT !.status = @ \union {RequestBit}]
    <3> DEFINE d == DataOut(b)
    <3>1. d.phase = "Recv" /\ d.status = s \union {RequestBit} /\ d.cmd = b.cmd
      BY <1>6, <1>7, <2>3 DEF CdState
    <3> HIDE DEF d
    <3>2. Asks(d)
      BY <1>3, <1>7, <3>1 DEF Asks, ModeIs
    <3> QED BY <3>1, <3>2 DEF d
  <2>4. CASE DataOut(b) = [taken EXCEPT !.inside = "process"]
    <3> DEFINE d == DataOut(b)
    <3>1. d.phase = "Recv" /\ d.status = s /\ d.cmd = b.cmd /\ d.inside = "process"
      BY <1>6, <1>7, <2>4 DEF CdState
    <3> HIDE DEF d
    <3>2. Asks(d)
      BY <1>2, <1>7, <3>1 DEF Asks, ModeIs
    <3> QED BY <3>1, <3>2 DEF d
  <2> QED BY <2>2, <2>3, <2>4
<1>8. CASE b.phase \in {"Cmd2", "Param"}
  <2> DEFINE d == DataOut(b)
  <2>1. mode = {16}
    BY <1>8 DEF Asks, ModeIs
  <2>2. d = Parameter(c)
    <3> HIDE DEF c, taken, mode, d
    <3>1. {16} # {}
      OBVIOUS
    <3> QED BY <1>0, <1>4, <1>8, <2>1, <3>1 DEF d
  <2> HIDE DEF c, d
  <2>3. \/ d.phase = "Param" /\ d.status = s \union {16, RequestBit}
        \/ d.phase = "Exec" /\ d.status = s /\ d.inside = "process"
    BY <1>4, <1>8, <2>2, ParameterSettles
  <2>4. \A bit \in {8, 32} : bit \notin s \union {16, RequestBit}
    BY <1>2
  <2>5. Asks(d)
    <3>1. CASE d.phase = "Param" /\ d.status = s \union {16, RequestBit}
      BY <2>4, <3>1 DEF Asks, ModeIs
    <3>2. CASE d.phase = "Exec" /\ d.status = s
      BY <1>2, <3>2 DEF Asks, ModeIs
    <3> QED BY <2>3, <3>1, <3>2
  <2> QED BY <2>3, <2>5 DEF d
<1> QED BY <1>1, <1>7, <1>8

LEMMA TurnTyped ==
  ASSUME NEW w \in Worlds, NEW in \in BOOLEAN
  PROVE  /\ Turn(w, in) \in Worlds /\ Turn(w, in).inTurn = (w.inTurn /\ AsAsked(in))
         /\ Turn(w, in).saved = w.saved /\ Turn(w, in).savedInTurn = w.savedInTurn
<1>1. CASE AsAsked(in)
  BY <1>1 DEF Turn, Worlds
<1>2. CASE ~AsAsked(in)
  <2>1. w.unusual + 1 \in Nat
    BY DEF Worlds
  <2> QED BY <1>2, <2>1 DEF Turn, Worlds
<1> QED BY <1>1, <1>2

LEMMA Out91Kept == ASSUME CdInv, Out91 PROVE CdInv'
<1>1. PICK d \in BytesToldApart :
        /\ cd' = IF Busy \in cd.status THEN DataOut([cd EXCEPT !.data = d]) ELSE [cd EXCEPT !.data = d]
        /\ \E begins \in BOOLEAN : world' = Turn([world EXCEPT !.orders = IF begins THEN @ + 1 ELSE @], FALSE)
        /\ UNCHANGED <<queue, drive, discPresent, ending, sectorSent>>
  BY DEF Out91, driveSide
<1> DEFINE given == [cd EXCEPT !.data = d]
<1>2. d \in Nat
  BY CdAssumption DEF BytesToldApart, SelectByte, CommandCodes, CheckDrive, ReadData, SetModeCommand, Search, Play,
                      StopPlay, Subcode, Toc, Unknown
<1>3. given \in CdState /\ given.phase = cd.phase /\ given.status = cd.status /\ given.cmd = cd.cmd /\ given.inside = cd.inside
  BY <1>2 DEF CdInv, CdTypeOK, CdState
<1>4. cd' \in CdState
  BY <1>1, <1>3, DataOutTyped
<1>5. /\ world' \in Worlds /\ world'.saved = world.saved /\ world'.savedInTurn = world.savedInTurn
      /\ world'.inTurn = (world.inTurn /\ AsAsked(FALSE))
  <2>1. PICK begins \in BOOLEAN : world' = Turn([world EXCEPT !.orders = IF begins THEN @ + 1 ELSE @], FALSE)
    BY <1>1
  <2> DEFINE n == IF begins THEN world.orders + 1 ELSE world.orders
             w == [world EXCEPT !.orders = n]
  <2>2. n \in Nat /\ world \in Worlds
    BY DEF CdInv, CdTypeOK, Worlds
  <2>3. world' = Turn(w, FALSE)
    BY <2>1
  <2> HIDE DEF n
  <2>4. w \in Worlds /\ w.saved = world.saved /\ w.savedInTurn = world.savedInTurn /\ w.inTurn = world.inTurn
    BY <2>2 DEF Worlds
  <2> HIDE DEF w
  <2> QED BY <2>3, <2>4, TurnTyped
<1>6. (world.savedInTurn => \A i \in 1 .. Len(world.saved) : Loadable(world.saved[i]))'
  BY <1>5, SavedKept
<1>7. ASSUME world'.inTurn, Served' PROVE InStep'
  <2>1. Asks(given) /\ InStep
    BY <1>1, <1>3, <1>5, <1>7, SameAsks DEF CdInv, InStep, Served
  <2> HIDE DEF given
  <2>2. CASE Busy \in cd.status
    BY <1>1, <1>3, <1>5, <1>7, <2>1, <2>2, DataOutKept DEF given, AsAsked, InStep
  <2>3. CASE Busy \notin cd.status
    <3>1. cd' = given
      BY <1>1, <2>3 DEF given
    <3> QED BY <1>1, <1>3, <2>1, <3>1 DEF InStep, Posted, Answers
  <2> QED BY <2>2, <2>3
<1> QED BY <1>1, <1>4, <1>5, <1>6, <1>7 DEF CdInv, CdTypeOK

LEMMA DataInTyped == ASSUME NEW b \in CdState, NEW x \in Nat PROVE DataIn(b, x) \in CdState
<1> USE DEF Mode, RequestBit, Busy
<1> DEFINE mode == b.status \intersect Mode
           s == b.status \ (Mode \union {RequestBit})
           c == [b EXCEPT !.status = s]
           n == c.length - 1
           sent == [c EXCEPT !.length = n]
           next == [sent EXCEPT !.status = @ \union {8, RequestBit}, !.data = x]
           stat == [c EXCEPT !.data = 0, !.phase = "Status", !.status = @ \union Mode \union {RequestBit}]
           idle == [c EXCEPT !.data = 0, !.phase = "Idle", !.status = {}]
<1>1. /\ s \in SUBSET StatusBits /\ s \union {8, RequestBit} \in SUBSET StatusBits
      /\ s \union Mode \union {RequestBit} \in SUBSET StatusBits /\ {} \in SUBSET StatusBits
  BY DEF CdState, StatusBits
<1>2. c \in CdState /\ c.status = s
  <2> HIDE DEF s
  <2> QED BY <1>1 DEF CdState
<1>3. DataIn(b, x) = CASE mode = {8} /\ c.length > 0 -> next
                    [] mode = {8} /\ c.length <= 0 -> ResultPhase(sent, c.rslt)
                    [] mode = {8, 16} -> stat
                    [] mode = Mode -> idle
                    [] OTHER -> c
  BY DEF DataIn
<1> HIDE DEF mode, c
<1>4. n \in Int /\ c.length \in Int /\ c.rslt \in Nat
  BY <1>2 DEF CdState
<1>5. sent \in CdState /\ sent.status = s
  <2> HIDE DEF n, s
  <2> QED BY <1>2, <1>4 DEF CdState
<1> HIDE DEF sent, s
<1>6. next \in CdState
  <2> DEFINE d == [sent EXCEPT !.status = @ \union {8, RequestBit}]
  <2>1. d \in CdState
    BY <1>1, <1>5, FieldSet
  <2> HIDE DEF d
  <2>2. [d EXCEPT !.data = x] \in CdState
    BY <2>1, FieldSet
  <2> QED BY <2>2 DEF d
<1>7. stat \in CdState /\ idle \in CdState
  <2> DEFINE d == [c EXCEPT !.data = 0]
             p(phase) == [d EXCEPT !.phase = phase]
  <2>1. d \in CdState /\ d.status = s
    BY <1>2, FieldSet
  <2> HIDE DEF d
  <2>2. /\ p("Status") \in CdState /\ p("Status").status = s
        /\ p("Idle") \in CdState /\ p("Idle").status = s
    BY <2>1, FieldSet DEF Phases
  <2> HIDE DEF p
  <2>3. /\ [p("Status") EXCEPT !.status = @ \union Mode \union {RequestBit}] \in CdState
        /\ [p("Idle") EXCEPT !.status = {}] \in CdState
    BY <1>1, <2>2, FieldSet
  <2> QED BY <2>3 DEF p, d
<1>8. ResultPhase(sent, c.rslt) \in CdState
  <2> DEFINE d == [sent EXCEPT !.data = c.rslt]
             e == [d EXCEPT !.status = @ \union {8, 16, RequestBit}]
  <2>1. d \in CdState /\ d.status = s
    BY <1>4, <1>5, FieldSet
  <2>2. s \union {8, 16, RequestBit} \in SUBSET StatusBits
    BY <1>1 DEF StatusBits
  <2> HIDE DEF d
  <2>3. e \in CdState
    BY <2>1, <2>2, FieldSet
  <2> HIDE DEF e
  <2>4. [e EXCEPT !.phase = "Result"] \in CdState
    BY <2>3, FieldSet DEF Phases
  <2> QED BY <2>4 DEF ResultPhase, d, e
<1> HIDE DEF next, stat, idle
<1> QED BY <1>2, <1>3, <1>4, <1>6, <1>7, <1>8

\* A byte fetched as the status register offers.
LEMMA DataInKept ==
  ASSUME NEW b \in CdState, NEW x \in Nat, Asks(b), RequestBit \in b.status, 8 \in b.status, Busy \in b.status
  PROVE  Asks(DataIn(b, x)) /\ DataIn(b, x).phase \notin {"Exec", "Recv", "Wait"}
<1> USE DEF Mode, RequestBit, Busy
<1> DEFINE mode == b.status \intersect Mode
           s == b.status \ (Mode \union {RequestBit})
           c == [b EXCEPT !.status = s]
           n == c.length - 1
           sent == [c EXCEPT !.length = n]
           next == [sent EXCEPT !.status = @ \union {8, RequestBit}, !.data = x]
           stat == [c EXCEPT !.data = 0, !.phase = "Status", !.status = @ \union Mode \union {RequestBit}]
           idle == [c EXCEPT !.data = 0, !.phase = "Idle", !.status = {}]
<1>1. b.phase \in {"Send", "Result", "Status"}
  BY DEF CdState, Phases, Asks, ModeIs
<1>2. s \in SUBSET StatusBits /\ \A bit \in {8, 16, 32, 64} : bit \notin s
  BY DEF CdState, StatusBits
<1>3. DataIn(b, x) = CASE mode = {8} /\ c.length > 0 -> next
                    [] mode = {8} /\ c.length <= 0 -> ResultPhase(sent, c.rslt)
                    [] mode = {8, 16} -> stat
                    [] mode = Mode -> idle
                    [] OTHER -> c
  BY DEF DataIn
<1>4. /\ mode \in {{8}, {8, 16}, Mode}
      /\ mode = {8} => b.phase = "Send"
  BY <1>1 DEF Asks, ModeIs
<1> HIDE DEF s
<1>5. c \in CdState /\ c.phase = b.phase /\ c.status = s /\ c.cmd = b.cmd
  BY <1>2 DEF CdState
<1> HIDE DEF c, mode
<1>6. n \in Int /\ c.length \in Int
  BY <1>5 DEF CdState
<1>7. sent \in CdState /\ sent.phase = b.phase /\ sent.status = s /\ sent.cmd = b.cmd
  <2> HIDE DEF n
  <2> QED BY <1>5, <1>6 DEF CdState
<1> HIDE DEF sent
<1>8. CASE mode = {8} /\ DataIn(b, x) = next
  <2> DEFINE d == next
  <2>1. d.phase = "Send" /\ d.status = s \union {8, RequestBit}
    BY <1>4, <1>7, <1>8 DEF CdState
  <2>2. \A bit \in {16, 32} : bit \notin s \union {8, RequestBit}
    BY <1>2
  <2> HIDE DEF d
  <2>3. Asks(d)
    BY <2>1, <2>2 DEF Asks, ModeIs
  <2> QED BY <1>8, <2>1, <2>3 DEF d
<1>9. CASE DataIn(b, x) = ResultPhase(sent, c.rslt)
  <2> DEFINE d == ResultPhase(sent, c.rslt)
  <2>1. d.phase = "Result" /\ d.status = s \union {8, 16, RequestBit}
    BY <1>7 DEF ResultPhase, CdState
  <2> HIDE DEF d
  <2>2. Asks(d)
    BY <2>1 DEF Asks, ModeIs
  <2> QED BY <1>9, <2>1, <2>2 DEF d
<1>10. CASE DataIn(b, x) = stat
  <2> DEFINE d == stat
  <2>1. d.phase = "Status" /\ d.status = s \union Mode \union {RequestBit}
    BY <1>5 DEF CdState
  <2> HIDE DEF d
  <2>2. Asks(d)
    BY <2>1 DEF Asks, ModeIs
  <2> QED BY <1>10, <2>1, <2>2 DEF d
<1>11. CASE DataIn(b, x) = idle
  <2> DEFINE d == idle
  <2>1. d.phase = "Idle" /\ d.status = {}
    BY <1>5 DEF CdState
  <2> HIDE DEF d
  <2>2. Asks(d)
    BY <2>1 DEF Asks, ModeIs
  <2> QED BY <1>11, <2>1, <2>2 DEF d
<1> HIDE DEF next, stat, idle
<1> QED BY <1>3, <1>4, <1>6, <1>8, <1>9, <1>10, <1>11

LEMMA In91Kept == ASSUME CdInv, In91 PROVE CdInv'
<1>1. PICK x \in DriveBytes :
        /\ cd' = IF Busy \in cd.status THEN DataIn(cd, x) ELSE cd
        /\ world' = Turn(world, TRUE) /\ UNCHANGED <<queue, drive, discPresent, ending, sectorSent>>
  BY DEF In91, driveSide
<1>0. x \in Nat
  BY DEF DriveBytes, SelectByte
<1>2. cd' \in CdState
  BY <1>0, <1>1, DataInTyped DEF CdInv, CdTypeOK
<1>3. /\ world' \in Worlds /\ world'.saved = world.saved /\ world'.savedInTurn = world.savedInTurn
      /\ world'.inTurn = (world.inTurn /\ AsAsked(TRUE))
  BY <1>1, TurnTyped DEF CdInv, CdTypeOK
<1>4. (world.savedInTurn => \A i \in 1 .. Len(world.saved) : Loadable(world.saved[i]))'
  BY <1>3, SavedKept
<1>5. ASSUME world'.inTurn, Served' PROVE InStep'
  <2>1. CASE Busy \in cd.status
    BY <1>0, <1>1, <1>3, <1>5, <2>1, DataInKept DEF CdInv, CdTypeOK, InStep, AsAsked, Served
  <2>2. CASE Busy \notin cd.status
    <3>1. cd' = cd
      BY <1>1, <2>2
    <3> QED BY <1>1, <1>3, <1>5, <3>1 DEF CdInv, InStep, Asks, ModeIs, Posted, Answers, Served
  <2> QED BY <2>1, <2>2
<1> QED BY <1>1, <1>2, <1>3, <1>4, <1>5 DEF CdInv, CdTypeOK

LEMMA CallProcessesKept == ASSUME CdInv, CallProcesses PROVE CdInv'
<1> DEFINE c == [cd EXCEPT !.inside = "no"]
<1>1. PICK m \in Media :
        /\ cd' = ProcessCommand(c, queue, m).cd /\ queue' = ProcessCommand(c, queue, m).queue
        /\ Requests(ProcessCommand(c, queue, m))
        /\ UNCHANGED <<drive, discPresent, ending, world>>
  BY DEF CallProcesses
<1>2. c \in CdState /\ c.phase = cd.phase /\ c.status = cd.status /\ c.cmd = cd.cmd
  BY DEF CdInv, CdTypeOK, CdState
<1>3. Asks(cd) <=> Asks(c)
  BY <1>2, SameAsks
<1> HIDE DEF c
<1>4. Well(ProcessCommand(c, queue, m), c)
  BY <1>2, CommandSettles DEF CdInv, CdTypeOK
<1>5. CdTypeOK'
  BY <1>1, <1>4 DEF Well, Typed, CdInv, CdTypeOK, Requests
<1>6. InStep => InStep'
  BY <1>1, <1>3, <1>4 DEF Well, Settles, InStep, Posted, Answers, Asks, ModeIs
<1>7. (world.savedInTurn => \A i \in 1 .. Len(world.saved) : Loadable(world.saved[i]))'
  BY <1>1, SavedKept
<1> QED BY <1>1, <1>5, <1>6, <1>7 DEF CdInv, Served

LEMMA SettledIs ==
  ASSUME NEW c \in CdState
  PROVE  Settled(c) \in CdState /\ Settled(c).phase = c.phase /\ Settled(c).status = c.status /\ Settled(c).cmd = c.cmd
<1> DEFINE s == CASE c.inside = "still0" -> 0 [] c.inside = "still1" -> 1 [] c.inside = "still2" -> 2 [] OTHER -> c.still
<1>1. s \in Nat
  BY DEF CdState
<1>2. Settled(c) = [c EXCEPT !.inside = "no", !.still = s]
  BY DEF Settled, CdState
<1> HIDE DEF s
<1> QED BY <1>1, <1>2 DEF CdState

LEMMA StillModeSetKept == ASSUME CdInv, StillModeSet PROVE CdInv'
<1>1. cd' = Settled(cd) /\ cd.inside # "process" /\ UNCHANGED <<queue, drive, discPresent, ending, sectorSent, world>>
  BY DEF StillModeSet, driveSide
<1>2. cd' \in CdState /\ cd'.phase = cd.phase /\ cd'.status = cd.status /\ cd'.cmd = cd.cmd
  BY <1>1, SettledIs DEF CdInv, CdTypeOK
<1>3. Asks(cd) <=> Asks(cd')
  BY <1>2, SameAsks
<1>4. InStep => InStep'
  BY <1>1, <1>2, <1>3 DEF InStep, Posted, Answers
<1>5. (world.savedInTurn => \A i \in 1 .. Len(world.saved) : Loadable(world.saved[i]))'
  BY <1>1, SavedKept
<1> QED BY <1>1, <1>2, <1>4, <1>5 DEF CdInv, CdTypeOK, Served

-----------------------------------------------------------------------------
(* The thread of the drive, the resets and the snapshots. *)

LEMMA DoneProcessesKept == ASSUME CdInv, DoneProcesses PROVE CdInv'
<1> DEFINE c == [cd EXCEPT !.inside = "no"]
<1>1. PICK m \in Media :
        /\ cd' = [Settled(ProcessCommand(c, queue, m).cd) EXCEPT !.inside = cd.inside]
        /\ queue' = ProcessCommand(c, queue, m).queue
        /\ Requests(ProcessCommand(c, queue, m))
        /\ drive' = "waits" /\ UNCHANGED <<discPresent, ending, world>>
  BY DEF DoneProcesses
<1> DEFINE r == ProcessCommand(c, queue, m)
<1>2. c \in CdState /\ c.phase = cd.phase /\ c.status = cd.status /\ c.cmd = cd.cmd
  BY DEF CdInv, CdTypeOK, CdState
<1>3. Asks(cd) <=> Asks(c)
  BY <1>2, SameAsks
<1> HIDE DEF c
<1>4. Well(r, c)
  BY <1>2, CommandSettles DEF CdInv, CdTypeOK
<1> HIDE DEF r
<1>5. r.cd \in CdState /\ r.queue \in Seq(Orders) /\ sectorSent' \in Nat
  BY <1>1, <1>4 DEF Well, Typed, Requests, r, CdInv, CdTypeOK
<1>6. cd' \in CdState /\ cd'.phase = r.cd.phase /\ cd'.status = r.cd.status /\ cd'.cmd = r.cd.cmd
  <2> DEFINE t == Settled(r.cd)
  <2>1. t \in CdState /\ t.phase = r.cd.phase /\ t.status = r.cd.status /\ t.cmd = r.cd.cmd
    BY <1>5, SettledIs
  <2>2. cd' = [t EXCEPT !.inside = cd.inside]
    BY <1>1 DEF r
  <2> HIDE DEF t
  <2> QED BY <2>1, <2>2 DEF CdInv, CdTypeOK, CdState
<1>7. Asks(r.cd) <=> Asks(cd')
  BY <1>6, SameAsks
<1>8. queue' = r.queue
  BY <1>1 DEF r
<1>9. InStep => InStep'
  BY <1>3, <1>4, <1>6, <1>7, <1>8 DEF Well, Settles, InStep, Posted, Answers
<1>10. (world.savedInTurn => \A i \in 1 .. Len(world.saved) : Loadable(world.saved[i]))'
  BY <1>1, SavedKept
<1> QED BY <1>1, <1>5, <1>6, <1>8, <1>9, <1>10 DEF CdInv, CdTypeOK, Served

LEMMA ClearedInStep ==
  ASSUME CdInv, cd' = CdCleared(cd), queue' \in Seq(Orders), world' \in Worlds, UNCHANGED driveSide,
         world'.saved = world.saved, world'.savedInTurn = world.savedInTurn
  PROVE  CdInv'
<1>1. cd' \in CdState /\ cd'.phase = "Idle" /\ cd'.status = {}
  BY DEF CdCleared, CdInv, CdTypeOK, CdState, Phases
<1>2. InStep'
  BY <1>1 DEF InStep, Asks, ModeIs, Mode
<1>3. (world.savedInTurn => \A i \in 1 .. Len(world.saved) : Loadable(world.saved[i]))'
  BY SavedKept
<1> QED BY <1>1, <1>2, <1>3 DEF CdInv, CdTypeOK, driveSide

LEMMA CdResetKept == ASSUME CdInv, CdReset PROVE CdInv'
<1>1. cd' = CdCleared(cd) /\ queue' = Append(queue, "stop") /\ UNCHANGED driveSide
  BY DEF CdReset
<1>2. world' \in Worlds /\ world'.saved = world.saved /\ world'.savedInTurn = world.savedInTurn
  <2>1. world.unusual + 1 \in Nat
    BY DEF CdInv, CdTypeOK, Worlds
  <2> QED BY <2>1 DEF CdReset, CdInv, CdTypeOK, Worlds
<1>3. queue' \in Seq(Orders)
  BY <1>1 DEF CdInv, CdTypeOK, Orders
<1> QED BY <1>1, <1>2, <1>3, ClearedInStep

LEMMA ExecCommandKept == ASSUME CdInv, ExecCommand PROVE CdInv'
<1>1. PICK ret \in {0, 1} :
        /\ queue # <<>> /\ queue' = Tail(queue) /\ UNCHANGED <<ending, sectorSent, world>>
        /\ IF Head(queue) = "stop" THEN UNCHANGED <<cd, drive, discPresent>>
           ELSE cd' = Answered(cd, ret) /\ drive' = DoneSees(ret) /\ discPresent' \in DiscAfter(Head(queue), ret)
  BY DEF ExecCommand
<1>2. queue \in Seq(Orders) /\ queue' \in Seq(Orders)
  BY <1>1 DEF CdInv, CdTypeOK
<1>3. (world.savedInTurn => \A i \in 1 .. Len(world.saved) : Loadable(world.saved[i]))'
  BY <1>1, SavedKept
<1>4. CASE Head(queue) = "stop"
  <2>1. Answers(queue) => Answers(queue')
    <3>1. ASSUME NEW i \in 1 .. Len(queue), queue[i] # "stop" PROVE Answers(queue')
      <4>1. i # 1
        BY <1>4, <3>1
      <4>2. i - 1 \in 1 .. Len(queue') /\ queue'[i - 1] = queue[i]
        BY <1>1, <1>2, <4>1
      <4> QED BY <3>1, <4>2 DEF Answers
    <3> QED BY <3>1 DEF Answers
  <2>2. UNCHANGED <<cd, drive, discPresent>>
    BY <1>1, <1>4
  <2>3. InStep => InStep'
    BY <2>1, <2>2 DEF InStep, Asks, ModeIs, Posted
  <2> QED BY <1>1, <1>2, <1>3, <2>2, <2>3 DEF CdInv, CdTypeOK, Served
<1>5. CASE Head(queue) # "stop"
  <2>1. cd' = [cd EXCEPT !.rslt = ret] /\ drive' = DoneSees(ret)
    BY <1>1, <1>5 DEF Answered
  <2>2. /\ cd' \in CdState
        /\ cd'.phase = cd.phase /\ cd'.status = cd.status /\ cd'.cmd = cd.cmd /\ cd'.inside = cd.inside
    <3>1. ret \in Nat /\ cd \in CdState
      BY DEF CdInv, CdTypeOK
    <3> QED BY <2>1, <3>1 DEF CdState
  <2>3. Asks(cd) <=> Asks(cd')
    BY <2>2, SameAsks
  <2>4. drive' \in {"waits", "answers"} /\ (cd'.phase = "Wait" => drive' = "answers")
    BY <2>1, <2>2 DEF DoneSees
  <2>5. InStep => InStep'
    BY <2>2, <2>3, <2>4 DEF InStep, Posted
  <2>6. discPresent' \in BOOLEAN
    <3>1. discPresent' \in DiscAfter(Head(queue), ret) /\ discPresent \in BOOLEAN
      BY <1>1, <1>5 DEF CdInv, CdTypeOK
    <3> QED BY <3>1 DEF DiscAfter
  <2> QED BY <1>1, <1>2, <1>3, <2>2, <2>4, <2>5, <2>6 DEF CdInv, CdTypeOK, Served
<1> QED BY <1>4, <1>5

LEMMA CdSaveKept == ASSUME CdInv, CdSave PROVE CdInv'
<1>1. /\ UNCHANGED <<cd, queue, drive, discPresent, ending, sectorSent>> /\ cd.inside = "no" /\ Served
      /\ world' = [world EXCEPT !.unusual = @ + 1, !.saved = <<CdSaveStatus(cd)>>, !.savedInTurn = world.inTurn /\ cd.phase # "Wait"]
  BY DEF CdSave, Returned, driveSide, Served
<1> DEFINE c == CdSaveStatus(cd)
           t == world.inTurn /\ cd.phase # "Wait"
           n == world.unusual + 1
<1>2. c \in CdState /\ c.phase = cd.phase /\ c.status = cd.status /\ c.cmd = cd.cmd
  <2>1. cd.length % LengthValues \in Int
    <3>1. cd.length \in Int
      BY DEF CdInv, CdTypeOK, CdState
    <3>2. LengthValues \in Nat \ {0}
      BY CdAssumption
    <3> QED BY <3>1, <3>2
  <2> QED BY <2>1 DEF CdSaveStatus, CdInv, CdTypeOK, CdState
<1>3. t \in BOOLEAN /\ n \in Nat
  BY DEF CdInv, CdTypeOK, Worlds
<1>4. world' = [world EXCEPT !.unusual = n, !.saved = <<c>>, !.savedInTurn = t]
  BY <1>1 DEF CdInv, CdTypeOK, Worlds
<1>5. Asks(cd) <=> Asks(c)
  BY <1>2, SameAsks
<1>6. t => Loadable(c)
  BY <1>1, <1>2, <1>5 DEF CdInv, InStep, Loadable
<1> HIDE DEF c, t, n
<1>7. world' \in Worlds /\ world'.inTurn = world.inTurn /\ world'.saved = <<c>> /\ world'.savedInTurn = t
  <2> DEFINE l == <<c>>
  <2>1. l \in Seq(CdState)
    BY <1>2
  <2>2. world' = [world EXCEPT !.unusual = n, !.saved = l, !.savedInTurn = t]
    BY <1>4
  <2> HIDE DEF l
  <2>3. world' \in Worlds /\ world'.inTurn = world.inTurn /\ world'.saved = l /\ world'.savedInTurn = t
    BY <1>3, <2>1, <2>2 DEF CdInv, CdTypeOK, Worlds
  <2> QED BY <2>3 DEF l
<1>8. (world.savedInTurn => \A i \in 1 .. Len(world.saved) : Loadable(world.saved[i]))'
  BY <1>6, <1>7 DEF Loadable, Asks, ModeIs
<1>9. InStep => InStep'
  BY <1>1 DEF InStep, Asks, ModeIs, Posted, Answers
<1> QED BY <1>1, <1>7, <1>8, <1>9 DEF CdInv, CdTypeOK, Served

LEMMA CdLoadKept == ASSUME CdInv, CdLoad PROVE CdInv'
<1>1. /\ UNCHANGED <<queue, drive, discPresent, ending, sectorSent>> /\ world.saved # <<>> /\ cd' = CdLoadStatus(world.saved[1])
      /\ world' = [world EXCEPT !.unusual = @ + 1, !.inTurn = world.savedInTurn]
  BY DEF CdLoad, driveSide
<1> DEFINE s == world.saved[1]
<1>2. s \in CdState /\ 1 \in 1 .. Len(world.saved)
  BY <1>1 DEF CdInv, CdTypeOK, Worlds
<1>3. /\ cd' = [s EXCEPT !.active = cd.active, !.enable = cd.enable, !.readMode = cd.readMode, !.clk = cd.clk]
      /\ cd.active \in BOOLEAN /\ cd.enable \in BOOLEAN /\ cd.readMode \in Nat /\ cd.clk \in BOOLEAN
  BY <1>1 DEF CdLoadStatus, CdInv, CdTypeOK, CdState
<1>4. world.savedInTurn => Loadable(s)
  BY <1>2 DEF CdInv
<1> HIDE DEF s
<1>5. cd' \in CdState /\ cd'.phase = s.phase /\ cd'.status = s.status /\ cd'.cmd = s.cmd
  BY <1>2, <1>3 DEF CdState
<1>6. Asks(s) <=> Asks(cd')
  BY <1>5, SameAsks
<1>7. /\ world' \in Worlds /\ world'.inTurn = world.savedInTurn
      /\ world'.saved = world.saved /\ world'.savedInTurn = world.savedInTurn
  <2>1. world.unusual + 1 \in Nat
    BY DEF CdInv, CdTypeOK, Worlds
  <2> QED BY <1>1, <2>1 DEF CdInv, CdTypeOK, Worlds
<1>8. world.savedInTurn => InStep'
  BY <1>4, <1>5, <1>6 DEF Loadable, InStep
<1>9. (world.savedInTurn => \A i \in 1 .. Len(world.saved) : Loadable(world.saved[i]))'
  BY <1>7, SavedKept
<1> QED BY <1>1, <1>5, <1>7, <1>8, <1>9 DEF CdInv, CdTypeOK

LEMMA RegisterKept == ASSUME CdInv, Out98 \/ In98 PROVE CdInv'
<1>1. /\ cd' \in CdState /\ cd'.phase = cd.phase /\ cd'.status = cd.status /\ cd'.cmd = cd.cmd
      /\ cd'.inside = cd.inside
      /\ UNCHANGED <<queue, drive, discPresent, ending, sectorSent>>
  <2>1. cd \in CdState
    BY DEF CdInv, CdTypeOK
  <2>2. \E b \in BOOLEAN : cd' \in {cd, [cd EXCEPT !.playMode = 1], [cd EXCEPT !.clk = b]}
    <3>1. (~cd.clk) \in BOOLEAN
      OBVIOUS
    <3> QED BY <3>1 DEF Out98, In98
  <2>3. UNCHANGED <<queue, drive, discPresent, ending, sectorSent>>
    BY DEF Out98, In98, driveSide
  <2> QED BY <2>1, <2>2, <2>3 DEF CdState
<1>2. /\ world' \in Worlds /\ world'.inTurn = world.inTurn
      /\ world'.saved = world.saved /\ world'.savedInTurn = world.savedInTurn
  <2>1. world.unusual + 1 \in Nat
    BY DEF CdInv, CdTypeOK, Worlds
  <2>2. world' = [world EXCEPT !.unusual = @ + 1]
    BY DEF Out98, In98
  <2> QED BY <2>1, <2>2 DEF CdInv, CdTypeOK, Worlds
<1>3. Asks(cd) <=> Asks(cd')
  BY <1>1, SameAsks
<1>4. InStep => InStep'
  BY <1>1, <1>3 DEF InStep, Posted, Answers
<1>5. (world.savedInTurn => \A i \in 1 .. Len(world.saved) : Loadable(world.saved[i]))'
  BY <1>2, SavedKept
<1> QED BY <1>1, <1>2, <1>4, <1>5 DEF CdInv, CdTypeOK, Served

LEMMA EndingKept == ASSUME CdInv, CleanUpPosts \/ RequestThreadStop \/ ThreadEnds \/ Terminated PROVE CdInv'
<1>1. UNCHANGED <<cd, drive, discPresent, sectorSent, world>>
  BY DEF CleanUpPosts, RequestThreadStop, ThreadEnds, Terminated
<1>2. ending' \in {"no", "posted", "requested", "stopped", "stuck", "terminated"} /\ queue' \in Seq(Orders)
  <2>1. queue \in Seq(Orders) /\ "halt" \in Orders
    BY DEF CdInv, CdTypeOK, Orders
  <2>2. queue # <<>> => Tail(queue) \in Seq(Orders)
    BY <2>1
  <2>3. Append(queue, "halt") \in Seq(Orders)
    BY <2>1
  <2> QED BY <2>1, <2>2, <2>3 DEF CleanUpPosts, RequestThreadStop, ThreadEnds, Terminated
<1>3. Served' => Served /\ queue' = Append(queue, "halt")
  BY DEF Served, Returned, CleanUpPosts, RequestThreadStop, ThreadEnds, Terminated
<1>4. ASSUME queue' = Append(queue, "halt"), Answers(queue) PROVE Answers(queue')
  <2>1. PICK i \in 1 .. Len(queue) : queue[i] # "stop"
    BY <1>4 DEF Answers
  <2>2. i \in 1 .. Len(queue') /\ queue'[i] = queue[i]
    BY <1>4 DEF CdInv, CdTypeOK
  <2> QED BY <2>1, <2>2 DEF Answers
<1>5. ASSUME Served', InStep PROVE InStep'
  BY <1>1, <1>3, <1>4, <1>5 DEF InStep, Asks, ModeIs, Posted
<1>6. (world.savedInTurn => \A i \in 1 .. Len(world.saved) : Loadable(world.saved[i]))'
  BY <1>1, SavedKept
<1> QED BY <1>1, <1>2, <1>3, <1>5, <1>6 DEF CdInv, CdTypeOK

LEMMA CdNextKept == CdInv /\ [CdNext]_cdvars => CdInv'
<1> SUFFICES ASSUME CdInv, [CdNext]_cdvars PROVE CdInv'
  OBVIOUS
<1>1. ASSUME NEW on \in BOOLEAN, Out90(on) PROVE CdInv'
  BY <1>1, Out90Kept
<1>2. ASSUME NEW on \in BOOLEAN, Out9f(on) PROVE CdInv'
  BY <1>2, QuietStep DEF Out9f, CdInv, CdTypeOK, CdState
<1>3. ASSUME NEW on \in BOOLEAN, SystemReset(on) PROVE CdInv'
  BY <1>3, QuietStep DEF SystemReset, CdInv, CdTypeOK, CdState
<1>4. ASSUME UNCHANGED cdvars PROVE CdInv'
  BY <1>4, QuietStep DEF cdvars, driveSide, CdInv, CdTypeOK
<1> QED BY <1>1, <1>2, <1>3, <1>4, RegisterKept, EndingKept, Out91Kept, In91Kept, CallProcessesKept, StillModeSetKept, CdResetKept,
           ExecCommandKept, DoneProcessesKept, CdSaveKept, CdLoadKept DEF CdNext

\* The fields of the interface and the orders stay in their types, calls out of turn and
\* loaded snapshots included.
THEOREM CdTypeCorrect == CdSpec => []CdTypeOK
<1>1. CdInv => CdTypeOK
  BY DEF CdInv
<1> QED BY <1>1, CdInitInv, CdNextKept, PTL DEF CdSpec

\* A busy interface asks for a byte or has an order that will be answered, as long as the
\* program follows the status register (CDIF::ProcessCommand, DataOut, DataIn, Done).
THEOREM DriveAnswersOrAsks == CdSpec => []SomebodyActs
<1>1. CdInv => SomebodyActs
  <2> SUFFICES ASSUME CdInv, Busy \in cd.status, world.inTurn, Served, cd.inside = "no", RequestBit \notin cd.status
               PROVE  cd.phase = "Wait" /\ (drive = "answers" \/ Answers(queue))
    BY DEF SomebodyActs, Answers, Served
  <2> QED BY DEF CdInv, CdTypeOK, CdState, Phases, InStep, Asks, Posted
<1> QED BY <1>1, CdInitInv, CdNextKept, PTL DEF CdSpec
-----------------------------------------------------------------------------
(* The interrupt controller *)

Controller == [mask : SUBSET Nat, mask2 : SUBSET Nat, irq : SUBSET Nat]
\* A controller and a line that tell the same.
Agree(i, l) == i \in Controller /\ l = (Asking(i) # {})
\* The saved controller agrees with the saved line, so that a load restores both.
LineInv ==
  /\ Agree(intc, line)
  /\ snapshot.none \in BOOLEAN
  /\ ~snapshot.none => Agree(snapshot.intc, snapshot.line)

LEMMA RuledAgree ==
  ASSUME NEW i \in Controller
  PROVE  Agree(Ruled(i).intc, Ruled(i).line)
  BY DEF Agree, Ruled

LEMMA RequestAgree ==
  ASSUME NEW i, NEW l, Agree(i, l), NEW n \in Nat
  PROVE  Agree(Request(i, l, n).intc, Request(i, l, n).line)
<1> DEFINE irq == i.irq \union ({n} \intersect i.mask2)
           j == [i EXCEPT !.irq = irq]
<1>1. i \in Controller /\ irq \in SUBSET Nat
  BY DEF Agree, Controller
<1>2. Request(i, l, n) = IF n \in i.irq \intersect i.mask2 THEN [intc |-> i, line |-> l] ELSE Ruled(j)
  BY DEF Request
<1> HIDE DEF irq
<1>3. j \in Controller
  BY <1>1 DEF Controller
<1> HIDE DEF j
<1> QED BY <1>2, <1>3, RuledAgree

LEMMA AcknowledgeAgree ==
  ASSUME NEW i, NEW l, Agree(i, l)
  PROVE  Agree(IntAck(i, l).intc, IntAck(i, l).line)
<1>1. CASE Asking(i) = {}
  BY <1>1 DEF IntAck
<1>2. CASE Asking(i) # {}
  <2> DEFINE n == CHOOSE n \in Asking(i) : \A m \in Asking(i) : n <= m
             irq == i.irq \ {n}
             j == [i EXCEPT !.irq = irq, !.mask = {}]
  <2>1. IntAck(i, l) = [intc |-> j, line |-> FALSE]
    BY <1>2 DEF IntAck, Agree, Controller
  <2>2. i \in Controller /\ irq \in SUBSET Nat
    BY DEF Agree, Controller
  <2> HIDE DEF irq
  <2>3. j \in Controller /\ j.mask = {}
    BY <2>2 DEF Controller
  <2> HIDE DEF j
  <2>4. Asking(j) = {}
    BY <2>3 DEF Asking
  <2>5. IntAck(i, l).intc = j /\ IntAck(i, l).line = FALSE
    BY <2>1
  <2>6. FALSE = (Asking(j) # {})
    BY <2>4
  <2>7. Agree(j, FALSE)
    BY <2>3, <2>6 DEF Agree
  <2> QED BY <2>5, <2>7
<1> QED BY <1>1, <1>2

LEMMA SetMaskAgree ==
  ASSUME NEW i \in Controller, NEW through \in SUBSET Nat
  PROVE  Agree(SetMask(i, through).intc, SetMask(i, through).line)
<1> DEFINE irq == i.irq \intersect through
           j == [i EXCEPT !.mask2 = through, !.irq = irq]
<1>1. irq \in SUBSET Nat
  OBVIOUS
<1>2. SetMask(i, through) = Ruled(j)
  BY DEF SetMask, Controller
<1> HIDE DEF irq
<1>3. j \in Controller
  BY <1>1 DEF Controller
<1> QED BY <1>2, <1>3, RuledAgree

LEMMA SetRegisterAgree ==
  ASSUME NEW i \in Controller, NEW l, NEW level \in Nat
  PROVE  Agree(SetRegister(i, l, level).intc, SetRegister(i, l, level).line)
<1> DEFINE m == 0 .. level - 1
           j == [i EXCEPT !.mask = m]
<1>1. m \in SUBSET Nat
  OBVIOUS
<1>2. SetRegister(i, l, level) = Ruled(j)
  BY DEF SetRegister
<1> HIDE DEF m
<1>3. j \in Controller
  BY <1>1 DEF Controller
<1> QED BY <1>2, <1>3, RuledAgree

LEMMA ResetAgree == IntcReset.intc \in Controller /\ Agree(IntcReset.intc, IntcReset.line)
  BY DEF IntcReset, Controller, Agree, Asking

LEMMA LineInit == TapeInit => LineInv
<1> SUFFICES ASSUME TapeInit PROVE LineInv
  OBVIOUS
<1>1. IntcReset.line = FALSE
  BY DEF IntcReset
<1>2. intc = IntcReset.intc /\ line = FALSE /\ snapshot = [none |-> TRUE]
  BY DEF TapeInit, NoSnapshot
<1> QED BY <1>1, <1>2, ResetAgree DEF LineInv

LEMMA LineKept == LineInv /\ [TapeNext]_tapevars => LineInv'
<1> SUFFICES ASSUME LineInv, [TapeNext]_tapevars PROVE LineInv'
  OBVIOUS
<1>0. ASSUME UNCHANGED snapshot, Agree(intc', line') PROVE LineInv'
  BY <1>0 DEF LineInv, Agree, Asking
<1>1. ASSUME UNCHANGED <<intc, line, snapshot>> PROVE LineInv'
  BY <1>0, <1>1 DEF LineInv, Agree, Asking
<1>2. CASE TimerCallback
  <2>1. \/ UNCHANGED <<intc, line>>
        \/ TakeLine(Request(intc, line, 0))
    BY <1>2 DEF TimerCallback
  <2>2. UNCHANGED snapshot
    BY <1>2 DEF TimerCallback
  <2>3. CASE TakeLine(Request(intc, line, 0))
    BY <1>0, <2>2, <2>3, RequestAgree DEF TakeLine, LineInv
  <2> QED BY <1>1, <2>1, <2>2, <2>3
<1>3. CASE IntcWrite
  <2>1. UNCHANGED snapshot
    BY <1>3 DEF IntcWrite
  <2>2. ASSUME NEW m \in Masks, TakeLine(SetMask(intc, m)) PROVE LineInv'
    BY <1>0, <2>1, <2>2, SetMaskAgree, TapeAssumption DEF TakeLine, LineInv, Agree
  <2>3. ASSUME NEW l \in Levels, TakeLine(SetRegister(intc, line, l)) PROVE LineInv'
    BY <1>0, <2>1, <2>3, SetRegisterAgree, TapeAssumption DEF TakeLine, LineInv, Agree
  <2>4. ASSUME NEW n \in {1, 2}, TakeLine(Request(intc, line, n)) PROVE LineInv'
    BY <1>0, <2>1, <2>4, RequestAgree DEF TakeLine, LineInv
  <2> QED BY <1>3, <2>2, <2>3, <2>4 DEF IntcWrite
<1>4. CASE CpuAcknowledges
  BY <1>0, <1>4, AcknowledgeAgree DEF CpuAcknowledges, TakeLine, LineInv
<1>5. CASE SnapshotSave
  BY <1>5 DEF SnapshotSave, LineInv, Agree, Asking
<1>6. CASE SnapshotLoad
  BY <1>0, <1>6 DEF SnapshotLoad, LineInv
<1>7. CASE MachineResetTape
  BY <1>0, <1>7, ResetAgree, SetMaskAgree DEF MachineResetTape, TakeLine
<1>8. CASE Elapse \/ OtherEvent \/ Out30Motor \/ SioGetData \/ SioSetControl \/ TapeOpen \/ UNCHANGED tapevars
  BY <1>1, <1>8 DEF Elapse, OtherEvent, Out30Motor, SioGetData, SioSetControl, TapeOpen, tapevars
<1> QED BY <1>2, <1>3, <1>4, <1>5, <1>6, <1>7, <1>8 DEF TapeNext

\* The line to the CPU is up just when a request passes both masks, through every order of
\* requests, writes, acknowledgements, resets and snapshots (INTC::IRQ and its callers).
THEOREM LineFollowsRequests == TapeSpec => []LineIsRequest
<1>1. LineInv => LineIsRequest
  BY DEF LineInv, Agree, LineIsRequest
<1> QED BY <1>1, LineInit, LineKept, PTL DEF TapeSpec

-----------------------------------------------------------------------------
(* The disk driver: types.  A file that is open is its name and its use.     *)

FileNames == HostFiles \union {""}
Uses == {"read", "write"}
OpenFiles == {Closed} \union (FileNames \X Uses)
DioState ==
  [phase : {"Idle", "Arg", "Recv", "Send"}, cmd : Commands, status : SUBSET Nat, err : Nat, filename : FileNames,
   file : OpenFiles, write_buffer : BOOLEAN, size : Nat, len : Nat, pos : Nat, buf : Seq(Int)]
Crossings == [orders : Nat, data : Seq(Int), of : OpenFiles, lost : BOOLEAN, surplus : BOOLEAN]
FilesOK(files) == \A f \in DOMAIN files : files[f] \in Seq(Int)

DioTypeOK == dio \in DioState /\ crossed \in Crossings /\ FilesOK(host)

-----------------------------------------------------------------------------
(* The inductive invariant: what each phase of the device awaits, and where  *)
(* the bytes that crossed the ports stand in the file.                       *)

\* A phase under way awaits bytes of a command that has such a phase; an open file
\* is the one whose name was set, and open for what the command does with it.
PhaseOK(d) ==
  /\ d.phase = "Idle" => d.file = Closed
  /\ d.phase = "Send" => d.len = Len(d.buf) /\ d.len > 0 /\ d.cmd \in {"ReadFile", "GetError"}
  /\ d.phase \in {"Arg", "Recv"} => d.len > 0 /\ d.cmd \in {"SetFileName", "WriteFile"}
  /\ d.phase = "Arg" => /\ Len(d.buf) + d.len = IF d.cmd = "SetFileName" THEN 1 ELSE 2
                        /\ \A i \in 1 .. Len(d.buf) : d.buf[i] \in Nat
  /\ d.phase = "Send" /\ d.cmd = "ReadFile" => d.file # Closed
  /\ d.file # Closed =>
       /\ d.file[1] = d.filename
       /\ d.file[2] = "write" => d.cmd = "WriteFile" /\ d.phase \in {"Arg", "Recv"}
       /\ d.file[2] = "read" => d.cmd = "ReadFile" /\ d.phase = "Send" /\ ~d.write_buffer

\* Which file the record of the command is about.
RecordOK(d, files, c) ==
  /\ d.file # Closed => c.of = d.file
  /\ d.phase = "Send" => ~c.lost
  /\ c.surplus => d.phase = "Idle"
  /\ c.of # Closed =>
       /\ c.of[1] \in DOMAIN files
       /\ c.of[2] = "write" => d.cmd \in {"WriteFile", "WriteFlush"}
       /\ c.of[2] = "read" => d.cmd = "ReadFile"
       /\ ~c.lost /\ d.phase # "Idle" => d.file # Closed

Pending(d) == IF d.phase = "Recv" THEN d.buf ELSE <<>>
Written(d, files, c) == files[c.of[1]] \o Pending(d) = c.data

\* Two bytes of the size, then the bytes of the file: the first pos have been fetched.
ReadSoFar(d, f, data) ==
  /\ \A i \in 1 .. Len(data) - 2 : data[i + 2] = f[i]
  /\ d.phase = "Send" =>
       /\ d.pos + d.size = Lesser(MaxSize, Len(f))
       /\ Len(data) + Len(d.buf) = d.pos + 2
       /\ \A i \in 1 .. Len(d.buf) : Len(data) + i > 2 => d.buf[i] = f[Len(data) + i - 2]
  /\ d.phase = "Idle" => Len(data) = Lesser(MaxSize, Len(f)) + 2

BytesOK(d, files, c) ==
  c.of # Closed /\ ~c.lost =>
    /\ c.of[2] = "write" => IF c.surplus THEN StartsWith(files[c.of[1]], c.data) ELSE Written(d, files, c)
    /\ c.of[2] = "read" => ReadSoFar(d, files[c.of[1]], c.data)

DioInv == DioTypeOK /\ PhaseOK(dio) /\ RecordOK(dio, host, crossed) /\ BytesOK(dio, host, crossed)

LEMMA NotClosed == \A f \in FileNames \X Uses : f # Closed
BY DEF Closed

LEMMA FileIs == ASSUME NEW f \in OpenFiles, f # Closed PROVE f[1] \in FileNames /\ f[2] \in Uses /\ f = <<f[1], f[2]>>
BY DEF OpenFiles

LEMMA SizeIsNat == MaxSize \in Nat
<1>1. \A r \in Nat \ {0} : r * r >= 1 /\ r * r \in Nat
  OBVIOUS
<1> QED BY <1>1, DioAssumption DEF MaxSize

LEMMA DioInitInv == DioInit => DioInv
<1> SUFFICES ASSUME DioInit PROVE DioInv
  OBVIOUS
<1> USE DEF DioInit
<1>1. DioTypeOK
  <2>0. <<>> \in Seq(Int) /\ Len(<<>>) = 0
    BY EmptySeq
  <2>1. dio \in DioState
    BY <2>0 DEF DioState, Commands, OpenFiles, FileNames
  <2>2. crossed \in Crossings
    BY <2>0 DEF Crossings, OpenFiles
  <2>3. DOMAIN host = {}
    <3>1. DOMAIN host = 1 .. Len(host)
      BY <2>0, LenProperties
    <3>2. host = <<>>
      OBVIOUS
    <3> HIDE DEF DioInit
    <3>3. 1 .. 0 = {}
      OBVIOUS
    <3> QED BY <2>0, <3>1, <3>2, <3>3
  <2> QED BY <2>1, <2>2, <2>3 DEF DioTypeOK, FilesOK
<1>2. PhaseOK(dio) /\ RecordOK(dio, host, crossed) /\ BytesOK(dio, host, crossed)
  BY DEF PhaseOK, RecordOK, BytesOK, Closed
<1> QED BY <1>1, <1>2 DEF DioInv

-----------------------------------------------------------------------------
(* A command that is given, with the files closed. *)

\* What the device is told to forget when a command comes.
Fresh(d, n) == [orders |-> n, data |-> <<>>, of |-> d.file, lost |-> FALSE, surplus |-> FALSE]
Holds(d, files, c) == PhaseOK(d) /\ RecordOK(d, files, c) /\ BytesOK(d, files, c)
Begins(r) ==
  /\ r.dio \in DioState /\ FilesOK(r.host)
  /\ \A n \in Nat : Holds(r.dio, r.host, Fresh(r.dio, n))

LEMMA IdleTyped ==
  ASSUME NEW d \in DioState
  PROVE  /\ IdlePhase(d) \in DioState
         /\ IdlePhase(d).phase = "Idle" /\ IdlePhase(d).file = Closed /\ IdlePhase(d).cmd = d.cmd
BY EmptySeq DEF IdlePhase, DioState, OpenFiles

LEMMA ClosedBegins ==
  ASSUME NEW d \in DioState, NEW files, FilesOK(files), PhaseOK(d), d.file = Closed
  PROVE  Begins(Handled(d, files))
BY DEF Begins, Holds, RecordOK, BytesOK, Fresh, Handled

LEMMA IdleBegins ==
  ASSUME NEW d \in DioState, NEW files, FilesOK(files), d.phase = "Idle", d.file = Closed
  PROVE  Begins(Handled(d, files))
BY ClosedBegins DEF PhaseOK

LEMMA SendTyped ==
  ASSUME NEW d \in DioState, NEW bytes \in Seq(Int)
  PROVE  /\ SendPhase(d, bytes) \in DioState
         /\ SendPhase(d, bytes).phase = "Send" /\ SendPhase(d, bytes).buf = bytes
         /\ SendPhase(d, bytes).len = Len(bytes)
         /\ SendPhase(d, bytes).cmd = d.cmd /\ SendPhase(d, bytes).file = d.file
         /\ SendPhase(d, bytes).filename = d.filename /\ SendPhase(d, bytes).size = d.size
         /\ SendPhase(d, bytes).pos = d.pos /\ SendPhase(d, bytes).write_buffer = d.write_buffer
<1>1. d.status \union {2, 4} \in SUBSET Nat /\ Len(bytes) \in Nat
  BY LenProperties DEF DioState
<1> QED BY <1>1 DEF SendPhase, DioState

LEMMA ArgTyped ==
  ASSUME NEW d \in DioState, NEW n \in Nat
  PROVE  /\ ArgPhase(d, n) \in DioState
         /\ ArgPhase(d, n).phase = "Arg" /\ ArgPhase(d, n).buf = <<>> /\ ArgPhase(d, n).len = n
         /\ ArgPhase(d, n).cmd = d.cmd /\ ArgPhase(d, n).file = d.file /\ ArgPhase(d, n).filename = d.filename
BY EmptySeq DEF ArgPhase, DioState

LEMMA RecvTyped ==
  ASSUME NEW d \in DioState, NEW n \in Nat
  PROVE  /\ RecvPhase(d, n) \in DioState
         /\ RecvPhase(d, n).phase = "Recv" /\ RecvPhase(d, n).buf = <<>> /\ RecvPhase(d, n).len = n
         /\ RecvPhase(d, n).cmd = d.cmd /\ RecvPhase(d, n).file = d.file /\ RecvPhase(d, n).filename = d.filename
<1>1. d.status \union {2} \in SUBSET Nat
  BY DEF DioState
<1> QED BY <1>1, EmptySeq DEF RecvPhase, DioState

LEMMA NameBegins ==
  ASSUME NEW d \in DioState, NEW files, FilesOK(files), NEW name,
         d.phase = "Idle", d.file = Closed, d.cmd = "SetFileName"
  PROVE  Begins(CmdSetFileName(d, files, name))
<1>1. CmdSetFileName(d, files, name) = Handled(ArgPhase(d, 1), files)
  BY DEF CmdSetFileName
<1>2. PhaseOK(ArgPhase(d, 1))
  <2> DEFINE a == ArgPhase(d, 1)
  <2>1. a.phase = "Arg" /\ a.buf = <<>> /\ a.len = 1 /\ a.cmd = "SetFileName" /\ a.file = Closed
    BY ArgTyped
  <2>2. Len(a.buf) = 0
    BY <2>1, EmptySeq
  <2> HIDE DEF a
  <2>3. PhaseOK(a)
    BY <2>1, <2>2 DEF PhaseOK
  <2> QED BY <2>3 DEF a
<1> QED BY <1>1, <1>2, ArgTyped, ClosedBegins

LEMMA ErrorBegins ==
  ASSUME NEW d \in DioState, NEW files, FilesOK(files), d.phase = "Idle", d.file = Closed, d.cmd = "GetError"
  PROVE  Begins(CmdGetError(d, files))
<1>1. CmdGetError(d, files) = Handled(SendPhase(d, <<d.err>>), files)
  BY DEF CmdGetError
<1> DEFINE bytes == <<d.err>>
           s == SendPhase(d, bytes)
<1>2. bytes \in Seq(Int) /\ Len(bytes) = 1
  BY DEF DioState
<1> HIDE DEF bytes
<1>3. /\ s \in DioState /\ s.phase = "Send" /\ s.buf = bytes /\ s.len = 1 /\ s.cmd = "GetError"
      /\ s.file = Closed
  BY <1>2, SendTyped
<1> HIDE DEF s
<1>4. PhaseOK(s)
  BY <1>2, <1>3 DEF PhaseOK
<1> QED BY <1>1, <1>3, <1>4, ClosedBegins DEF s, bytes

LEMMA LesserIs ==
  ASSUME NEW a \in Nat, NEW b \in Nat
  PROVE  Lesser(a, b) \in Nat /\ Lesser(a, b) <= a /\ Lesser(a, b) <= b /\ (a > 0 /\ b > 0 => Lesser(a, b) > 0)
BY DEF Lesser

LEMMA ReadBegins ==
  ASSUME NEW d \in DioState, NEW files, FilesOK(files), NEW ok,
         d.phase = "Idle", d.file = Closed, d.cmd = "ReadFile"
  PROVE  Begins(CmdReadFile(d, files, ok))
<1>1. CASE d.filename \in DOMAIN files /\ ok
  <2> DEFINE f == files[d.filename]
             size == Lesser(MaxSize, Len(f))
             opened == [Open(d, "read") EXCEPT !.write_buffer = FALSE, !.size = size, !.pos = 0]
             bytes == <<size % Radix, size \div Radix>>
             s == SendPhase(opened, bytes)
  <2>1. CmdReadFile(d, files, ok) = Handled(s, files)
    BY <1>1 DEF CmdReadFile
  <2>2. f \in Seq(Int) /\ Len(f) \in Nat /\ size \in Nat
    BY <1>1, SizeIsNat, LesserIs, LenProperties DEF FilesOK
  <2>3. bytes \in Seq(Int) /\ Len(bytes) = 2
    BY <2>2, DioAssumption
  <2> HIDE DEF size, bytes
  <2>4. /\ opened \in DioState /\ opened.file = <<d.filename, "read">> /\ opened.filename = d.filename
        /\ opened.size = size /\ opened.pos = 0 /\ opened.cmd = "ReadFile" /\ ~opened.write_buffer
    BY <2>2 DEF Open, DioState, OpenFiles, Uses
  <2> HIDE DEF opened
  <2>5. /\ s \in DioState /\ s.phase = "Send" /\ s.buf = bytes /\ s.len = 2 /\ s.file = <<d.filename, "read">>
        /\ s.filename = d.filename /\ s.size = size /\ s.pos = 0 /\ s.cmd = "ReadFile" /\ ~s.write_buffer
    BY <2>3, <2>4, SendTyped
  <2> HIDE DEF s
  <2>6. PhaseOK(s)
    <3>1. s.file # Closed /\ s.file[1] = d.filename /\ s.file[2] = "read"
      BY <2>5, NotClosed DEF DioState, Uses
    <3> QED BY <2>3, <2>5, <3>1 DEF PhaseOK
  <2>7. ASSUME NEW n \in Nat PROVE RecordOK(s, files, Fresh(s, n)) /\ BytesOK(s, files, Fresh(s, n))
    <3>1. RecordOK(s, files, Fresh(s, n))
      BY <1>1, <2>5 DEF RecordOK, Fresh
    <3>2. ReadSoFar(s, f, <<>>)
      <4>1. Len(<<>>) = 0 /\ 1 .. (0 - 2) = {}
        BY EmptySeq
      <4>2. s.pos + s.size = size /\ Len(s.buf) = 2
        BY <2>2, <2>3, <2>5
      <4> QED BY <2>5, <4>1, <4>2 DEF ReadSoFar, size
    <3> QED BY <2>5, <3>1, <3>2 DEF BytesOK, Fresh
  <2> QED BY <2>1, <2>5, <2>6, <2>7 DEF Begins, Holds, Handled
<1>2. CASE ~(d.filename \in DOMAIN files /\ ok)
  <2> DEFINE e == [d EXCEPT !.write_buffer = FALSE, !.err = 53]
  <2>1. CmdReadFile(d, files, ok) = Handled(IdlePhase(e), files)
    BY <1>2 DEF CmdReadFile
  <2>2. e \in DioState
    BY DEF DioState
  <2> QED BY <2>1, <2>2, IdleTyped, IdleBegins
<1> QED BY <1>1, <1>2

LEMMA HoldingIs ==
  ASSUME NEW files, NEW name \in FileNames, NEW bytes \in Seq(Int), FilesOK(files)
  PROVE  /\ FilesOK(Holding(files, name, bytes)) /\ name \in DOMAIN Holding(files, name, bytes)
         /\ DOMAIN files \subseteq DOMAIN Holding(files, name, bytes)
         /\ Holding(files, name, bytes)[name] = bytes
BY DEF FilesOK, Holding

LEMMA FailTyped ==
  ASSUME NEW d \in DioState, NEW files, NEW err \in Nat
  PROVE  LET r == Fail(d, files, err)
         IN /\ r.dio \in DioState /\ r.host = files
            /\ r.dio.phase = "Idle" /\ r.dio.file = Closed /\ r.dio.cmd = d.cmd
            /\ r = Handled(r.dio, files)
BY IdleTyped DEF Fail, Handled, DioState

LEMMA WriteBegins ==
  ASSUME NEW d \in DioState, NEW files, FilesOK(files), NEW ok,
         d.phase = "Idle", d.file = Closed, d.cmd = "WriteFile"
  PROVE  Begins(CmdWriteFile(d, files, ok))
<1> DEFINE b == [d EXCEPT !.write_buffer = TRUE]
<1>1. b \in DioState /\ b.cmd = "WriteFile" /\ b.filename = d.filename
  BY DEF DioState
<1>2. CASE ok /\ d.filename \in HostFiles
  <2> DEFINE o == Open(b, "write")
             a == ArgPhase(o, 2)
             empty == <<>>
             h == Holding(files, d.filename, empty)
  <2>1. CmdWriteFile(d, files, ok) = Handled(a, h)
    BY <1>2 DEF CmdWriteFile
  <2>2. o \in DioState /\ o.file = <<d.filename, "write">> /\ o.cmd = "WriteFile" /\ o.filename = d.filename
    BY <1>1 DEF Open, DioState, OpenFiles, Uses
  <2> HIDE DEF o
  <2>3. /\ a \in DioState /\ a.phase = "Arg" /\ a.buf = <<>> /\ a.len = 2 /\ a.cmd = "WriteFile"
        /\ a.file = <<d.filename, "write">> /\ a.filename = d.filename
    BY <2>2, ArgTyped
  <2>4. FilesOK(h) /\ d.filename \in DOMAIN h /\ h[d.filename] = <<>>
    <3>1. empty \in Seq(Int)
      BY EmptySeq
    <3> HIDE DEF empty
    <3>2. FilesOK(h) /\ d.filename \in DOMAIN h /\ h[d.filename] = empty
      BY <3>1, HoldingIs DEF DioState
    <3> QED BY <3>2 DEF empty
  <2> HIDE DEF a, h
  <2>5. PhaseOK(a)
    BY <2>3, EmptySeq DEF PhaseOK
  <2>6. ASSUME NEW n \in Nat PROVE RecordOK(a, h, Fresh(a, n)) /\ BytesOK(a, h, Fresh(a, n))
    <3>1. RecordOK(a, h, Fresh(a, n))
      BY <2>3, <2>4 DEF RecordOK, Fresh
    <3>2. <<>> \o <<>> = <<>>
      BY EmptySeq, ConcatEmptySeq
    <3> QED BY <2>3, <2>4, <3>1, <3>2 DEF BytesOK, Written, Pending, Fresh
  <2> QED BY <2>1, <2>3, <2>4, <2>5, <2>6 DEF Begins, Holds, Handled
<1>3. CASE ~(ok /\ d.filename \in HostFiles)
  <2>1. CmdWriteFile(d, files, ok) = Fail(b, files, 60)
    BY <1>3 DEF CmdWriteFile
  <2> QED BY <1>1, <2>1, FailTyped, IdleBegins
<1> QED BY <1>2, <1>3

LEMMA LeftoversTyped == Leftovers \subseteq Seq(Int)
<1> SUFFICES ASSUME NEW n \in 0 .. Block, NEW left \in [1 .. n -> Values] PROVE left \in Seq(Int)
  BY DEF Leftovers
<1>1. n \in Nat /\ Values \subseteq Int
  BY DioAssumption
<1>2. left \in [1 .. n -> Int]
  BY <1>1
<1> QED BY <1>1, <1>2, SeqDef

LEMMA OrderedIs ==
  ASSUME DioInv, NEW c \in Commands, NEW left \in Leftovers
  PROVE  LET d == Ordered(c, left)
         IN /\ d \in DioState /\ d.phase = "Idle" /\ d.cmd = c
            /\ d.filename = dio.filename /\ d.buf = (IF dio.phase = "Recv" THEN dio.buf ELSE left)
            /\ d.write_buffer = dio.write_buffer
            /\ d.file # Closed => c = "WriteFlush" /\ dio.write_buffer /\ d.file = dio.file
<1> DEFINE bytes == IF dio.phase = "Recv" THEN dio.buf ELSE left
           going == IF c = "WriteFlush" /\ dio.write_buffer THEN dio ELSE [dio EXCEPT !.file = Closed]
<1>1. /\ going \in DioState /\ going.filename = dio.filename /\ going.buf = dio.buf
      /\ going.write_buffer = dio.write_buffer
      /\ going.file # Closed => c = "WriteFlush" /\ dio.write_buffer /\ going.file = dio.file
  BY DEF DioInv, DioTypeOK, DioState, OpenFiles
<1>2. Ordered(c, left) = [going EXCEPT !.phase = "Idle", !.cmd = c, !.status = @ \union {1}, !.buf = bytes]
  BY <1>1 DEF Ordered
<1>2a. bytes \in Seq(Int)
  BY LeftoversTyped DEF DioInv, DioTypeOK, DioState
<1> HIDE DEF going, bytes
<1>3. going.status \union {1} \in SUBSET Nat
  BY <1>1 DEF DioState
<1>4. LET d == Ordered(c, left)
      IN /\ d \in DioState /\ d.phase = "Idle" /\ d.cmd = c
         /\ d.filename = going.filename /\ d.buf = bytes /\ d.write_buffer = going.write_buffer
         /\ d.file = going.file
  BY <1>1, <1>2, <1>2a, <1>3 DEF DioState
<1> QED BY <1>1, <1>4 DEF bytes

LEMMA FlushIs ==
  ASSUME NEW d \in DioState, d.phase = "Idle", d.cmd = "WriteFlush", NEW files, FilesOK(files), NEW ok \in BOOLEAN
  PROVE  LET r == CmdWriteFlush(d, files, ok)
         IN /\ r.dio \in DioState /\ r.dio.phase = "Idle" /\ r.dio.file = Closed /\ r.dio.cmd = "WriteFlush"
            /\ r = Handled(r.dio, r.host)
            /\ d.file = Closed => r.host = files
            /\ d.file # Closed /\ d.write_buffer =>
                 r.host = IF ok THEN Holding(files, d.filename, files[d.filename] \o d.buf) ELSE files
<1> DEFINE r == CmdWriteFlush(d, files, ok)
<1>1. CASE d.write_buffer
  <2> DEFINE e == [d EXCEPT !.write_buffer = FALSE]
  <2>1. r = Handled(IdlePhase(e), IF ok THEN Write(d, files, d.buf) ELSE files)
    BY <1>1 DEF CmdWriteFlush
  <2>2. e \in DioState /\ e.cmd = "WriteFlush"
    BY DEF DioState
  <2> HIDE DEF e
  <2>3. r.dio = IdlePhase(e) /\ r.host = IF ok THEN Write(d, files, d.buf) ELSE files
    BY <2>1 DEF Handled
  <2> HIDE DEF r
  <2> QED BY <2>1, <2>2, <2>3, IdleTyped DEF Write, r
<1>2. CASE ~d.write_buffer
  <2> DEFINE e == [d EXCEPT !.err = 51]
  <2>1. r = Handled(IdlePhase(e), files)
    BY <1>2 DEF CmdWriteFlush
  <2>2. e \in DioState /\ e.cmd = "WriteFlush"
    BY DEF DioState
  <2> HIDE DEF e
  <2>3. r.dio = IdlePhase(e) /\ r.host = files
    BY <2>1 DEF Handled
  <2> HIDE DEF r
  <2> QED BY <1>2, <2>1, <2>2, <2>3, IdleTyped DEF r
<1> QED BY <1>1, <1>2

LEMMA OrderBegins ==
  ASSUME NEW d \in DioState, NEW ok \in BOOLEAN, FilesOK(host), d.phase = "Idle", d.file = Closed
  PROVE  Begins(ProcCommand(d, host, "", ok))
<1>1. CASE d.cmd = "SetFileName"
  BY <1>1, NameBegins DEF ProcCommand
<1>2. CASE d.cmd = "ReadFile"
  BY <1>2, ReadBegins DEF ProcCommand
<1>3. CASE d.cmd = "WriteFile"
  BY <1>3, WriteBegins DEF ProcCommand
<1>4. CASE d.cmd = "GetError"
  BY <1>4, ErrorBegins DEF ProcCommand
<1>5. CASE d.cmd = "WriteFlush"
  <2> DEFINE r == CmdWriteFlush(d, host, ok)
  <2>1. /\ r.dio \in DioState /\ r.dio.phase = "Idle" /\ r.dio.file = Closed /\ r.host = host
        /\ r = Handled(r.dio, r.host)
    BY <1>5, FlushIs
  <2>2. ProcCommand(d, host, "", ok) = r
    BY <1>5 DEF ProcCommand
  <2> HIDE DEF r
  <2> QED BY <2>1, <2>2, IdleBegins
<1>6. CASE d.cmd = "Other"
  <2>1. ProcCommand(d, host, "", ok) = Handled(IdlePhase(d), host)
    BY <1>6 DEF ProcCommand
  <2> QED BY <2>1, IdleTyped, IdleBegins
<1> QED BY <1>1, <1>2, <1>3, <1>4, <1>5, <1>6 DEF DioState, Commands

\* The order to flush while a file is being written, within a record or outside of one.
Flushing(ok, left) ==
  LET d == Ordered("WriteFlush", left)
  IN /\ d.file # Closed
     /\ dio' = ProcCommand(d, host, "", ok).dio /\ host' = ProcCommand(d, host, "", ok).host
     /\ crossed' = [orders |-> crossed.orders + 1, data |-> crossed.data, of |-> crossed.of,
                    lost |-> crossed.lost \/ Lost(d, host, "", ok), surplus |-> dio.phase # "Recv"]

LEMMA FlushKept ==
  ASSUME DioInv, NEW ok \in BOOLEAN, NEW left \in Leftovers, Flushing(ok, left)
  PROVE  DioInv'
<1> DEFINE d == Ordered("WriteFlush", left)
           n == dio.filename
           bytes == IF dio.phase = "Recv" THEN dio.buf ELSE left
           all == host[n] \o bytes
           r(o) == CmdWriteFlush(d, host, o)
<1> USE DEF DioInv, DioTypeOK
<1>1. /\ d \in DioState /\ d.phase = "Idle" /\ d.cmd = "WriteFlush" /\ d.filename = n /\ d.buf = bytes
      /\ d.write_buffer /\ d.file = dio.file /\ dio.file # Closed
  BY OrderedIs DEF Commands, Flushing
<1>2. \A o \in BOOLEAN : ProcCommand(d, host, "", o) = r(o)
  BY <1>1 DEF ProcCommand
<1> HIDE DEF d
<1>3. \A o \in BOOLEAN : /\ r(o).dio \in DioState /\ r(o).dio.phase = "Idle" /\ r(o).dio.file = Closed
                         /\ r(o).dio.cmd = "WriteFlush"
                         /\ r(o).host = IF o THEN Holding(host, n, all) ELSE host
  <2> SUFFICES ASSUME NEW o \in BOOLEAN
               PROVE  /\ r(o).dio \in DioState /\ r(o).dio.phase = "Idle" /\ r(o).dio.file = Closed
                      /\ r(o).dio.cmd = "WriteFlush"
                      /\ r(o).host = IF o THEN Holding(host, n, all) ELSE host
    OBVIOUS
  <2>1. FilesOK(host) /\ d.file # Closed
    BY <1>1
  <2> HIDE DEF r, all
  <2>2. LET q == r(o)
        IN /\ q.dio \in DioState /\ q.dio.phase = "Idle" /\ q.dio.file = Closed /\ q.dio.cmd = "WriteFlush"
           /\ q.host = IF o THEN Holding(host, d.filename, host[d.filename] \o d.buf) ELSE host
    BY <1>1, <2>1, FlushIs DEF r
  <2>3. d.filename = n /\ host[d.filename] \o d.buf = all
    BY <1>1 DEF all
  <2> QED BY <2>2, <2>3
<1>4. /\ dio.file[1] = n /\ dio.file[2] = "write" /\ crossed.of = dio.file
      /\ dio.phase \in {"Recv", "Arg"} /\ ~crossed.surplus
  <2>1. dio.file[1] = n /\ crossed.of = dio.file /\ dio.phase # "Idle"
    BY <1>1 DEF Flushing, PhaseOK, RecordOK
  <2>2. dio.file[2] \in Uses
    BY <1>1, FileIs DEF DioState
  <2>3. dio.write_buffer
    BY OrderedIs DEF Commands, Flushing
  <2> QED BY <1>1, <2>1, <2>2, <2>3 DEF PhaseOK, Uses, RecordOK, DioState
<1>5. n \in FileNames /\ n \in DOMAIN host /\ host[n] \in Seq(Int) /\ all \in Seq(Int) /\ all \o <<>> = all
  <2>1. n \in FileNames /\ n \in DOMAIN host /\ host[n] \in Seq(Int) /\ bytes \in Seq(Int)
    BY <1>1, <1>4, LeftoversTyped DEF RecordOK, FilesOK, DioState
  <2>2. all \in Seq(Int)
    BY <2>1, ConcatProperties
  <2> QED BY <2>1, <2>2, ConcatEmptySeq
<1>6. ~crossed.lost => IF dio.phase = "Recv" THEN all = crossed.data ELSE StartsWith(all, crossed.data)
  <2> SUFFICES ASSUME ~crossed.lost
               PROVE  IF dio.phase = "Recv" THEN all = crossed.data ELSE StartsWith(all, crossed.data)
    OBVIOUS
  <2> DEFINE f == host[n]
             data == crossed.data
  <2>1. f \o Pending(dio) = data
    BY <1>1, <1>4 DEF BytesOK, Written
  <2>2. CASE dio.phase = "Recv"
    BY <2>1, <2>2 DEF Pending
  <2>3. CASE dio.phase = "Arg"
    <3>1. f \o <<>> = data /\ f \in Seq(Int) /\ left \in Seq(Int)
      BY <1>5, <2>1, <2>3, LeftoversTyped DEF Pending
    <3>2. all = f \o left
      BY <2>3
    <3> HIDE DEF f, data, all
    <3>3. f = data
      BY <3>1, ConcatEmptySeq
    <3>4. Len(f \o left) = Len(f) + Len(left) /\ \A i \in 1 .. Len(f) : (f \o left)[i] = f[i]
      BY <3>1, ConcatProperties, LenProperties
    <3>5. Len(f) \in Nat /\ Len(left) \in Nat
      BY <3>1, LenProperties
    <3>6. StartsWith(all, data)
      BY <3>2, <3>3, <3>4, <3>5 DEF StartsWith
    <3> QED BY <2>3, <3>6 DEF data
  <2> QED BY <1>4, <2>2, <2>3
<1> HIDE DEF r, all, bytes
<1>6a. FilesOK(host) /\ crossed \in Crossings
  OBVIOUS
<1> HIDE DEF DioInv, DioTypeOK
<1>7. /\ dio' \in DioState /\ dio'.phase = "Idle" /\ dio'.file = Closed /\ dio'.cmd = "WriteFlush"
      /\ host' = IF ok THEN Holding(host, n, all) ELSE host
  BY <1>2, <1>3 DEF Flushing, d
<1>8. FilesOK(host') /\ n \in DOMAIN host' /\ (ok => host'[n] = all)
  <2> DEFINE h == Holding(host, n, all)
  <2>1. FilesOK(h) /\ n \in DOMAIN h /\ h[n] = all
    BY <1>5, <1>6a, HoldingIs
  <2> HIDE DEF h
  <2>2. host' = IF ok THEN h ELSE host
    BY <1>7 DEF h
  <2>3. CASE ok
    <3>1. host' = h
      BY <2>2, <2>3
    <3> QED BY <2>1, <3>1 DEF FilesOK
  <2>4. CASE ~ok
    <3>1. host' = host
      BY <2>2, <2>4
    <3> QED BY <1>5, <1>6a, <2>4, <3>1 DEF FilesOK
  <2> QED BY <2>3, <2>4
<1>9. /\ crossed'.of = crossed.of /\ crossed'.data = crossed.data /\ crossed' \in Crossings
      /\ crossed'.surplus = (dio.phase # "Recv")
      /\ ~crossed'.lost => ~crossed.lost /\ ~Lost(d, host, "", ok)
  <2> DEFINE l == crossed.lost \/ Lost(d, host, "", ok)
  <2>1. l \in BOOLEAN /\ (~l => ~crossed.lost /\ ~Lost(d, host, "", ok))
    OBVIOUS
  <2>2. crossed' = [orders |-> crossed.orders + 1, data |-> crossed.data, of |-> crossed.of, lost |-> l,
                    surplus |-> dio.phase # "Recv"]
    BY DEF Flushing, d
  <2> HIDE DEF l
  <2>3. PICK m \in BOOLEAN :
          /\ m = l
          /\ crossed' = [orders |-> crossed.orders + 1, data |-> crossed.data, of |-> crossed.of, lost |-> m,
                         surplus |-> dio.phase # "Recv"]
    BY <2>1, <2>2
  <2>4. /\ crossed'.of = crossed.of /\ crossed'.data = crossed.data /\ crossed' \in Crossings
        /\ crossed'.lost = m /\ crossed'.surplus = (dio.phase # "Recv")
    BY <1>6a, <2>3 DEF Crossings
  <2> QED BY <2>1, <2>3, <2>4
<1>10. ASSUME ~crossed'.lost PROVE host'[n] = all
  <2>1. CASE ok
    BY <1>8, <2>1
  <2>2. CASE ~ok
    <3>1. r(TRUE) = r(FALSE)
      BY <1>2, <1>9, <1>10, <2>2 DEF Lost
    <3>2. Holding(host, n, all) = host
      BY <1>3, <3>1
    <3>3. Holding(host, n, all)[n] = all
      BY <1>5, <1>6a, HoldingIs
    <3> QED BY <1>7, <2>2, <3>2, <3>3
  <2> QED BY <2>1, <2>2
<1>11. PhaseOK(dio') /\ RecordOK(dio', host', crossed')
  BY <1>4, <1>7, <1>8, <1>9 DEF PhaseOK, RecordOK
<1>12. BytesOK(dio', host', crossed')
  BY <1>4, <1>5, <1>6, <1>7, <1>9, <1>10 DEF BytesOK, Written, Pending
<1> QED BY <1>7, <1>8, <1>9, <1>11, <1>12 DEF DioInv, DioTypeOK

\* A command whose host answers ok, with the bytes left in the buffer.
Commanded(c, ok, left) ==
  LET d == Ordered(c, left)
      after == ProcCommand(d, host, "", ok)
      flushed == c = "WriteFlush" /\ d.file # Closed
  IN /\ dio' = after.dio /\ host' = after.host
     /\ crossed' = [orders |-> crossed.orders + 1, data |-> IF flushed THEN crossed.data ELSE <<>>,
                    of |-> IF flushed THEN crossed.of ELSE after.dio.file,
                    lost |-> flushed /\ (crossed.lost \/ Lost(d, host, "", ok)),
                    surplus |-> flushed /\ dio.phase # "Recv"]

LEMMA CommandedKept ==
  ASSUME DioInv, NEW c \in Commands, NEW ok \in BOOLEAN, NEW left \in Leftovers, Commanded(c, ok, left)
  PROVE  DioInv'
<1> DEFINE d == Ordered(c, left)
           after == ProcCommand(d, host, "", ok)
           flushed == c = "WriteFlush" /\ d.file # Closed
<1>1. /\ dio' = after.dio /\ host' = after.host
      /\ crossed' = [orders |-> crossed.orders + 1, data |-> IF flushed THEN crossed.data ELSE <<>>,
                     of |-> IF flushed THEN crossed.of ELSE after.dio.file,
                     lost |-> flushed /\ (crossed.lost \/ Lost(d, host, "", ok)),
                     surplus |-> flushed /\ dio.phase # "Recv"]
  BY DEF Commanded
<1>2. d \in DioState /\ d.phase = "Idle" /\ (d.file # Closed => c = "WriteFlush")
  BY OrderedIs
<1>3. CASE d.file = Closed
  <2>1. Begins(after)
    BY <1>2, <1>3, OrderBegins DEF DioInv, DioTypeOK
  <2> HIDE DEF after, d
  <2>2. crossed' = Fresh(dio', crossed.orders + 1)
    BY <1>1, <1>3 DEF Fresh
  <2>3. crossed.orders + 1 \in Nat
    BY DEF DioInv, DioTypeOK, Crossings
  <2>4. dio' \in DioState /\ FilesOK(host') /\ Holds(dio', host', Fresh(dio', crossed.orders + 1))
    BY <1>1, <2>1, <2>3 DEF Begins
  <2>5. crossed' \in Crossings
    <3>1. <<>> \in Seq(Int)
      BY EmptySeq
    <3> QED BY <2>2, <2>3, <2>4, <3>1 DEF Fresh, Crossings, DioState
  <2> QED BY <2>2, <2>4, <2>5 DEF DioInv, DioTypeOK, Holds
<1>4. CASE d.file # Closed
  <2>1. c = "WriteFlush"
    BY <1>2, <1>4
  <2>2. Flushing(ok, left)
    BY <1>1, <1>4, <2>1 DEF Flushing
  <2> QED BY <2>2, FlushKept
<1> QED BY <1>3, <1>4

LEMMA SetCommandKept == ASSUME DioInv, NEW c \in Commands, SetCommand(c) PROVE DioInv'
<1>1. PICK ok \in BOOLEAN, left \in Leftovers : Commanded(c, ok, left)
  BY DEF SetCommand, Commanded
<1> QED BY <1>1, CommandedKept

-----------------------------------------------------------------------------
(* A byte that the program sends. *)

LEMMA ReceivedIs ==
  ASSUME DioInv, NEW byte \in Nat, dio.phase \in {"Recv", "Arg"}
  PROVE  LET d == ByteReceived(dio, byte)
         IN /\ d \in DioState /\ d.buf = Append(dio.buf, byte) /\ d.len = dio.len - 1
            /\ d.phase = dio.phase /\ d.cmd = dio.cmd /\ d.file = dio.file /\ d.filename = dio.filename
            /\ d.size = dio.size
<1>1. dio \in DioState /\ dio.len \in Nat /\ dio.len > 0 /\ dio.buf \in Seq(Int)
  BY DEF DioInv, DioTypeOK, DioState, PhaseOK
<1> DEFINE s == IF dio.len - 1 = 0 THEN dio.status \ {2} ELSE dio.status
           t == IF dio.len = 1 THEN dio.status \ {2} ELSE dio.status
           b == Append(dio.buf, byte)
<1>2. t \in SUBSET Nat /\ dio.len - 1 \in Nat
  BY <1>1 DEF DioState
<1>3. b \in Seq(Int)
  BY <1>1, AppendProperties
<1>4. ByteReceived(dio, byte) = [dio EXCEPT !.buf = b, !.len = dio.len - 1, !.status = t]
  BY DEF ByteReceived
<1> HIDE DEF t, b
<1>5. LET d == ByteReceived(dio, byte)
      IN /\ d \in DioState /\ d.buf = b /\ d.len = dio.len - 1
         /\ d.phase = dio.phase /\ d.cmd = dio.cmd /\ d.file = dio.file /\ d.filename = dio.filename
         /\ d.size = dio.size
  BY <1>1, <1>2, <1>3, <1>4 DEF DioState
<1> QED BY <1>5 DEF b

LEMMA AppendBehind ==
  ASSUME NEW s \in Seq(Int), NEW t \in Seq(Int), NEW x \in Int
  PROVE  Append(s \o t, x) = s \o Append(t, x)
<1>1. s \o t \in Seq(Int) /\ <<x>> \in Seq(Int)
  BY ConcatProperties
<1>2. Append(s \o t, x) = (s \o t) \o <<x>> /\ Append(t, x) = t \o <<x>>
  BY <1>1, AppendIsConcat
<1>3. (s \o t) \o <<x>> = s \o (t \o <<x>>)
  BY <1>1, ConcatAssociative
<1> QED BY <1>2, <1>3

LEMMA SetDataIs ==
  ASSUME DioInv, NEW byte \in Nat, NEW name, NEW ok \in BOOLEAN, SetData(byte, name, ok)
  PROVE  LET d == ByteReceived(dio, byte)
         IN /\ dio.phase \in {"Recv", "Arg"}
            /\ d.len # 0 => dio' = d /\ host' = host
            /\ d.len = 0 => /\ dio' = ProcCommand(d, host, name, ok).dio
                            /\ host' = ProcCommand(d, host, name, ok).host
            /\ crossed' \in Crossings /\ crossed'.of = crossed.of /\ crossed'.surplus = crossed.surplus
            /\ crossed'.data = IF dio.phase = "Recv" THEN Append(crossed.data, byte) ELSE crossed.data
            /\ ~crossed'.lost => ~crossed.lost /\ (d.len = 0 => ~Lost(d, host, name, ok))
<1> DEFINE d == ByteReceived(dio, byte)
           l == crossed.lost \/ (d.len = 0 /\ Lost(d, host, name, ok))
           data == IF dio.phase = "Recv" THEN Append(crossed.data, byte) ELSE crossed.data
           after == IF d.len = 0 THEN ProcCommand(d, host, name, ok) ELSE Handled(d, host)
<1>1. dio.phase \in {"Recv", "Arg"} /\ dio' = after.dio /\ host' = after.host
  BY DEF SetData
<1>2. crossed' = [crossed EXCEPT !.data = data, !.lost = l]
  BY DEF SetData
<1>3. l \in BOOLEAN /\ (~l => ~crossed.lost /\ (d.len = 0 => ~Lost(d, host, name, ok)))
  OBVIOUS
<1>4. crossed \in Crossings /\ crossed.data \in Seq(Int)
  BY DEF DioInv, DioTypeOK, Crossings
<1>5. data \in Seq(Int)
  BY <1>4, AppendProperties
<1> HIDE DEF l, data
<1>6. PICK m \in BOOLEAN : m = l /\ crossed' = [crossed EXCEPT !.data = data, !.lost = m]
  BY <1>2, <1>3
<1>7. crossed' \in Crossings /\ crossed'.of = crossed.of
      /\ crossed'.surplus = crossed.surplus /\ crossed'.data = data /\ crossed'.lost = m
  BY <1>4, <1>5, <1>6 DEF Crossings
<1>8. (d.len # 0 => after = Handled(d, host)) /\ (d.len = 0 => after = ProcCommand(d, host, name, ok))
  OBVIOUS
<1>9. Handled(d, host).dio = d /\ Handled(d, host).host = host
  BY DEF Handled
<1> HIDE DEF d, after
<1>10. /\ dio.phase \in {"Recv", "Arg"}
       /\ d.len # 0 => dio' = d /\ host' = host
       /\ d.len = 0 => /\ dio' = ProcCommand(d, host, name, ok).dio
                       /\ host' = ProcCommand(d, host, name, ok).host
  BY <1>1, <1>8, <1>9
<1>11. ~crossed'.lost => ~crossed.lost /\ (d.len = 0 => ~Lost(d, host, name, ok))
  BY <1>3, <1>6, <1>7
<1> QED BY <1>7, <1>10, <1>11 DEF d, data

\* While the device awaits bytes the record is about the file being written, or none.
LEMMA AwaitsIs ==
  ASSUME DioInv, dio.phase \in {"Recv", "Arg"}
  PROVE  /\ dio.len \in Nat /\ dio.len > 0 /\ dio.cmd \in {"SetFileName", "WriteFile"}
         /\ crossed.of # Closed => /\ crossed.of[2] = "write" /\ dio.cmd = "WriteFile"
                                   /\ crossed.of[1] \in FileNames /\ crossed.of[1] \in DOMAIN host
                                   /\ host[crossed.of[1]] \in Seq(Int)
         /\ dio.file # Closed => dio.file = crossed.of /\ crossed.of[1] = dio.filename
         /\ crossed.of # Closed /\ ~crossed.lost => dio.file # Closed
         /\ crossed.data \in Seq(Int) /\ dio.buf \in Seq(Int) /\ ~crossed.surplus
<1> USE DEF DioInv, DioTypeOK
<1>1. dio.len \in Nat /\ dio.len > 0 /\ dio.cmd \in {"SetFileName", "WriteFile"}
  BY DEF DioState, PhaseOK
<1>2. ASSUME crossed.of # Closed
      PROVE  /\ crossed.of[2] = "write" /\ dio.cmd = "WriteFile"
             /\ crossed.of[1] \in FileNames /\ crossed.of[1] \in DOMAIN host
  <2>1. crossed.of[1] \in FileNames /\ crossed.of[2] \in Uses
    BY <1>2, FileIs DEF Crossings
  <2> QED BY <1>1, <1>2, <2>1 DEF RecordOK, Uses
<1>3. crossed.of # Closed => host[crossed.of[1]] \in Seq(Int)
  BY <1>2 DEF FilesOK
<1>4. /\ dio.file # Closed => dio.file = crossed.of /\ crossed.of[1] = dio.filename
      /\ crossed.of # Closed /\ ~crossed.lost => dio.file # Closed
  BY DEF PhaseOK, RecordOK
<1>5. crossed.data \in Seq(Int) /\ dio.buf \in Seq(Int) /\ ~crossed.surplus
  BY DEF Crossings, DioState, RecordOK
<1> QED BY <1>1, <1>2, <1>3, <1>4, <1>5

\* No file: nothing has to be said of the bytes.
LEMMA NoFileKept ==
  ASSUME dio' \in DioState, PhaseOK(dio'), dio'.file = Closed, dio'.phase # "Send",
         crossed' \in Crossings, crossed'.of = Closed, ~crossed'.surplus, FilesOK(host')
  PROVE  DioInv'
BY DEF DioInv, DioTypeOK, RecordOK, BytesOK

LEMMA MoreKept ==
  ASSUME DioInv, NEW byte \in Nat, NEW name, NEW ok \in BOOLEAN, SetData(byte, name, ok), dio.len # 1
  PROVE  DioInv'
<1> DEFINE d == ByteReceived(dio, byte)
<1>1. dio.phase \in {"Recv", "Arg"}
  BY SetDataIs
<1>2. /\ d \in DioState /\ d.buf = Append(dio.buf, byte) /\ d.len = dio.len - 1
      /\ d.phase = dio.phase /\ d.cmd = dio.cmd /\ d.file = dio.file /\ d.filename = dio.filename
  BY <1>1, ReceivedIs
<1>3. d.len # 0 /\ d.len > 0
  BY <1>1, <1>2, AwaitsIs
<1>4. /\ dio' = d /\ host' = host /\ crossed' \in Crossings /\ crossed'.of = crossed.of /\ crossed'.surplus = crossed.surplus
      /\ crossed'.data = IF dio.phase = "Recv" THEN Append(crossed.data, byte) ELSE crossed.data
      /\ ~crossed'.lost => ~crossed.lost
  BY <1>3, SetDataIs
<1> HIDE DEF d
<1>5. PhaseOK(d)
  <2>1. Len(d.buf) = Len(dio.buf) + 1 /\ \A i \in 1 .. Len(d.buf) : d.buf[i] = IF i = Len(d.buf) THEN byte ELSE dio.buf[i]
    BY <1>1, <1>2, AwaitsIs, AppendProperties, LenProperties
  <2>2. Len(dio.buf) \in Nat /\ dio.len \in Nat /\ PhaseOK(dio)
    BY <1>1, AwaitsIs, LenProperties DEF DioInv
  <2>3. d.phase = "Arg" => \A i \in 1 .. Len(d.buf) : d.buf[i] \in Nat
    BY <1>2, <2>1, <2>2 DEF PhaseOK
  <2>4. d.phase = "Arg" => Len(d.buf) + d.len = IF d.cmd = "SetFileName" THEN 1 ELSE 2
    BY <1>2, <2>1, <2>2 DEF PhaseOK
  <2> QED BY <1>1, <1>2, <1>3, <2>2, <2>3, <2>4 DEF PhaseOK
<1>6. RecordOK(d, host, crossed')
  BY <1>1, <1>2, <1>4, AwaitsIs DEF DioInv, RecordOK
<1>7. BytesOK(d, host, crossed')
  <2> SUFFICES ASSUME crossed.of # Closed, ~crossed'.lost PROVE Written(d, host, crossed') /\ crossed.of[2] = "write"
    BY <1>1, <1>4, AwaitsIs DEF BytesOK
  <2> DEFINE f == host[crossed.of[1]]
  <2>1. crossed.of[2] = "write" /\ f \in Seq(Int) /\ dio.buf \in Seq(Int) /\ f \o Pending(dio) = crossed.data
    BY <1>1, <1>4, AwaitsIs DEF DioInv, BytesOK, Written
  <2> HIDE DEF f
  <2>2. CASE dio.phase = "Recv"
    <3>1. Append(f \o dio.buf, byte) = f \o Append(dio.buf, byte)
      <4> DEFINE b == dio.buf
      <4>1. b \in Seq(Int) /\ f \in Seq(Int) /\ byte \in Int
        BY <2>1
      <4> HIDE DEF b
      <4>2. Append(f \o b, byte) = f \o Append(b, byte)
        BY <4>1, AppendBehind
      <4> QED BY <4>2 DEF b
    <3> QED BY <1>2, <1>4, <2>1, <2>2, <3>1 DEF Written, Pending, f
  <2>3. CASE dio.phase = "Arg"
    BY <1>2, <1>4, <2>1, <2>3 DEF Written, Pending, f
  <2> QED BY <1>1, <2>1, <2>2, <2>3
<1>8. FilesOK(host')
  BY <1>4 DEF DioInv, DioTypeOK
<1> QED BY <1>2, <1>4, <1>5, <1>6, <1>7, <1>8 DEF DioInv, DioTypeOK

LEMMA NameKept ==
  ASSUME DioInv, NEW byte \in Nat, NEW name, NEW ok \in BOOLEAN, SetData(byte, name, ok),
         dio.len = 1, dio.cmd = "SetFileName", dio.phase = "Recv" => name \in FileNames
  PROVE  DioInv'
<1> DEFINE d == ByteReceived(dio, byte)
<1>1. dio.phase \in {"Recv", "Arg"}
  BY SetDataIs
<1>2. /\ d \in DioState /\ d.buf = Append(dio.buf, byte) /\ d.len = 0
      /\ d.phase = dio.phase /\ d.cmd = dio.cmd /\ d.file = dio.file
  BY <1>1, ReceivedIs
<1>3. /\ dio' = ProcCommand(d, host, name, ok).dio /\ host' = ProcCommand(d, host, name, ok).host
      /\ crossed' \in Crossings /\ crossed'.of = crossed.of /\ crossed'.surplus = crossed.surplus
  BY <1>2, SetDataIs
<1> HIDE DEF d
<1>4. ProcCommand(d, host, name, ok) = CmdSetFileName(d, host, name)
  BY <1>2 DEF ProcCommand
<1>5. crossed.of = Closed /\ dio.file = Closed /\ ~crossed.surplus
  <2>1. crossed.of = Closed
    BY <1>1, AwaitsIs
  <2> QED BY <1>1, <2>1, AwaitsIs
<1>6. FilesOK(host)
  BY DEF DioInv, DioTypeOK
<1>7. CASE dio.phase = "Recv"
  <2> DEFINE i == IdlePhase(d)
             e == [i EXCEPT !.filename = name]
  <2>1. CmdSetFileName(d, host, name) = Handled(e, host)
    BY <1>2, <1>7 DEF CmdSetFileName
  <2>2. i \in DioState /\ i.phase = "Idle" /\ i.file = Closed
    BY <1>2, IdleTyped
  <2> HIDE DEF i
  <2>3. e \in DioState /\ e.phase = "Idle" /\ e.file = Closed
    BY <1>7, <2>2 DEF DioState
  <2> HIDE DEF e
  <2>4. dio' = e /\ host' = host
    BY <1>3, <1>4, <2>1 DEF Handled
  <2>5. PhaseOK(e)
    BY <2>3 DEF PhaseOK
  <2> QED BY <1>3, <1>5, <1>6, <2>3, <2>4, <2>5, NoFileKept
<1>8. CASE dio.phase = "Arg" /\ d.buf[1] # 0
  <2> DEFINE r == RecvPhase(d, d.buf[1])
             e == [r EXCEPT !.err = 0]
  <2>1. CmdSetFileName(d, host, name) = Handled(e, host)
    BY <1>2, <1>8 DEF CmdSetFileName
  <2>2. d.buf[1] = byte
    <3>1. Len(dio.buf) = 0
      BY <1>1, <1>8, AwaitsIs, LenProperties DEF DioInv, PhaseOK
    <3> QED BY <1>1, <1>2, <3>1, AwaitsIs, AppendProperties
  <2>3. r \in DioState /\ r.phase = "Recv" /\ r.len = byte /\ r.cmd = "SetFileName" /\ r.file = Closed
    BY <1>2, <1>5, <2>2, RecvTyped
  <2> HIDE DEF r
  <2>4. e \in DioState /\ e.phase = "Recv" /\ e.len = byte /\ e.cmd = "SetFileName" /\ e.file = Closed
    BY <2>3 DEF DioState
  <2> HIDE DEF e
  <2>5. dio' = e /\ host' = host
    BY <1>3, <1>4, <2>1 DEF Handled
  <2>6. PhaseOK(e)
    BY <1>8, <2>2, <2>4 DEF PhaseOK
  <2> QED BY <1>3, <1>5, <1>6, <2>4, <2>5, <2>6, NoFileKept
<1>9. CASE dio.phase = "Arg" /\ d.buf[1] = 0
  <2> DEFINE i == IdlePhase(d)
             e == [i EXCEPT !.err = 56, !.filename = ""]
  <2>1. CmdSetFileName(d, host, name) = Handled(e, host)
    BY <1>2, <1>9 DEF CmdSetFileName
  <2>2. i \in DioState /\ i.phase = "Idle" /\ i.file = Closed
    BY <1>2, IdleTyped
  <2> HIDE DEF i
  <2>3. e \in DioState /\ e.phase = "Idle" /\ e.file = Closed
    BY <2>2 DEF DioState, FileNames
  <2> HIDE DEF e
  <2>4. dio' = e /\ host' = host
    BY <1>3, <1>4, <2>1 DEF Handled
  <2>5. PhaseOK(e)
    BY <2>3 DEF PhaseOK
  <2> QED BY <1>3, <1>5, <1>6, <2>3, <2>4, <2>5, NoFileKept
<1> QED BY <1>1, <1>7, <1>8, <1>9

LEMMA NextBlockIs ==
  ASSUME NEW d \in DioState, NEW size \in Nat, size > 0
  PROVE  LET e == NextBlock(d, size)
         IN /\ e \in DioState /\ e.phase = "Recv" /\ e.buf = <<>> /\ e.len > 0
            /\ e.cmd = d.cmd /\ e.file = d.file /\ e.filename = d.filename
<1> DEFINE n == Lesser(Block, size)
           s == [d EXCEPT !.size = size - n]
<1>1. n \in Nat /\ n > 0 /\ n <= size
  BY LesserIs, DioAssumption
<1>2. NextBlock(d, size) = RecvPhase(s, n)
  BY DEF NextBlock
<1> HIDE DEF n
<1>3. s \in DioState /\ s.cmd = d.cmd /\ s.file = d.file /\ s.filename = d.filename
  BY <1>1 DEF DioState
<1> HIDE DEF s
<1> DEFINE e == RecvPhase(s, n)
<1>4. /\ e \in DioState /\ e.phase = "Recv" /\ e.buf = <<>> /\ e.len = n
      /\ e.cmd = s.cmd /\ e.file = s.file /\ e.filename = s.filename
  BY <1>1, <1>3, RecvTyped
<1>5. NextBlock(d, size) = e
  BY <1>2
<1> HIDE DEF e
<1> QED BY <1>1, <1>3, <1>4, <1>5

\* The phases in which a device that writes awaits the next bytes.
LEMMA AwaitingOK ==
  ASSUME NEW e \in DioState, NEW g \in DioState, e.phase \in {"Arg", "Recv"}, e.buf = <<>>, e.cmd = "WriteFile",
         e.phase = "Arg" => e.len = 2, e.len > 0,
         e.file = Closed \/ (e.file = g.file /\ e.filename = g.filename /\ g.cmd = "WriteFile"
                              /\ g.phase \in {"Arg", "Recv"} /\ PhaseOK(g))
  PROVE  PhaseOK(e)
<1>1. Len(e.buf) = 0
  BY EmptySeq
<1>2. e.file # Closed => e.file[1] = e.filename /\ e.file[2] # "read"
  BY DEF PhaseOK
<1> QED BY <1>1, <1>2 DEF PhaseOK

\* A step of a device that writes: what the file holds is what the program has sent.
LEMMA WritingKept ==
  ASSUME DioInv, dio.phase \in {"Recv", "Arg"}, dio.cmd = "WriteFile",
         dio' \in DioState, PhaseOK(dio'), FilesOK(host'), crossed' \in Crossings, crossed'.of = crossed.of,
         crossed'.surplus = crossed.surplus,
         DOMAIN host \subseteq DOMAIN host', dio'.cmd = "WriteFile", dio'.phase # "Send",
         Pending(dio') = <<>>, dio'.file # Closed => dio'.file = dio.file,
         crossed.of # Closed /\ ~crossed'.lost =>
           /\ dio'.phase # "Idle" => dio'.file # Closed
           /\ host'[crossed.of[1]] = crossed'.data
  PROVE  DioInv'
<1>1. dio'.file # Closed => crossed'.of = dio'.file
  BY DEF DioInv, RecordOK
<1>2. crossed.of # Closed => /\ crossed.of[2] = "write" /\ crossed.of[1] \in DOMAIN host'
  BY AwaitsIs
<1>3. RecordOK(dio', host', crossed')
  BY <1>1, <1>2, AwaitsIs DEF RecordOK
<1>4. ASSUME crossed.of # Closed, ~crossed'.lost PROVE Written(dio', host', crossed')
  <2> DEFINE f == host'[crossed.of[1]]
  <2>1. f \in Seq(Int) /\ f = crossed'.data
    BY <1>2, <1>4 DEF FilesOK
  <2>2. f \o <<>> = f
    BY <2>1, ConcatEmptySeq
  <2> QED BY <2>1, <2>2 DEF Written
<1>5. BytesOK(dio', host', crossed')
  BY <1>2, <1>4, AwaitsIs DEF BytesOK
<1> QED BY <1>3, <1>5 DEF DioInv, DioTypeOK

LEMMA LengthKept ==
  ASSUME DioInv, NEW byte \in Nat, NEW name, NEW ok \in BOOLEAN, SetData(byte, name, ok),
         dio.len = 1, dio.cmd = "WriteFile", dio.phase = "Arg"
  PROVE  DioInv'
<1> DEFINE d == ByteReceived(dio, byte)
<1>2. /\ d \in DioState /\ d.buf = Append(dio.buf, byte) /\ d.len = 0
      /\ d.phase = "Arg" /\ d.cmd = "WriteFile" /\ d.file = dio.file /\ d.filename = dio.filename
  BY ReceivedIs
<1>3. /\ dio' = ProcCommand(d, host, name, ok).dio /\ host' = ProcCommand(d, host, name, ok).host
      /\ crossed' \in Crossings /\ crossed'.of = crossed.of
      /\ crossed'.surplus = crossed.surplus /\ crossed'.data = crossed.data
      /\ ~crossed'.lost => ~crossed.lost
  BY <1>2, SetDataIs
<1> HIDE DEF d
<1> DEFINE size == d.buf[1] + d.buf[2] * Radix
<1>4. size \in Nat
  <2>1. Len(dio.buf) = 1 /\ dio.buf[1] \in Nat /\ dio.buf \in Seq(Int)
    <3>1. dio.buf \in Seq(Int)
      BY AwaitsIs
    <3>2. Len(dio.buf) \in Nat
      BY <3>1, LenProperties
    <3>3. Len(dio.buf) + 1 = 2 /\ \A i \in 1 .. Len(dio.buf) : dio.buf[i] \in Nat
      BY DEF DioInv, PhaseOK
    <3>4. Len(dio.buf) = 1
      <4> DEFINE l == Len(dio.buf)
      <4>1. l \in Nat /\ l + 1 = 2
        BY <3>2, <3>3
      <4> HIDE DEF l
      <4>2. l = 1
        BY <4>1
      <4> QED BY <4>2 DEF l
    <3>5. 1 \in 1 .. Len(dio.buf)
      BY <3>4
    <3> QED BY <3>1, <3>3, <3>4, <3>5
  <2>2. d.buf[1] \in Nat /\ d.buf[2] = byte
    BY <1>2, <2>1, AppendProperties
  <2>3. \A x \in Nat, y \in Nat : x * y \in Nat
    OBVIOUS
  <2> QED BY <2>2, <2>3, DioAssumption
<1>5. ProcCommand(d, host, name, ok) = IF size > 0 THEN Handled(NextBlock(d, size), host) ELSE Fail(d, host, 0)
  BY <1>2 DEF ProcCommand, CmdWriteFile
<1> HIDE DEF size
<1>6. FilesOK(host) /\ dio \in DioState /\ PhaseOK(dio)
  BY DEF DioInv, DioTypeOK
<1>7. ASSUME crossed.of # Closed, ~crossed'.lost PROVE host[crossed.of[1]] = crossed'.data /\ dio.file # Closed
  <2> DEFINE f == host[crossed.of[1]]
  <2>1. f \in Seq(Int) /\ f \o <<>> = crossed.data /\ dio.file # Closed
    BY <1>3, <1>7, AwaitsIs DEF DioInv, BytesOK, Written, Pending
  <2>2. f \o <<>> = f
    BY <2>1, ConcatEmptySeq
  <2> QED BY <1>3, <2>1, <2>2
<1>8. CASE size > 0
  <2> DEFINE e == NextBlock(d, size)
  <2>1. /\ e \in DioState /\ e.phase = "Recv" /\ e.buf = <<>> /\ e.len > 0 /\ e.cmd = "WriteFile"
        /\ e.file = dio.file /\ e.filename = dio.filename
    BY <1>2, <1>4, <1>8, NextBlockIs
  <2>2. dio' = e /\ host' = host
    BY <1>3, <1>5, <1>8 DEF Handled
  <2> HIDE DEF e
  <2>3. PhaseOK(e)
    BY <1>6, <2>1, AwaitingOK
  <2>4. Pending(e) = <<>>
    BY <2>1 DEF Pending
  <2> QED BY <1>3, <1>6, <1>7, <2>1, <2>2, <2>3, <2>4, WritingKept
<1>9. CASE ~(size > 0)
  <2> DEFINE r == Fail(d, host, 0)
  <2>1. r.dio \in DioState /\ r.host = host /\ r.dio.phase = "Idle" /\ r.dio.file = Closed /\ r.dio.cmd = "WriteFile"
    BY <1>2, FailTyped
  <2>2. dio' = r.dio /\ host' = host
    BY <1>3, <1>5, <1>9, <2>1
  <2> HIDE DEF r
  <2>3. PhaseOK(r.dio) /\ Pending(r.dio) = <<>>
    BY <2>1 DEF PhaseOK, Pending
  <2> QED BY <1>3, <1>6, <1>7, <2>1, <2>2, <2>3, WritingKept
<1> QED BY <1>8, <1>9

LEMMA BlockKept ==
  ASSUME DioInv, NEW byte \in Nat, NEW name, NEW ok \in BOOLEAN, SetData(byte, name, ok),
         dio.len = 1, dio.cmd = "WriteFile", dio.phase = "Recv"
  PROVE  DioInv'
<1> DEFINE d == ByteReceived(dio, byte)
           r(o) == ProcCommand(d, host, name, o)
           n == crossed.of[1]
           all == host[n] \o d.buf
<1>1. /\ d \in DioState /\ d.buf = Append(dio.buf, byte) /\ d.len = 0
      /\ d.phase = "Recv" /\ d.cmd = "WriteFile" /\ d.file = dio.file /\ d.filename = dio.filename
      /\ d.size = dio.size
  BY ReceivedIs
<1>2. /\ dio' = r(ok).dio /\ host' = r(ok).host
      /\ crossed' \in Crossings /\ crossed'.of = crossed.of
      /\ crossed'.surplus = crossed.surplus /\ crossed'.data = Append(crossed.data, byte)
      /\ ~crossed'.lost => ~crossed.lost /\ ~Lost(d, host, name, ok)
  BY <1>1, SetDataIs
<1>3. FilesOK(host) /\ dio \in DioState /\ PhaseOK(dio)
  BY DEF DioInv, DioTypeOK
<1> HIDE DEF d
\* Done or not, the device awaits more; not done, its file is closed.
<1>4. ASSUME NEW o \in BOOLEAN
      PROVE  LET e == r(o).dio
             IN /\ e \in DioState /\ e.phase \in {"Arg", "Recv"} /\ e.buf = <<>> /\ e.cmd = "WriteFile"
                /\ e.phase = "Arg" => e.len = 2
                /\ e.len > 0
                /\ o \/ d.file = Closed => e.file = d.file /\ e.filename = d.filename
                /\ ~o => e.file = Closed
  <2> DEFINE done == o \/ d.file = Closed
             w == IF done THEN d ELSE [IdlePhase(d) EXCEPT !.err = 61]
             e == r(o).dio
  <2>1. e = IF d.size > 0 THEN NextBlock(w, d.size) ELSE ArgPhase(w, 2)
    BY <1>1 DEF ProcCommand, CmdWriteFile, Handled
  <2>2. /\ w \in DioState /\ w.cmd = "WriteFile"
        /\ done => w.file = d.file /\ w.filename = d.filename
        /\ ~o => w.file = Closed
    <3>1. CASE done
      BY <1>1, <3>1
    <3>2. CASE ~done
      <4> DEFINE i == IdlePhase(d)
      <4>1. i \in DioState /\ i.cmd = "WriteFile" /\ i.file = Closed
        BY <1>1, IdleTyped
      <4> HIDE DEF i
      <4>2. w = [i EXCEPT !.err = 61]
        BY <3>2 DEF i
      <4> HIDE DEF w
      <4> QED BY <3>2, <4>1, <4>2 DEF DioState
    <3> QED BY <3>1, <3>2
  <2>3. d.size \in Nat
    BY <1>1 DEF DioState
  <2> HIDE DEF w, e
  <2>4. CASE d.size > 0
    <3>1. e = NextBlock(w, d.size)
      BY <2>1, <2>4
    <3> QED BY <2>2, <2>3, <2>4, <3>1, NextBlockIs DEF e
  <2>5. CASE ~(d.size > 0)
    <3>1. e = ArgPhase(w, 2)
      BY <2>1, <2>5
    <3> DEFINE a == ArgPhase(w, 2)
    <3>2. /\ a \in DioState /\ a.phase = "Arg" /\ a.buf = <<>> /\ a.len = 2
          /\ a.cmd = w.cmd /\ a.file = w.file /\ a.filename = w.filename
      BY <2>2, ArgTyped
    <3> HIDE DEF a
    <3>3. e = a
      BY <3>1 DEF a
    <3> QED BY <1>1, <2>2, <3>2, <3>3 DEF e, w
  <2> QED BY <2>4, <2>5
<1>5. host' = IF ok /\ d.file # Closed THEN Holding(host, d.filename, host[d.filename] \o d.buf) ELSE host
  BY <1>1, <1>2 DEF ProcCommand, CmdWriteFile, Handled, Write
<1>6. ASSUME NEW o \in BOOLEAN PROVE PhaseOK(r(o).dio)
  <2> HIDE DEF r
  <2> QED BY <1>1, <1>3, <1>4, <1>6, AwaitingOK
<1>7. Pending(r(ok).dio) = <<>>
  BY <1>4 DEF Pending
<1> HIDE DEF r
<1>8. CASE dio.file = Closed
  <2>1. crossed.of = Closed \/ crossed.lost
    BY <1>8, AwaitsIs
  <2>2. host' = host /\ dio'.file = Closed
    BY <1>1, <1>2, <1>4, <1>5, <1>8
  <2> QED BY <1>2, <1>3, <1>4, <1>6, <1>7, <2>1, <2>2, WritingKept
<1>9. CASE dio.file # Closed /\ ok
  <2>1. crossed.of = dio.file /\ n = d.filename /\ n \in FileNames /\ host[n] \in Seq(Int) /\ dio.buf \in Seq(Int)
    BY <1>1, <1>9, AwaitsIs DEF PhaseOK, DioInv
  <2>2. all \in Seq(Int)
    BY <1>1, <2>1, AppendProperties, ConcatProperties
  <2>3. ~crossed'.lost => all = crossed'.data
    <3> SUFFICES ASSUME ~crossed'.lost PROVE all = crossed'.data
      OBVIOUS
    <3> DEFINE b == dio.buf
               f == host[n]
    <3>1. b \in Seq(Int) /\ f \in Seq(Int) /\ byte \in Int
      BY <2>1
    <3>2. f \o b = crossed.data
      BY <1>2, <1>9, <2>1, AwaitsIs DEF DioInv, BytesOK, Written, Pending
    <3>3. all = f \o Append(b, byte)
      BY <1>1
    <3> HIDE DEF b, f, all
    <3>4. Append(f \o b, byte) = f \o Append(b, byte)
      BY <3>1, AppendBehind
    <3> QED BY <1>2, <3>2, <3>3, <3>4
  <2>4. host' = Holding(host, n, all)
    BY <1>1, <1>5, <1>9, <2>1
  <2> HIDE DEF all
  <2> DEFINE h == Holding(host, n, all)
  <2>5. FilesOK(h) /\ DOMAIN host \subseteq DOMAIN h /\ h[n] = all
    BY <1>3, <2>1, <2>2, HoldingIs
  <2> HIDE DEF h
  <2>6. FilesOK(host') /\ DOMAIN host \subseteq DOMAIN host' /\ host'[n] = all
    <3>1. host' = h
      BY <2>4 DEF h
    <3> QED BY <2>5, <3>1 DEF FilesOK
  <2>7. dio'.file = dio.file
    BY <1>1, <1>2, <1>4, <1>9
  <2> QED BY <1>2, <1>4, <1>6, <1>7, <1>9, <2>3, <2>6, <2>7, WritingKept
<1>10. CASE dio.file # Closed /\ ~ok
  <2>1. r(TRUE).dio.file # Closed /\ r(FALSE).dio.file = Closed
    BY <1>1, <1>4, <1>10
  <2>2. Lost(d, host, name, ok)
    BY <1>10, <2>1 DEF Lost, r
  <2>3. crossed'.lost
    BY <1>2, <2>2 DEF Crossings
  <2>4. host' = host /\ dio'.file = Closed
    BY <1>2, <1>4, <1>5, <1>10
  <2> QED BY <1>2, <1>3, <1>4, <1>6, <1>7, <2>3, <2>4, WritingKept
<1> QED BY <1>8, <1>9, <1>10

LEMMA ProgramSendsKept == ASSUME DioInv, ProgramSends PROVE DioInv'
<1>1. PICK ok \in BOOLEAN :
        \/ dio.cmd = "SetFileName" /\ dio.phase = "Arg" /\ \E n \in NameSizes : SetData(n, "", ok)
        \/ dio.cmd = "SetFileName" /\ dio.phase = "Recv" /\ \E name \in HostFiles : SetData(0, name, ok)
        \/ dio.cmd = "WriteFile" /\ dio.phase = "Arg" /\ \E n \in 0 .. (Radix - 1) : SetData(n, "", ok)
        \/ dio.cmd = "WriteFile" /\ dio.phase = "Recv" /\ \E v \in Values : SetData(v, "", ok)
  BY DEF ProgramSends
<1>2. PICK byte \in Nat, name \in FileNames :
        SetData(byte, name, ok) /\ dio.cmd \in {"SetFileName", "WriteFile"} /\ dio.phase \in {"Arg", "Recv"}
  <2>1. "" \in FileNames /\ HostFiles \subseteq FileNames
    BY DEF FileNames
  <2>2. NameSizes \subseteq Nat /\ Values \subseteq Nat /\ 0 .. (Radix - 1) \subseteq Nat
    BY DioAssumption
  <2>3. CASE dio.cmd = "SetFileName" /\ dio.phase = "Recv" /\ \E name \in HostFiles : SetData(0, name, ok)
    BY <2>1, <2>3
  <2>4. CASE /\ dio.cmd \in {"SetFileName", "WriteFile"} /\ dio.phase \in {"Arg", "Recv"}
             /\ \E n \in Nat : SetData(n, "", ok)
    BY <2>1, <2>4
  <2> QED BY <1>1, <2>2, <2>3, <2>4
<1>3. CASE dio.len # 1
  BY <1>2, <1>3, MoreKept
<1>4. CASE dio.len = 1 /\ dio.cmd = "SetFileName"
  BY <1>2, <1>4, NameKept
<1>5. CASE dio.len = 1 /\ dio.cmd = "WriteFile" /\ dio.phase = "Arg"
  BY <1>2, <1>5, LengthKept
<1>6. CASE dio.len = 1 /\ dio.cmd = "WriteFile" /\ dio.phase = "Recv"
  BY <1>2, <1>6, BlockKept
<1> QED BY <1>2, <1>3, <1>4, <1>5, <1>6

-----------------------------------------------------------------------------
(* A byte that the program reads. *)

Taken(d) ==
  [d EXCEPT !.buf = Tail(@), !.len = @ - 1, !.status = IF d.len = 1 THEN @ \ {2, 4} ELSE @]

LEMMA SendingIs ==
  ASSUME DioInv, dio.phase = "Send"
  PROVE  LET d == Taken(dio)
         IN /\ dio.buf \in Seq(Int) /\ Len(dio.buf) = dio.len /\ dio.len \in Nat /\ dio.len > 0
            /\ d \in DioState /\ d.len = dio.len - 1 /\ Len(d.buf) = d.len
            /\ \A i \in 1 .. Len(d.buf) : d.buf[i] = dio.buf[i + 1]
            /\ Head(dio.buf) = dio.buf[1] /\ Head(dio.buf) \in Int
            /\ d.phase = "Send" /\ d.cmd = dio.cmd /\ d.file = dio.file /\ d.filename = dio.filename
            /\ d.size = dio.size /\ d.pos = dio.pos /\ d.cmd \in {"ReadFile", "GetError"}
            /\ d.write_buffer = dio.write_buffer
<1> DEFINE b == dio.buf
           t == IF dio.len = 1 THEN dio.status \ {2, 4} ELSE dio.status
<1>1. /\ dio \in DioState /\ b \in Seq(Int) /\ Len(b) = dio.len /\ dio.len \in Nat /\ dio.len > 0
      /\ dio.cmd \in {"ReadFile", "GetError"}
  BY DEF DioInv, DioTypeOK, DioState, PhaseOK
<1>2. b # <<>>
  BY <1>1, EmptySeq
<1> HIDE DEF b
<1>3. /\ Tail(b) \in Seq(Int) /\ Len(Tail(b)) = Len(b) - 1 /\ \A i \in 1 .. Len(Tail(b)) : Tail(b)[i] = b[i + 1]
      /\ Head(b) = b[1] /\ Head(b) \in Int
  BY <1>1, <1>2, HeadTailProperties
<1>4. t \in SUBSET Nat /\ dio.len - 1 \in Nat
  BY <1>1 DEF DioState
<1> DEFINE u == Tail(b)
<1>5. Taken(dio) = [dio EXCEPT !.buf = u, !.len = dio.len - 1, !.status = t]
  BY DEF Taken, b
<1> HIDE DEF t, u
<1>6. u \in Seq(Int)
  BY <1>3 DEF u
<1>7. LET d == Taken(dio)
      IN /\ d \in DioState /\ d.len = dio.len - 1 /\ d.buf = u
         /\ d.phase = dio.phase /\ d.cmd = dio.cmd /\ d.file = dio.file /\ d.filename = dio.filename
         /\ d.size = dio.size /\ d.pos = dio.pos /\ d.write_buffer = dio.write_buffer
  BY <1>1, <1>4, <1>5, <1>6 DEF DioState
<1> HIDE DEF Taken
<1> QED BY <1>1, <1>3, <1>7 DEF b, u

\* What one reading of the port does.
Getting(ok) ==
  LET d == Taken(dio)
      after == IF d.len = 0 THEN ProcCommand(d, host, "", ok) ELSE Handled(d, host)
  IN /\ dio.phase = "Send"
     /\ dio' = after.dio /\ host' = after.host
     /\ crossed' = [crossed EXCEPT !.data = Append(@, Head(dio.buf)),
                                   !.lost = @ \/ (d.len = 0 /\ Lost(d, host, "", ok))]

LEMMA GettingIs ==
  ASSUME DioInv, NEW ok \in BOOLEAN, Getting(ok)
  PROVE  LET d == Taken(dio)
         IN /\ dio.phase = "Send"
            /\ d.len # 0 => dio' = d /\ host' = host
            /\ d.len = 0 => /\ dio' = ProcCommand(d, host, "", ok).dio
                            /\ host' = ProcCommand(d, host, "", ok).host
            /\ crossed' \in Crossings /\ crossed'.of = crossed.of /\ crossed'.surplus = crossed.surplus
            /\ crossed'.data = Append(crossed.data, Head(dio.buf)) /\ ~crossed.lost
            /\ crossed'.lost => d.len = 0 /\ Lost(d, host, "", ok)
            /\ d.len = 0 /\ Lost(d, host, "", ok) => crossed'.lost
<1> DEFINE d == Taken(dio)
           l == crossed.lost \/ (d.len = 0 /\ Lost(d, host, "", ok))
           data == Append(crossed.data, Head(dio.buf))
           after == IF d.len = 0 THEN ProcCommand(d, host, "", ok) ELSE Handled(d, host)
<1>1. dio.phase = "Send" /\ dio' = after.dio /\ host' = after.host
  BY DEF Getting
<1>2. crossed' = [crossed EXCEPT !.data = data, !.lost = l]
  BY DEF Getting
<1>3. ~crossed.lost
  BY <1>1 DEF DioInv, RecordOK
<1>4. l \in BOOLEAN /\ (l <=> d.len = 0 /\ Lost(d, host, "", ok))
  BY <1>3
<1>5. crossed \in Crossings /\ crossed.data \in Seq(Int)
  BY DEF DioInv, DioTypeOK, Crossings
<1>6. data \in Seq(Int)
  BY <1>1, <1>5, SendingIs, AppendProperties
<1> HIDE DEF l, data
<1>7. PICK m \in BOOLEAN : m = l /\ crossed' = [crossed EXCEPT !.data = data, !.lost = m]
  BY <1>2, <1>4
<1>8. crossed' \in Crossings /\ crossed'.of = crossed.of
      /\ crossed'.surplus = crossed.surplus /\ crossed'.data = data /\ crossed'.lost = m
  BY <1>5, <1>6, <1>7 DEF Crossings
<1>9. (d.len # 0 => after = Handled(d, host)) /\ (d.len = 0 => after = ProcCommand(d, host, "", ok))
  OBVIOUS
<1>10. Handled(d, host).dio = d /\ Handled(d, host).host = host
  BY DEF Handled
<1> HIDE DEF d, after
<1>11. /\ dio.phase = "Send"
       /\ d.len # 0 => dio' = d /\ host' = host
       /\ d.len = 0 => /\ dio' = ProcCommand(d, host, "", ok).dio
                       /\ host' = ProcCommand(d, host, "", ok).host
  BY <1>1, <1>9, <1>10
<1>12. crossed'.lost <=> d.len = 0 /\ Lost(d, host, "", ok)
  BY <1>4, <1>7, <1>8
<1> QED BY <1>3, <1>8, <1>11, <1>12 DEF d, data

\* The command that sends says what the record is about.
LEMMA SendsWhat ==
  ASSUME DioInv, dio.phase = "Send"
  PROVE  /\ ~crossed.surplus
         /\ dio.cmd = "GetError" => crossed.of = Closed /\ dio.file = Closed
         /\ dio.cmd = "ReadFile" =>
              /\ crossed.of = dio.file /\ dio.file # Closed /\ dio.file[1] = dio.filename /\ dio.file[2] = "read"
              /\ dio.filename \in FileNames /\ dio.filename \in DOMAIN host /\ host[dio.filename] \in Seq(Int)
              /\ ReadSoFar(dio, host[dio.filename], crossed.data)
<1> USE DEF DioInv, DioTypeOK
<1>0. ~crossed.surplus
  BY DEF RecordOK
<1>1. ASSUME dio.cmd = "GetError" PROVE crossed.of = Closed /\ dio.file = Closed
  <2>1. crossed.of # Closed => crossed.of[2] \in Uses
    BY FileIs DEF Crossings
  <2>2. crossed.of = Closed
    BY <1>1, <2>1 DEF RecordOK, Uses
  <2> QED BY <2>2 DEF RecordOK
<1>2. ASSUME dio.cmd = "ReadFile"
      PROVE  /\ crossed.of = dio.file /\ dio.file # Closed /\ dio.file[1] = dio.filename /\ dio.file[2] = "read"
             /\ dio.filename \in FileNames /\ dio.filename \in DOMAIN host /\ host[dio.filename] \in Seq(Int)
             /\ ReadSoFar(dio, host[dio.filename], crossed.data)
  <2>1. crossed.of = dio.file /\ dio.file # Closed /\ dio.file[1] = dio.filename /\ ~crossed.lost
    BY <1>2 DEF PhaseOK, RecordOK
  <2>2. dio.file[2] \in Uses /\ dio.filename \in FileNames
    BY <2>1, FileIs DEF DioState
  <2>3. dio.file[2] = "read"
    BY <1>2, <2>1, <2>2 DEF PhaseOK, Uses
  <2>4. dio.filename \in DOMAIN host
    BY <2>1 DEF RecordOK
  <2>5. host[dio.filename] \in Seq(Int)
    BY <2>4 DEF FilesOK
  <2> QED BY <2>1, <2>2, <2>3, <2>4, <2>5 DEF BytesOK
<1> QED BY <1>0, <1>1, <1>2

LEMMA TakenSoFar ==
  ASSUME NEW d \in DioState, NEW e \in DioState, NEW f, NEW data \in Seq(Int), NEW x \in Int,
         d.phase = "Send", e.phase = "Send", Len(d.buf) \in Nat, Len(d.buf) > 0, x = d.buf[1],
         Len(e.buf) = Len(d.buf) - 1, \A i \in 1 .. Len(e.buf) : e.buf[i] = d.buf[i + 1],
         e.size = d.size, e.pos = d.pos, ReadSoFar(d, f, data)
  PROVE  ReadSoFar(e, f, Append(data, x))
<1> DEFINE more == Append(data, x)
<1>1. /\ Len(more) = Len(data) + 1 /\ Len(data) \in Nat /\ more[Len(data) + 1] = x
      /\ \A i \in 1 .. Len(data) : more[i] = data[i]
  BY AppendProperties, LenProperties
<1> HIDE DEF more
<1>2. /\ \A i \in 1 .. Len(data) - 2 : data[i + 2] = f[i]
      /\ d.pos + d.size = Lesser(MaxSize, Len(f))
      /\ Len(data) + Len(d.buf) = d.pos + 2
      /\ \A i \in 1 .. Len(d.buf) : Len(data) + i > 2 => d.buf[i] = f[Len(data) + i - 2]
  BY DEF ReadSoFar
<1>3. \A i \in 1 .. Len(more) - 2 : more[i + 2] = f[i]
  <2> SUFFICES ASSUME NEW i \in 1 .. Len(more) - 2 PROVE more[i + 2] = f[i]
    OBVIOUS
  <2>1. CASE i <= Len(data) - 2
    <3>1. i + 2 \in 1 .. Len(data) /\ i \in 1 .. Len(data) - 2
      BY <1>1, <2>1
    <3> QED BY <1>1, <1>2, <3>1
  <2>2. CASE i > Len(data) - 2
    <3>1. i = Len(data) - 1 /\ i + 2 = Len(data) + 1 /\ Len(data) + 1 > 2 /\ Len(data) + 1 - 2 = i
      BY <1>1, <2>2
    <3>2. 1 \in 1 .. Len(d.buf)
      OBVIOUS
    <3>3. d.buf[1] = f[Len(data) + 1 - 2]
      BY <1>2, <3>1, <3>2
    <3> QED BY <1>1, <3>1, <3>3
  <2> QED BY <1>1, <2>1, <2>2
<1>4. Len(more) + Len(e.buf) = e.pos + 2
  BY <1>1, <1>2 DEF DioState
<1>5. \A i \in 1 .. Len(e.buf) : Len(more) + i > 2 => e.buf[i] = f[Len(more) + i - 2]
  <2> SUFFICES ASSUME NEW i \in 1 .. Len(e.buf), Len(more) + i > 2 PROVE e.buf[i] = f[Len(more) + i - 2]
    OBVIOUS
  <2>1. i + 1 \in 1 .. Len(d.buf) /\ Len(data) + (i + 1) > 2 /\ Len(data) + (i + 1) - 2 = Len(more) + i - 2
    BY <1>1
  <2> QED BY <1>2, <2>1
<1> QED BY <1>2, <1>3, <1>4, <1>5 DEF ReadSoFar, more

\* A step of a device that sends a file: what has been read is how the file begins.
LEMMA ReadingKept ==
  ASSUME DioInv, dio.phase = "Send", dio.cmd = "ReadFile", host' = host,
         dio' \in DioState, PhaseOK(dio'), crossed' \in Crossings, crossed'.of = crossed.of,
         crossed'.surplus = crossed.surplus, dio'.cmd = "ReadFile",
         dio'.file = Closed \/ dio'.file = dio.file,
         dio'.phase = "Send" => ~crossed'.lost /\ dio'.file = dio.file,
         dio'.phase \in {"Send", "Idle"},
         ~crossed'.lost => ReadSoFar(dio', host[dio.filename], crossed'.data)
  PROVE  DioInv'
<1>1. /\ crossed.of = dio.file /\ dio.file # Closed /\ dio.file[1] = dio.filename /\ dio.file[2] = "read"
      /\ dio.filename \in DOMAIN host
  BY SendsWhat
<1>2. RecordOK(dio', host', crossed')
  BY <1>1, SendsWhat DEF RecordOK
<1>3. BytesOK(dio', host', crossed')
  BY <1>1 DEF BytesOK
<1> QED BY <1>2, <1>3 DEF DioInv, DioTypeOK

LEMMA TakenPhaseOK ==
  ASSUME DioInv, dio.phase = "Send", dio.len # 1
  PROVE  PhaseOK(Taken(dio))
<1>1. LET d == Taken(dio)
      IN /\ d.len \in Nat /\ d.len > 0 /\ Len(d.buf) = d.len
         /\ d.phase = "Send" /\ d.cmd = dio.cmd /\ d.file = dio.file /\ d.filename = dio.filename
         /\ d.write_buffer = dio.write_buffer
         /\ d.cmd \in {"ReadFile", "GetError"}
  BY SendingIs
<1>2. PhaseOK(dio)
  BY DEF DioInv
<1> QED BY <1>1, <1>2 DEF PhaseOK

LEMMA AnotherByteKept ==
  ASSUME DioInv, NEW ok \in BOOLEAN, Getting(ok), dio.len # 1
  PROVE  DioInv'
<1> DEFINE d == Taken(dio)
<1>1. dio.phase = "Send"
  BY GettingIs
<1>2. /\ d \in DioState /\ d.len # 0 /\ d.phase = "Send" /\ d.cmd = dio.cmd /\ d.file = dio.file
      /\ d.cmd \in {"ReadFile", "GetError"}
  BY <1>1, SendingIs
<1>3. /\ dio' = d /\ host' = host /\ crossed' \in Crossings /\ crossed'.of = crossed.of /\ crossed'.surplus = crossed.surplus
      /\ crossed'.data = Append(crossed.data, Head(dio.buf)) /\ ~crossed'.lost
  BY <1>2, GettingIs
<1>4. PhaseOK(d)
  BY <1>1, TakenPhaseOK
<1>5. CASE dio.cmd = "GetError"
  <2>1. crossed.of = Closed /\ dio.file = Closed /\ ~crossed.surplus
    BY <1>1, <1>5, SendsWhat
  <2> HIDE DEF d
  <2> QED BY <1>2, <1>3, <1>4, <2>1 DEF DioInv, DioTypeOK, RecordOK, BytesOK
<1>6. CASE dio.cmd = "ReadFile"
  <2>1. ReadSoFar(d, host[dio.filename], crossed'.data)
    <3> DEFINE f == host[dio.filename]
               x == Head(dio.buf)
               data == crossed.data
    <3>1. ReadSoFar(dio, f, data) /\ dio \in DioState /\ data \in Seq(Int)
      BY <1>1, <1>6, SendsWhat DEF DioInv, DioTypeOK, Crossings
    <3>2. /\ x \in Int /\ x = dio.buf[1] /\ Len(dio.buf) \in Nat /\ Len(dio.buf) > 0
          /\ Len(d.buf) = Len(dio.buf) - 1 /\ \A i \in 1 .. Len(d.buf) : d.buf[i] = dio.buf[i + 1]
          /\ d.size = dio.size /\ d.pos = dio.pos
      BY <1>1, SendingIs
    <3> HIDE DEF d, f, x, data
    <3>3. ReadSoFar(d, f, Append(data, x))
      BY <1>1, <1>2, <3>1, <3>2, TakenSoFar
    <3> QED BY <1>3, <3>3 DEF f, x, data
  <2> HIDE DEF d
  <2> QED BY <1>1, <1>2, <1>3, <1>4, <1>6, <2>1, ReadingKept
<1> QED BY <1>2, <1>5, <1>6

LEMMA LastErrorKept ==
  ASSUME DioInv, NEW ok \in BOOLEAN, Getting(ok), dio.len = 1, dio.cmd = "GetError"
  PROVE  DioInv'
<1> DEFINE d == Taken(dio)
           i == IdlePhase(d)
<1>1. dio.phase = "Send"
  BY GettingIs
<1>2. d \in DioState /\ d.len = 0 /\ d.phase = "Send" /\ d.cmd = "GetError"
  BY <1>1, SendingIs
<1>3. /\ dio' = ProcCommand(d, host, "", ok).dio /\ host' = ProcCommand(d, host, "", ok).host
      /\ crossed' \in Crossings /\ crossed'.of = crossed.of /\ crossed'.surplus = crossed.surplus
  BY <1>2, GettingIs
<1>4. crossed.of = Closed /\ ~crossed'.surplus
  BY <1>1, <1>2, <1>3, SendsWhat
<1> HIDE DEF d
<1>5. dio' = i /\ host' = host
  BY <1>2, <1>3 DEF ProcCommand, CmdGetError, Handled
<1>6. i \in DioState /\ i.phase = "Idle" /\ i.file = Closed
  BY <1>2, IdleTyped
<1> HIDE DEF i
<1>7. PhaseOK(i) /\ FilesOK(host)
  BY <1>6 DEF PhaseOK, DioInv, DioTypeOK
<1> QED BY <1>3, <1>4, <1>5, <1>6, <1>7, NoFileKept

\* The next block of the file.
LEMMA BlockRead ==
  ASSUME NEW d \in DioState, NEW f \in Seq(Int), NEW data \in Seq(Int), d.phase = "Send", d.size > 0,
         Len(d.buf) = 0, ReadSoFar(d, f, data)
  PROVE  LET b == Lesser(Block, d.size)
             s == SubSeq(f, d.pos + 1, d.pos + b)
             e == SendPhase([d EXCEPT !.size = @ - b, !.pos = @ + b], s)
         IN /\ e \in DioState /\ e.phase = "Send" /\ e.len = Len(e.buf) /\ e.len > 0
            /\ e.cmd = d.cmd /\ e.file = d.file /\ e.filename = d.filename /\ e.write_buffer = d.write_buffer
            /\ ReadSoFar(e, f, data)
<1> DEFINE b == Lesser(Block, d.size)
           s == SubSeq(f, d.pos + 1, d.pos + b)
           g == [d EXCEPT !.size = d.size - b, !.pos = d.pos + b]
           e == SendPhase(g, s)
<1>1. d.size \in Nat /\ d.pos \in Nat /\ Len(f) \in Nat /\ Len(data) \in Nat
  BY LenProperties DEF DioState
<1>2. b \in Nat /\ b > 0 /\ b <= d.size
  BY <1>1, DioAssumption DEF Lesser
<1>3. d.pos + d.size = Lesser(MaxSize, Len(f)) /\ Len(data) = d.pos + 2
  BY <1>1 DEF ReadSoFar
<1>4. d.pos + b <= Len(f)
  <2> DEFINE w == Lesser(MaxSize, Len(f))
  <2>1. w \in Nat /\ w <= Len(f)
    BY <1>1, LesserIs, SizeIsNat
  <2>2. d.pos + d.size = w
    BY <1>3
  <2> HIDE DEF w, b
  <2> QED BY <1>1, <1>2, <2>1, <2>2
<1> HIDE DEF b
<1>5. /\ s \in Seq(Int) /\ Len(s) = b /\ \A i \in 1 .. b : s[i] = f[d.pos + i]
  <2> DEFINE m == d.pos + 1
             n == d.pos + b
  <2>1. m \in Int /\ n \in Int /\ m <= n /\ n - m + 1 = b /\ \A i \in 1 .. b : m + i - 1 = d.pos + i
    BY <1>1, <1>2
  <2>2. \A i \in m .. n : i \in 1 .. Len(f)
    BY <1>1, <1>2, <1>4
  <2>3. \A i \in m .. n : f[i] \in Int
    BY <2>2, ElementOfSeq
  <2> HIDE DEF m, n
  <2>4. /\ SubSeq(f, m, n) \in Seq(Int) /\ Len(SubSeq(f, m, n)) = n - m + 1
        /\ \A i \in 1 .. n - m + 1 : SubSeq(f, m, n)[i] = f[m + i - 1]
    BY <2>1, <2>3, SubSeqProperties
  <2> QED BY <2>1, <2>4 DEF m, n
<1> HIDE DEF s
<1>6. /\ g \in DioState /\ g.size = d.size - b /\ g.pos = d.pos + b /\ g.cmd = d.cmd /\ g.file = d.file
      /\ g.filename = d.filename /\ g.write_buffer = d.write_buffer
  <2> DEFINE z == d.size - b
             p == d.pos + b
  <2>1. z \in Nat /\ p \in Nat
    BY <1>1, <1>2
  <2> HIDE DEF z, p
  <2>2. g = [d EXCEPT !.size = z, !.pos = p]
    BY DEF z, p
  <2> HIDE DEF g
  <2>3. /\ g \in DioState /\ g.size = z /\ g.pos = p /\ g.cmd = d.cmd /\ g.file = d.file
        /\ g.filename = d.filename /\ g.write_buffer = d.write_buffer
    BY <2>1, <2>2 DEF DioState
  <2> QED BY <2>3 DEF z, p
<1> HIDE DEF g
<1>7. /\ e \in DioState /\ e.phase = "Send" /\ e.buf = s /\ e.len = b
      /\ e.cmd = d.cmd /\ e.file = d.file /\ e.filename = d.filename /\ e.write_buffer = d.write_buffer
      /\ e.size = d.size - b /\ e.pos = d.pos + b
  BY <1>5, <1>6, SendTyped
<1> HIDE DEF e
<1>8. ReadSoFar(e, f, data)
  <2>1. \A i \in 1 .. Len(data) - 2 : data[i + 2] = f[i]
    BY DEF ReadSoFar
  <2>2. e.pos + e.size = Lesser(MaxSize, Len(f)) /\ Len(data) + Len(e.buf) = e.pos + 2
    <3>1. e.pos + e.size = d.pos + d.size
      BY <1>1, <1>2, <1>7
    <3>2. Len(e.buf) = b /\ Len(data) + b = e.pos + 2
      BY <1>1, <1>2, <1>3, <1>5, <1>7
    <3> QED BY <1>3, <3>1, <3>2
  <2>3. \A i \in 1 .. Len(e.buf) : Len(data) + i > 2 => e.buf[i] = f[Len(data) + i - 2]
    <3>1. \A i \in 1 .. b : Len(data) + i - 2 = d.pos + i
      BY <1>1, <1>2, <1>3
    <3> QED BY <1>5, <1>7, <3>1
  <2> QED BY <1>7, <2>1, <2>2, <2>3 DEF ReadSoFar
<1> QED BY <1>2, <1>5, <1>7, <1>8 DEF b, s, g, e

LEMMA LastReadKept ==
  ASSUME DioInv, NEW ok \in BOOLEAN, Getting(ok), dio.len = 1, dio.cmd = "ReadFile"
  PROVE  DioInv'
<1> DEFINE d == Taken(dio)
           r(o) == ProcCommand(d, host, "", o)
           f == host[dio.filename]
           data == Append(crossed.data, Head(dio.buf))
<1>1. dio.phase = "Send"
  BY GettingIs
<1>2. /\ d \in DioState /\ d.len = 0 /\ Len(d.buf) = 0 /\ d.phase = "Send" /\ d.cmd = "ReadFile" /\ d.file = dio.file
      /\ d.filename = dio.filename /\ d.size \in Nat /\ d.write_buffer = dio.write_buffer
  BY <1>1, SendingIs DEF DioState
<1>3. /\ dio' = r(ok).dio /\ host' = r(ok).host
      /\ crossed' \in Crossings /\ crossed'.of = crossed.of
      /\ crossed'.surplus = crossed.surplus /\ crossed'.data = data
      /\ crossed'.lost <=> Lost(d, host, "", ok)
  BY <1>2, GettingIs DEF Crossings
<1>4. f \in Seq(Int) /\ data \in Seq(Int) /\ dio.file # Closed
  BY <1>1, SendingIs, SendsWhat, AppendProperties DEF DioInv, DioTypeOK, Crossings
<1>5. ReadSoFar(d, f, data)
  <2> DEFINE x == Head(dio.buf)
             before == crossed.data
  <2>1. ReadSoFar(dio, f, before) /\ dio \in DioState /\ before \in Seq(Int)
    BY <1>1, SendsWhat DEF DioInv, DioTypeOK, Crossings
  <2>2. /\ x \in Int /\ x = dio.buf[1] /\ Len(dio.buf) \in Nat /\ Len(dio.buf) > 0
        /\ Len(d.buf) = Len(dio.buf) - 1 /\ \A i \in 1 .. Len(d.buf) : d.buf[i] = dio.buf[i + 1]
        /\ d.size = dio.size /\ d.pos = dio.pos
    BY <1>1, SendingIs
  <2> HIDE DEF d, f, x, before
  <2>3. ReadSoFar(d, f, Append(before, x))
    BY <1>1, <1>2, <2>1, <2>2, TakenSoFar
  <2> QED BY <2>3 DEF x, before
<1> HIDE DEF d
<1>6. CASE d.size > 0
  <2> DEFINE b == Lesser(Block, d.size)
             e == SendPhase([d EXCEPT !.size = @ - b, !.pos = @ + b], SubSeq(f, d.pos + 1, d.pos + b))
             q == Fail([d EXCEPT !.size = @ - b], host, 0)
  <2>1. r(TRUE) = Handled(e, host) /\ r(FALSE) = q
    BY <1>2, <1>6 DEF ProcCommand, CmdReadFile, Read
  <2>2. /\ e \in DioState /\ e.phase = "Send" /\ e.len = Len(e.buf) /\ e.len > 0
        /\ e.cmd = d.cmd /\ e.file = d.file /\ e.filename = d.filename /\ e.write_buffer = d.write_buffer
        /\ ReadSoFar(e, f, data)
    <3> HIDE DEF f, data
    <3> QED BY <1>2, <1>4, <1>5, <1>6, BlockRead
  <2>3. /\ q.dio \in DioState /\ q.host = host /\ q.dio.phase = "Idle" /\ q.dio.file = Closed
        /\ q.dio.cmd = "ReadFile"
    <3> DEFINE g == [d EXCEPT !.size = @ - b]
    <3>1. b \in Nat /\ b <= d.size
      BY <1>2, LesserIs, DioAssumption
    <3> HIDE DEF b
    <3>2. g \in DioState /\ g.cmd = "ReadFile"
      BY <1>2, <3>1 DEF DioState
    <3>3. q = Fail(g, host, 0)
      OBVIOUS
    <3> HIDE DEF g, q
    <3>4. LET t == Fail(g, host, 0)
          IN /\ t.dio \in DioState /\ t.host = host /\ t.dio.phase = "Idle" /\ t.dio.file = Closed
             /\ t.dio.cmd = g.cmd
      BY <3>2, FailTyped
    <3> QED BY <3>2, <3>3, <3>4
  <2> HIDE DEF e, q
  <2>3a. r(TRUE).dio = e /\ r(TRUE).host = host /\ r(FALSE).dio = q.dio
    <3> HIDE DEF r
    <3>1. Handled(e, host).dio = e /\ Handled(e, host).host = host
      BY DEF Handled
    <3>2. r(TRUE) = Handled(e, host) /\ r(FALSE) = q
      BY <2>1
    <3>3. r(TRUE).dio = Handled(e, host).dio /\ r(TRUE).host = Handled(e, host).host
      BY <3>2
    <3> QED BY <3>1, <3>2, <3>3
  <2>4. CASE ok
    <3>1. r(ok) = r(TRUE) /\ ~Lost(d, host, "", ok)
      BY <2>4 DEF Lost
    <3> HIDE DEF r
    <3>2. dio' = e /\ host' = host
      BY <1>3, <2>3a, <3>1
    <3>3. PhaseOK(e)
      <4>1. ~dio.write_buffer
        BY <1>1, SendsWhat DEF DioInv, PhaseOK
      <4> QED BY <1>1, <1>2, <2>2, <4>1, SendsWhat DEF PhaseOK
    <3> QED BY <1>1, <1>2, <1>3, <2>2, <3>1, <3>2, <3>3, ReadingKept
  <2>5. CASE ~ok
    <3>1. r(ok) = r(FALSE)
      BY <2>5
    <3>2. r(TRUE) # r(FALSE)
      <4> HIDE DEF r
      <4>1. r(TRUE).dio.phase = "Send" /\ r(FALSE).dio.phase = "Idle"
        BY <2>2, <2>3, <2>3a
      <4> QED BY <4>1
    <3>3. crossed'.lost
      BY <1>3, <2>5, <3>2 DEF Lost
    <3> HIDE DEF r
    <3>4. dio' = q.dio /\ host' = host
      BY <1>3, <2>1, <2>3, <3>1
    <3>5. PhaseOK(q.dio)
      BY <2>3 DEF PhaseOK
    <3> QED BY <1>1, <1>3, <2>3, <3>3, <3>4, <3>5, ReadingKept
  <2> QED BY <2>4, <2>5
<1>7. CASE d.size = 0
  <2> DEFINE q == Fail(d, host, 0)
  <2>1. r(ok) = q
    BY <1>2, <1>7 DEF ProcCommand, CmdReadFile
  <2>2. /\ q.dio \in DioState /\ q.host = host /\ q.dio.phase = "Idle" /\ q.dio.file = Closed
        /\ q.dio.cmd = "ReadFile"
    BY <1>2, FailTyped
  <2> HIDE DEF q, r
  <2>3. dio' = q.dio /\ host' = host
    BY <1>3, <2>1, <2>2
  <2>4. ReadSoFar(q.dio, f, data)
    <3> HIDE DEF f, data
    <3>1. Len(data) \in Nat /\ d.pos \in Nat
      BY <1>2, <1>4, LenProperties DEF DioState
    <3>2. Len(data) = Lesser(MaxSize, Len(f)) + 2
      BY <1>2, <1>5, <1>7, <3>1 DEF ReadSoFar
    <3> QED BY <1>5, <2>2, <3>2 DEF ReadSoFar
  <2>5. PhaseOK(q.dio)
    BY <2>2 DEF PhaseOK
  <2> QED BY <1>1, <1>3, <2>2, <2>3, <2>4, <2>5, ReadingKept
<1> QED BY <1>2, <1>6, <1>7

LEMMA GetDataKept == ASSUME DioInv, GetData PROVE DioInv'
<1>1. PICK ok \in BOOLEAN : Getting(ok)
  BY DEF GetData, Getting, Taken
<1>2. dio.len # 1 \/ (dio.len = 1 /\ dio.cmd = "GetError") \/ (dio.len = 1 /\ dio.cmd = "ReadFile")
  BY <1>1, GettingIs, SendingIs
<1> QED BY <1>1, <1>2, AnotherByteKept, LastErrorKept, LastReadKept

-----------------------------------------------------------------------------
(* The reset, and the theorem. *)

LEMMA DioResetKept == ASSUME DioInv, DioReset PROVE DioInv'
<1> DEFINE b == [dio EXCEPT !.write_buffer = FALSE, !.filename = ""]
           none == <<>>
<1>1. /\ dio' = IdlePhase(b) /\ UNCHANGED host
      /\ crossed' = [crossed EXCEPT !.data = none, !.of = Closed, !.lost = FALSE, !.surplus = FALSE]
  BY DEF DioReset
<1>2. b \in DioState
  BY DEF DioInv, DioTypeOK, DioState, FileNames
<1> HIDE DEF b
<1>3. dio' \in DioState /\ dio'.phase = "Idle" /\ dio'.file = Closed
  BY <1>1, <1>2, IdleTyped
<1>4. none \in Seq(Int)
  BY EmptySeq
<1> HIDE DEF none
<1>5. crossed' \in Crossings /\ crossed'.of = Closed /\ ~crossed'.surplus
  BY <1>1, <1>4 DEF DioInv, DioTypeOK, Crossings, OpenFiles
<1>6. PhaseOK(dio') /\ FilesOK(host')
  BY <1>1, <1>3 DEF PhaseOK, DioInv, DioTypeOK
<1> QED BY <1>3, <1>5, <1>6, NoFileKept

LEMMA DioNextKept == DioInv /\ [DioNext]_diovars => DioInv'
<1> SUFFICES ASSUME DioInv, [DioNext]_diovars PROVE DioInv'
  OBVIOUS
<1>1. CASE \E c \in Commands : SetCommand(c)
  BY <1>1, SetCommandKept
<1>2. CASE ProgramSends
  BY <1>2, ProgramSendsKept
<1>3. CASE GetData
  BY <1>3, GetDataKept
<1>4. CASE DioReset
  BY <1>4, DioResetKept
<1>5. CASE UNCHANGED diovars
  BY <1>5 DEF diovars, DioInv, DioTypeOK, PhaseOK, RecordOK, BytesOK, Written, Pending, ReadSoFar, FilesOK
<1> QED BY <1>1, <1>2, <1>3, <1>4, <1>5 DEF DioNext

\* What the invariant says of the bytes that have crossed is what FilesWhole asks.
LEMMA BytesAreWhole == DioInv => FilesWhole
<1> SUFFICES ASSUME DioInv, crossed.of # Closed, ~crossed.lost
             PROVE  LET name == crossed.of[1]
                        received == IF dio.file # Closed /\ dio.phase = "Recv" THEN dio.buf ELSE <<>>
                        got == SubSeq(crossed.data, 3, Len(crossed.data))
                        whole == SubSeq(host[name], 1, Lesser(MaxSize, Len(host[name])))
                    IN /\ crossed.of[2] = "write" =>
                            IF crossed.surplus THEN StartsWith(host[name], crossed.data)
                            ELSE host[name] \o received = crossed.data
                       /\ crossed.of[2] = "read" =>
                            /\ got = SubSeq(whole, 1, Len(got))
                            /\ dio.phase = "Idle" => got = whole
  BY DEF FilesWhole
<1> DEFINE name == crossed.of[1]
           f == host[name]
           data == crossed.data
           l == Len(data)
           size == Lesser(MaxSize, Len(f))
           received == IF dio.file # Closed /\ dio.phase = "Recv" THEN dio.buf ELSE <<>>
           got == SubSeq(data, 3, l)
           whole == SubSeq(f, 1, size)
<1>1. f \in Seq(Int) /\ data \in Seq(Int) /\ l \in Nat /\ Len(f) \in Nat /\ size \in Nat /\ size <= Len(f)
  <2>1. name \in DOMAIN host
    BY DEF DioInv, RecordOK
  <2>2. f \in Seq(Int) /\ data \in Seq(Int)
    BY <2>1 DEF DioInv, DioTypeOK, FilesOK, Crossings
  <2> QED BY <2>2, LenProperties, LesserIs, SizeIsNat
<1>2. ASSUME crossed.of[2] = "write"
      PROVE  IF crossed.surplus THEN StartsWith(f, data) ELSE f \o received = data
  <2>1. dio.phase = "Recv" => dio.file # Closed
    BY DEF DioInv, RecordOK
  <2>2. received = Pending(dio)
    BY <2>1 DEF Pending
  <2> QED BY <1>2, <2>2 DEF DioInv, BytesOK, Written
<1>3. ASSUME crossed.of[2] = "read"
      PROVE  got = SubSeq(whole, 1, Len(got)) /\ (dio.phase = "Idle" => got = whole)
  <2>1. /\ \A i \in 1 .. l - 2 : data[i + 2] = f[i]
        /\ dio.phase = "Send" => l <= size + 2
        /\ dio.phase = "Idle" => l = size + 2
        /\ dio.phase \in {"Send", "Idle"}
    <3>1. ReadSoFar(dio, f, data)
      BY <1>3 DEF DioInv, BytesOK
    <3>2. dio.phase \in {"Send", "Idle"}
      BY <1>3 DEF DioInv, DioTypeOK, DioState, PhaseOK, RecordOK
    <3>3. dio.pos \in Nat /\ dio.size \in Nat /\ dio.buf \in Seq(Int)
      BY DEF DioInv, DioTypeOK, DioState
    <3>4. Len(dio.buf) \in Nat
      BY <3>3, LenProperties
    <3>5. dio.phase = "Send" => l <= size + 2
      <4> SUFFICES ASSUME dio.phase = "Send" PROVE l <= size + 2
        OBVIOUS
      <4> DEFINE m == Len(dio.buf)
      <4>1. dio.pos + dio.size = size /\ l + m = dio.pos + 2 /\ m \in Nat
        BY <3>1, <3>4 DEF ReadSoFar
      <4> HIDE DEF l, m, size
      <4> QED BY <1>1, <3>3, <4>1
    <3> QED BY <3>1, <3>2, <3>5 DEF ReadSoFar
  <2> HIDE DEF f, data, l, size
  <2>2. got \in Seq(Int) /\ Len(got) = (IF 3 <= l THEN l - 2 ELSE 0) /\ \A i \in 1 .. l - 2 : got[i] = f[i]
    <3>1. \A i \in 3 .. l : data[i] \in Int
      BY <1>1, ElementOfSeq DEF l
    <3>2. /\ got \in Seq(Int) /\ Len(got) = (IF 3 <= l THEN l - 3 + 1 ELSE 0)
          /\ \A i \in 1 .. l - 3 + 1 : got[i] = data[3 + i - 1]
      BY <1>1, <3>1, SubSeqProperties
    <3>3. l - 3 + 1 = l - 2 /\ \A i \in 1 .. l - 2 : 3 + i - 1 = i + 2
      BY <1>1
    <3> QED BY <2>1, <3>2, <3>3
  <2>3. whole \in Seq(Int) /\ Len(whole) = size /\ \A i \in 1 .. size : whole[i] = f[i]
    <3>1. \A i \in 1 .. size : f[i] \in Int
      BY <1>1, ElementOfSeq
    <3>2. /\ whole \in Seq(Int) /\ Len(whole) = (IF 1 <= size THEN size - 1 + 1 ELSE 0)
          /\ \A i \in 1 .. size - 1 + 1 : whole[i] = f[1 + i - 1]
      BY <1>1, <3>1, SubSeqProperties
    <3> QED BY <1>1, <3>2
  <2> DEFINE k == Len(got)
  <2>4. k \in Nat /\ k <= size /\ \A i \in 1 .. k : got[i] = whole[i]
    BY <1>1, <2>1, <2>2, <2>3
  <2> HIDE DEF got, whole, k
  <2> DEFINE begin == SubSeq(whole, 1, k)
  <2>5. begin \in Seq(Int) /\ Len(begin) = k /\ \A i \in 1 .. k : begin[i] = whole[i]
    <3>1. \A i \in 1 .. k : whole[i] \in Int
      BY <1>1, <2>3, <2>4, ElementOfSeq
    <3>2. /\ begin \in Seq(Int) /\ Len(begin) = (IF 1 <= k THEN k - 1 + 1 ELSE 0)
          /\ \A i \in 1 .. k - 1 + 1 : begin[i] = whole[1 + i - 1]
      BY <2>4, <3>1, SubSeqProperties
    <3> QED BY <2>4, <3>2
  <2> HIDE DEF begin
  <2>6. Len(got) = k
    BY DEF k
  <2>7. got = begin
    BY <2>2, <2>4, <2>5, <2>6, SeqEqual
  <2>8. ASSUME dio.phase = "Idle" PROVE got = whole
    <3>1. k = size
      BY <1>1, <2>1, <2>2, <2>6, <2>8
    <3> QED BY <2>2, <2>3, <2>4, <2>6, <3>1, SeqEqual
  <2> QED BY <2>7, <2>8 DEF begin, k
<1> QED BY <1>2, <1>3

\* Files cross the ports whole: what a program has sent is in the file with the block
\* under way, and what it has read is how the file begins, all of it at the end.
THEOREM FilesCrossWhole == DioSpec => []FilesWhole
<1>1. DioInit => DioInv
  BY DioInitInv
<1>2. DioInv /\ [DioNext]_diovars => DioInv'
  BY DioNextKept
<1>3. DioInv => FilesWhole
  BY BytesAreWhole
<1> QED BY <1>1, <1>2, <1>3, PTL DEF DioSpec

-----------------------------------------------------------------------------
(* The keyboard: what keystate, keyboard and the ports may show.             *)

Locks == {"MENU", "SCROLL", "CAPITAL"}
KbdState ==
  [active : BOOLEAN, arrow : BOOLEAN, pc80 : BOOLEAN, table : DOMAIN Tables, n80 : BOOLEAN,
   locked : [DOMAIN LockCodes -> BOOLEAN], on : SUBSET {"SCROLL"}]
KeysTypeOK ==
  /\ kbd \in KbdState /\ toggled \subseteq {"SCROLL"} /\ held \subseteq PhysKeys /\ menuDown \subseteq Locks
  /\ keyport \in [ReadPorts -> Seq(SUBSET (1 .. 8))]

\* What a key may have sent when it went down.
MaySend(k) == IF k = "pad2" THEN {<<"DOWN", "nex">>, <<"NUMPAD2", "nex">>} ELSE {Messages[k]}
PlainHeld == {"a", "shift", "f6"}

\* Whatever is pressed, by the user or by the menu, has been seen since the frame began.
AllSeen == menuDown \subseteq seen /\ keyboard \subseteq seen /\ (\A k \in held : KeyCodes(k) \subseteq seen)
\* While the window hears its messages, keystate holds what is still pressed.
StateHeld ==
  kbd.active => \A v, b : <<v, b>> \in keystate =>
    (\E k \in held : <<v, b>> \in MaySend(k)) \/ (v \in menuDown /\ b = "nex")
\* A plain key that was held at the retrace and still is, is in keystate.
KeptHeld == (~kbd.active => kept = {}) /\ \A k \in kept : k \in PlainHeld => Messages[k] \in keystate

\* The two halves of KeysAsHeld.
PortsShow ==
  kbd.active => \A p \in ReadPorts : keyport[p] # <<>> =>
    \A i \in keyport[p][1] : \E t \in DOMAIN Tables :
      \E e \in Tables[t][p][i] : Names(e) \intersect Showing # {}
PortsTell ==
  kbd.active => \A p \in ReadPorts : keyport[p] # <<>> =>
    \A k \in kept : k \in PlainHeld =>
      \A i \in 1 .. 8 : <<Messages[k][1], "any">> \in Tables[kbd.table][p][i] => i \in keyport[p][1]

KeysInv == KeysTypeOK /\ AllSeen /\ StateHeld /\ KeptHeld /\ PortsShow /\ PortsTell

LEMMA MessagesAre ==
  /\ Messages["a"] = <<"A", "nex">> /\ Messages["down"] = <<"DOWN", "ext">>
  /\ Messages["shift"] = <<"SHIFT", "nex">> /\ Messages["f6"] = <<"F6", "nex">>
  /\ Messages["scroll"] = <<"SCROLL", "nex">> /\ Messages["hankaku"] = <<"F4h", "nex">>
BY DEF Messages

LEMMA KeysAre == \A k \in PhysKeys : k \in {"a", "down", "shift", "f6", "scroll", "hankaku", "pad2"}
<1>1. DOMAIN Messages = {"a", "down", "shift", "f6", "scroll", "hankaku"}
  BY DEF Messages
<1> QED BY <1>1, KeysAssumption

LEMMA LockCodesAre == \A l \in DOMAIN LockCodes : LockCodes[l] \in Locks
BY DEF LockCodes, Locks

LEMMA TablesAre == DOMAIN Tables = {"AT106", "AT101"}
BY DEF Tables

\* What is sent, by whom, and what is let go of with it.
LEMMA SendsIs ==
  ASSUME NEW k \in PhysKeys
  PROVE  /\ Sends(k) \in MaySend(k) /\ Sends(k)[1] \in KeyCodes(k)
         /\ \A v, b : <<v, b>> \in MaySend(k) => v \in KeyCodes(k)
         /\ k \in PlainHeld => k # "pad2" /\ Sends(k) = Messages[k]
         /\ Sends(k) = <<Sends(k)[1], Sends(k)[2]>>
BY KeysAre, MessagesAre DEF Sends, MaySend, KeyCodes, PlainHeld

LEMMA UpIs ==
  ASSUME NEW k \in PhysKeys
  PROVE  /\ MaySend(k) \subseteq Up(Sends(k))
         /\ Sends(k)[1] \in Locks => Sends(k)[2] = "nex"
         /\ \A j \in PlainHeld : j # k => Messages[j] \notin Up(Sends(k))
<1>1. CASE k = "pad2"
  <2>1. Sends(k) \in {<<"DOWN", "nex">>, <<"NUMPAD2", "nex">>}
    BY <1>1 DEF Sends
  <2>2. {"NUMPAD2", "DOWN"} \in Pairs
    BY DEF Pairs
  <2>3. \A P \in Pairs : "A" \notin P /\ "SHIFT" \notin P /\ "F6" \notin P
    BY DEF Pairs
  <2>4. MaySend(k) \subseteq Up(Sends(k))
    BY <1>1, <2>1, <2>2 DEF MaySend, Up
  <2>5. \A v, b : <<v, b>> \in Up(Sends(k)) => <<v, b>> = Sends(k) \/ \E P \in Pairs : v \in P
    BY <2>1 DEF Up
  <2> QED BY <2>1, <2>3, <2>4, <2>5, MessagesAre DEF PlainHeld, Locks
<1>2. CASE k # "pad2"
  <2>1. Sends(k) = Messages[k] /\ MaySend(k) = {Messages[k]} /\ k \in {"a", "down", "shift", "f6", "scroll", "hankaku"}
    BY <1>2, KeysAre DEF Sends, MaySend
  <2>2. \A P \in Pairs : \A c \in {"A", "SHIFT", "F6", "SCROLL", "F4h"} : c \notin P
    BY DEF Pairs
  <2>3. Up(Messages[k]) = {Messages[k]}
    BY <2>1, <2>2, MessagesAre DEF Up
  <2> QED BY <2>1, <2>3, MessagesAre DEF PlainHeld, Locks
<1> QED BY <1>1, <1>2

LEMMA LockUpIs == \A v \in Locks : Up(<<v, "nex">>) = {<<v, "nex">>}
<1>1. \A P \in Pairs : \A v \in Locks : v \notin P
  BY DEF Pairs, Locks
<1> QED BY <1>1 DEF Up

LEMMA PortsClearedOK == PortsCleared \in [ReadPorts -> Seq(SUBSET (1 .. 8))]
BY DEF PortsCleared

LEMMA CodeIsBoolean == \A v : Code(v) \in BOOLEAN
<1> SUFFICES ASSUME NEW v PROVE Code(v) \in BOOLEAN
  OBVIOUS
<1>1. CASE v = "F4h"
  BY <1>1 DEF Code
<1>2. CASE v # "F4h"
  BY <1>2 DEF Code
<1> QED BY <1>1, <1>2

\* The menu presses its key, lets go of it, or need do neither.
LEMMA LockIs ==
  ASSUME LockKey
  PROVE  \E l \in DOMAIN LockCodes :
           /\ kbd' = kbd \/ \E locked \in BOOLEAN : kbd' = [kbd EXCEPT !.locked[l] = locked]
           /\ \/ UNCHANGED <<keystate, countF4, kbd, seen, menuDown>>
              \/ /\ KeyUp(<<LockCodes[l], "nex">>) /\ menuDown' = menuDown \ {LockCodes[l]}
                 /\ seen' = seen \union {LockCodes[l]}
              \/ /\ KeyDown(<<LockCodes[l], "nex">>) /\ menuDown' = menuDown \union {LockCodes[l]}
                 /\ seen' = seen \union {LockCodes[l]}
<1> DEFINE lit(l) == CASE l = "grph" -> kbd.locked[l] \/ Code(LockCodes[l])
                         [] OTHER -> kbd.locked[l] \/ LockCodes[l] \in toggled
<1>1. PICK l \in DOMAIN LockCodes :
        IF kbd.locked[l] = ~lit(l) THEN UNCHANGED <<keystate, countF4, kbd, seen, menuDown>>
        ELSE /\ kbd' = [kbd EXCEPT !.locked[l] = ~lit(l)]
             /\ IF lit(l) THEN KeyUp(<<LockCodes[l], "nex">>) /\ menuDown' = menuDown \ {LockCodes[l]}
                ELSE KeyDown(<<LockCodes[l], "nex">>) /\ menuDown' = menuDown \union {LockCodes[l]}
             /\ seen' = seen \union {LockCodes[l]}
  BY Zenon DEF LockKey
<1>2. (~lit(l)) \in BOOLEAN
  BY Zenon
<1> HIDE DEF lit
<1> QED BY <1>1, <1>2, Zenon

\* Each action in turn.
LEMMA KeysTypeKept ==
  ASSUME KeysTypeOK, KeysNext
  PROVE  KeysTypeOK'
<1> USE DEF KeysTypeOK
<1>1. CASE UserPresses
  <2>1. PICK k \in PhysKeys :
          held' = held \union {k} /\
          kbd' = IF k \in held \/ k # "scroll" THEN kbd ELSE [kbd EXCEPT !.on = (@ \union {"SCROLL"}) \ (@ \intersect {"SCROLL"})]
    BY <1>1 DEF UserPresses
  <2>2. kbd' \in KbdState
    BY <2>1 DEF KbdState
  <2> QED BY <1>1, <2>1, <2>2 DEF UserPresses
<1>2. CASE UserReleases
  BY <1>2 DEF UserReleases
<1>3. CASE LockKey
  <2>1. PICK l \in DOMAIN LockCodes :
          /\ kbd' = kbd \/ \E locked \in BOOLEAN : kbd' = [kbd EXCEPT !.locked[l] = locked]
          /\ \/ menuDown' = menuDown
             \/ menuDown' = menuDown \ {LockCodes[l]}
             \/ menuDown' = menuDown \union {LockCodes[l]}
    BY <1>3, LockIs
  <2>2. kbd' \in KbdState
    BY <2>1 DEF KbdState
  <2> QED BY <1>3, <2>1, <2>2, LockCodesAre DEF LockKey
<1>4. CASE UseCursorForTen
  <2>1. kbd' \in KbdState
    BY <1>4 DEF UseCursorForTen, KbdState
  <2> QED BY <1>4, <2>1 DEF UseCursorForTen
<1>5. CASE KeysApplyConfig
  <2>1. kbd' \in KbdState
    BY <1>5 DEF KeysApplyConfig, KbdState
  <2> QED BY <1>5, <2>1 DEF KeysApplyConfig
<1>6. CASE KeysReset
  <2> DEFINE locks == [l \in DOMAIN LockCodes |-> IF l = "grph" THEN Code("MENU") ELSE LockCodes[l] \in toggled]
  <2>1. locks \in [DOMAIN LockCodes -> BOOLEAN]
    <3>1. ASSUME NEW l \in DOMAIN LockCodes
          PROVE  (IF l = "grph" THEN Code("MENU") ELSE LockCodes[l] \in toggled) \in BOOLEAN
      <4>1. (LockCodes[l] \in toggled) \in BOOLEAN
        OBVIOUS
      <4> QED BY <4>1, CodeIsBoolean, Zenon
    <3> QED BY <3>1, Zenon
  <2>2. kbd' = [kbd EXCEPT !.pc80 = kbd.n80, !.locked = locks]
    BY <1>6 DEF KeysReset
  <2> HIDE DEF locks
  <2>3. kbd' \in KbdState
    BY <2>1, <2>2 DEF KbdState
  <2> QED BY <1>6, <2>3 DEF KeysReset
<1>7. CASE KeysActivate
  <2>1. kbd' \in KbdState
    BY <1>7 DEF KeysActivate, KbdState
  <2> QED BY <1>7, <2>1, PortsClearedOK DEF KeysActivate, PortsCleared
<1>8. CASE KeysVSync
  <2>1. kbd.on \subseteq {"SCROLL"}
    BY DEF KbdState
  <2> QED BY <1>8, <2>1, PortsClearedOK DEF KeysVSync
<1>9. CASE LateAnswer
  <2>1. kbd.on \subseteq {"SCROLL"}
    BY DEF KbdState
  <2> QED BY <1>9, <2>1 DEF LateAnswer
<1>10. CASE KeysIn
  <2>1. PICK p \in ReadPorts : keyport' = [keyport EXCEPT ![p] = <<PortBits(p)>>]
    BY <1>10 DEF KeysIn
  <2>2. PortBits(p) \subseteq 1 .. 8
    BY DEF PortBits
  <2> QED BY <1>10, <2>1, <2>2 DEF KeysIn
<1> QED BY <1>1, <1>2, <1>3, <1>4, <1>5, <1>6, <1>7, <1>8, <1>9, <1>10 DEF KeysNext

LEMMA AllSeenKept ==
  ASSUME KeysTypeOK, AllSeen, KeysNext
  PROVE  AllSeen'
<1> USE DEF AllSeen, KeysTypeOK
<1>1. CASE UserPresses
  BY <1>1 DEF UserPresses, KeyCodes
<1>2. CASE UserReleases
  BY <1>2 DEF UserReleases, KeyCodes
<1>3. CASE LockKey
  BY <1>3 DEF LockKey, KeyCodes
<1>4. CASE UseCursorForTen
  BY <1>4 DEF UseCursorForTen, KeyCodes
<1>5. CASE KeysApplyConfig
  BY <1>5 DEF KeysApplyConfig, KeyCodes
<1>6. CASE KeysReset
  BY <1>6 DEF KeysReset, KeyCodes
<1>7. CASE KeysActivate
  BY <1>7 DEF KeysActivate, KeyCodes
<1>8. HeldCodes \subseteq UNION {KeyCodes(k) : k \in held}
  BY SendsIs DEF HeldCodes
<1>9. CASE KeysVSync
  <2>1. held' = held /\ menuDown' = menuDown
    BY <1>9 DEF KeysVSync
  <2>2. CASE keyboard' = HeldCodes /\ seen' = (UNION {KeyCodes(k) : k \in held}) \union menuDown
    <3>1. menuDown' \subseteq seen' /\ \A k \in held : KeyCodes(k) \subseteq seen'
      BY <2>1, <2>2
    <3>2. keyboard' \subseteq seen'
      BY <2>2, <3>1, SendsIs DEF HeldCodes
    <3> QED BY <2>1, <3>1, <3>2 DEF KeyCodes
  <2>3. CASE UNCHANGED <<keyboard, seen>>
    BY <2>1, <2>3 DEF KeyCodes
  <2> QED BY <1>9, <2>2, <2>3 DEF KeysVSync
<1>10. CASE LateAnswer
  <2>1. held' = held /\ menuDown' = menuDown /\ keyboard' = HeldCodes /\ seen \subseteq seen'
    BY <1>10 DEF LateAnswer
  <2>2. HeldCodes \subseteq seen
    BY <1>8
  <2> QED BY <2>1, <2>2 DEF KeyCodes
<1>11. CASE KeysIn
  BY <1>11 DEF KeysIn, KeyCodes
<1> QED BY <1>1, <1>2, <1>3, <1>4, <1>5, <1>6, <1>7, <1>9, <1>10, <1>11 DEF KeysNext

LEMMA StateHeldKept ==
  ASSUME KeysTypeOK, StateHeld, KeysNext
  PROVE  StateHeld'
<1> USE DEF StateHeld, KeysTypeOK
<1>1. CASE UserPresses
  <2>1. PICK k \in PhysKeys :
          /\ held' = held \union {k} /\ kbd'.active = kbd.active
          /\ IF kbd.active THEN KeyDown(Sends(k)) ELSE UNCHANGED <<keystate, countF4>>
    BY <1>1 DEF UserPresses, KbdState
  <2>2. Sends(k) \in MaySend(k) /\ Sends(k) = <<Sends(k)[1], Sends(k)[2]>>
    BY SendsIs
  <2>3. menuDown' = menuDown
    BY <1>1 DEF UserPresses
  <2>4. kbd.active => \A i \in keystate' : i \in keystate \/ i \in MaySend(k)
    BY <2>1, <2>2 DEF KeyDown
  <2> QED BY <2>1, <2>3, <2>4 DEF MaySend
<1>2. CASE UserReleases
  <2>1. PICK k \in held :
          /\ held' = held \ {k} /\ menuDown' = menuDown \ {Sends(k)[1]}
          /\ kbd.active => keystate' = keystate \ Up(Sends(k))
    BY <1>2 DEF UserReleases, KeyUp
  <2>2. MaySend(k) \subseteq Up(Sends(k)) /\ (Sends(k)[1] \in Locks => Sends(k)[2] = "nex")
    BY UpIs
  <2>3. Sends(k) \in Up(Sends(k)) /\ Sends(k) = <<Sends(k)[1], Sends(k)[2]>>
    BY SendsIs DEF Up
  <2>4. kbd' = kbd
    BY <1>2 DEF UserReleases
  <2>5. ASSUME kbd'.active, NEW v, NEW b, <<v, b>> \in keystate'
        PROVE  (\E j \in held' : <<v, b>> \in MaySend(j)) \/ (v \in menuDown' /\ b = "nex")
    <3>1. <<v, b>> \in keystate /\ <<v, b>> \notin Up(Sends(k))
      BY <2>1, <2>4, <2>5
    <3>2. CASE \E j \in held : <<v, b>> \in MaySend(j)
      BY <2>1, <2>2, <3>1, <3>2
    <3>3. CASE v \in menuDown /\ b = "nex"
      BY <2>1, <2>2, <2>3, <3>1, <3>3
    <3> QED BY <2>4, <2>5, <3>1, <3>2, <3>3
  <2> QED BY <2>5 DEF MaySend
<1>3. CASE LockKey
  <2>1. held' = held
    BY <1>3 DEF LockKey
  <2>2. PICK l \in DOMAIN LockCodes :
          /\ kbd' = kbd \/ \E locked \in BOOLEAN : kbd' = [kbd EXCEPT !.locked[l] = locked]
          /\ \/ UNCHANGED <<keystate, countF4, kbd, seen, menuDown>>
             \/ KeyUp(<<LockCodes[l], "nex">>) /\ menuDown' = menuDown \ {LockCodes[l]}
             \/ KeyDown(<<LockCodes[l], "nex">>) /\ menuDown' = menuDown \union {LockCodes[l]}
    BY <1>3, LockIs
  <2>3. kbd'.active = kbd.active
    BY <2>2 DEF KbdState
  <2>4. CASE UNCHANGED <<keystate, menuDown>>
    BY <2>1, <2>3, <2>4 DEF MaySend
  <2>5. CASE KeyUp(<<LockCodes[l], "nex">>) /\ menuDown' = menuDown \ {LockCodes[l]}
    <3>1. keystate' = keystate \ {<<LockCodes[l], "nex">>}
      BY <2>5, LockUpIs, LockCodesAre DEF KeyUp
    <3> QED BY <2>1, <2>3, <2>5, <3>1 DEF MaySend
  <2>6. CASE KeyDown(<<LockCodes[l], "nex">>) /\ menuDown' = menuDown \union {LockCodes[l]}
    <3>1. \A i \in keystate' : i \in keystate \/ i = <<LockCodes[l], "nex">>
      BY <2>6 DEF KeyDown
    <3> QED BY <2>1, <2>3, <2>6, <3>1 DEF MaySend
  <2> QED BY <2>2, <2>4, <2>5, <2>6
<1>4. CASE KeysActivate
  <2>1. kbd'.active = ~kbd.active
    BY <1>4 DEF KeysActivate, KbdState
  <2> QED BY <1>4, <2>1 DEF KeysActivate
<1>5. ASSUME UNCHANGED <<keystate, held, menuDown>>, kbd'.active = kbd.active
      PROVE  StateHeld'
  BY <1>5 DEF MaySend
<1>6. CASE UseCursorForTen \/ KeysApplyConfig \/ KeysReset
  <2>1. kbd'.active = kbd.active
    BY <1>6 DEF UseCursorForTen, KeysApplyConfig, KeysReset, KbdState
  <2> QED BY <1>5, <1>6, <2>1 DEF UseCursorForTen, KeysApplyConfig, KeysReset
<1>7. CASE KeysVSync \/ LateAnswer \/ KeysIn
  BY <1>5, <1>7 DEF KeysVSync, LateAnswer, KeysIn
<1> QED BY <1>1, <1>2, <1>3, <1>4, <1>6, <1>7 DEF KeysNext

LEMMA KeptHeldKept ==
  ASSUME KeysTypeOK, KeptHeld, KeysNext
  PROVE  KeptHeld'
<1> USE DEF KeptHeld, KeysTypeOK
<1>1. CASE UserPresses
  <2>1. kbd'.active = kbd.active /\ kept' = kept /\ keystate \subseteq keystate'
    BY <1>1 DEF UserPresses, KeyDown, KbdState
  <2> QED BY <2>1 DEF PlainHeld
<1>2. CASE UserReleases
  <2>1. PICK k \in held :
          kept' = kept \ {k} /\ (kbd.active => keystate' = keystate \ Up(Sends(k)))
    BY <1>2 DEF UserReleases, KeyUp
  <2>2. \A j \in PlainHeld : j # k => Messages[j] \notin Up(Sends(k))
    BY UpIs
  <2>3. kbd' = kbd
    BY <1>2 DEF UserReleases
  <2> QED BY <2>1, <2>2, <2>3
<1>3. CASE LockKey
  <2>1. kept' = kept
    BY <1>3 DEF LockKey
  <2>2. PICK l \in DOMAIN LockCodes :
          /\ kbd' = kbd \/ \E locked \in BOOLEAN : kbd' = [kbd EXCEPT !.locked[l] = locked]
          /\ keystate' = keystate \/ KeyUp(<<LockCodes[l], "nex">>) \/ KeyDown(<<LockCodes[l], "nex">>)
    BY <1>3, LockIs
  <2>3. kbd'.active = kbd.active
    BY <2>2 DEF KbdState
  <2>4. keystate \ {<<LockCodes[l], "nex">>} \subseteq keystate'
    BY <2>2, LockUpIs, LockCodesAre DEF KeyUp, KeyDown
  <2>5. \A j \in PlainHeld : Messages[j] # <<LockCodes[l], "nex">>
    BY LockCodesAre, MessagesAre DEF PlainHeld, Locks
  <2> QED BY <2>1, <2>3, <2>4, <2>5
<1>4. CASE UseCursorForTen \/ KeysApplyConfig \/ KeysActivate
  BY <1>4 DEF UseCursorForTen, KeysApplyConfig, KeysActivate
<1>5. CASE KeysReset
  <2>1. kbd'.active = kbd.active
    BY <1>5 DEF KeysReset, KbdState
  <2> QED BY <1>5, <2>1 DEF KeysReset
<1>6. CASE KeysVSync
  BY <1>6, SendsIs DEF KeysVSync
<1>7. CASE LateAnswer \/ KeysIn
  BY <1>7 DEF LateAnswer, KeysIn
<1> QED BY <1>1, <1>2, <1>3, <1>4, <1>5, <1>6, <1>7 DEF KeysNext

\* While a port is shown, what it may show only grows.
LEMMA ShowingGrows ==
  ASSUME KeysTypeOK, KeysNext
  PROVE  keyport' = PortsCleared \/ Showing \subseteq Showing'
<1> USE DEF KeysTypeOK, Showing
<1>1. CASE UserPresses
  <2>1. PICK k \in PhysKeys :
          /\ seen' = seen \union KeyCodes(k)
          /\ kbd' = IF k \in held \/ k # "scroll" THEN kbd ELSE [kbd EXCEPT !.on = (@ \union {"SCROLL"}) \ (@ \intersect {"SCROLL"})]
    BY <1>1 DEF UserPresses
  <2>2. k = "scroll" => KeyCodes(k) = {"SCROLL"}
    BY MessagesAre DEF KeyCodes
  <2>3. kbd.on \subseteq {"SCROLL"}
    BY DEF KbdState
  <2>4. toggled' = toggled
    BY <1>1 DEF UserPresses
  <2> QED BY <2>1, <2>2, <2>3, <2>4
<1>2. CASE LateAnswer
  BY <1>2 DEF LateAnswer
<1>3. CASE KeysActivate
  <2>1. kbd'.on = kbd.on
    BY <1>3 DEF KeysActivate, KbdState
  <2> QED BY <1>3, <2>1 DEF KeysActivate
<1>4. CASE KeysVSync
  BY <1>4 DEF KeysVSync
<1>5. CASE LockKey
  <2>1. kbd'.on = kbd.on /\ seen \subseteq seen'
    BY <1>5, LockIs DEF KbdState
  <2> QED BY <1>5, <2>1 DEF LockKey
<1>6. CASE UseCursorForTen \/ KeysApplyConfig \/ KeysReset
  <2>1. kbd'.on = kbd.on
    BY <1>6 DEF UseCursorForTen, KeysApplyConfig, KeysReset, KbdState
  <2> QED BY <1>6, <2>1 DEF UseCursorForTen, KeysApplyConfig, KeysReset
<1>7. CASE UserReleases \/ KeysIn
  BY <1>7 DEF UserReleases, KeysIn
<1> QED BY <1>1, <1>2, <1>3, <1>4, <1>5, <1>6, <1>7 DEF KeysNext

\* A port is worked out: it shows what has been seen, and every plain key held.
LEMMA PortBitsShow ==
  ASSUME KeysInv, kbd.active, NEW p \in ReadPorts, NEW i \in PortBits(p)
  PROVE  \E t \in DOMAIN Tables : \E e \in Tables[t][p][i] : Names(e) \intersect Showing # {}
<1>1. PICK e \in Tables[kbd.table][p][i] : Says(e[1], e[2])
  BY DEF PortBits, GetKey
<1>2. kbd.table \in DOMAIN Tables
  BY DEF KeysInv, KeysTypeOK, KbdState
<1>3. \A v, b : <<v, b>> \in keystate => v \in seen
  BY SendsIs DEF KeysInv, KeysTypeOK, StateHeld, AllSeen
<1>4. keyboard \subseteq seen
  BY DEF KeysInv, AllSeen
<1>5. Code(e[1]) => e[1] \in Showing
  BY <1>3 DEF Code, Showing
<1>6. ASSUME e[2] = "pc80sft"
      PROVE  Names(e) \intersect Showing # {}
  BY <1>1, <1>4, <1>6 DEF Says, Names, Showing
<1>7. ASSUME e[2] # "pc80sft"
      PROVE  Names(e) \intersect Showing # {}
  <2>1. e[1] \in Showing
    BY <1>1, <1>3, <1>4, <1>5, <1>7 DEF Says, Showing
  <2> QED BY <1>7, <2>1 DEF Names
<1>8. Names(e) \intersect Showing # {}
  BY <1>6, <1>7
<1> QED BY <1>1, <1>2, <1>8

LEMMA PortBitsTell ==
  ASSUME KeysInv, kbd.active, NEW p \in ReadPorts, NEW k \in kept, k \in PlainHeld,
         NEW i \in 1 .. 8, <<Messages[k][1], "any">> \in Tables[kbd.table][p][i]
  PROVE  i \in PortBits(p)
<1>1. Messages[k] \in keystate
  BY DEF KeysInv, KeptHeld
<1>2. Messages[k] = <<Messages[k][1], "nex">> /\ Messages[k][1] # "F4h"
  BY MessagesAre DEF PlainHeld
<1>3. Says(Messages[k][1], "any")
  BY <1>1, <1>2 DEF Says, Code
<1> QED BY <1>3 DEF PortBits, GetKey

LEMMA PortsKept ==
  ASSUME KeysInv, KeysNext, KeysTypeOK'
  PROVE  PortsShow' /\ PortsTell'
<1> USE DEF PortsShow, PortsTell
<1>1. CASE keyport' = PortsCleared
  BY <1>1 DEF PortsCleared
<1>2. CASE keyport' # PortsCleared
  <2>1. Showing \subseteq Showing'
    BY <1>2, ShowingGrows DEF KeysInv
  <2>2. kbd'.active => kbd.active
    BY <1>2, LockIs DEF KeysNext, UserPresses, UserReleases, LockKey, UseCursorForTen, KeysApplyConfig, KeysReset,
      KeysActivate, KeysVSync, LateAnswer, KeysIn, KeysInv, KeysTypeOK, KbdState, PortsCleared
  <2>3. kept' \subseteq kept /\ (kept' = {} \/ kbd'.table = kbd.table)
    BY <1>2, LockIs DEF KeysNext, UserPresses, UserReleases, LockKey, UseCursorForTen, KeysApplyConfig, KeysReset,
      KeysActivate, KeysVSync, LateAnswer, KeysIn, KeysInv, KeysTypeOK, KbdState, PortsCleared
  <2>4. CASE KeysIn
    <3>1. PICK p \in ReadPorts : keyport[p] = <<>> /\ keyport' = [keyport EXCEPT ![p] = <<PortBits(p)>>]
      BY <2>4 DEF KeysIn
    <3>2. kbd.active /\ kbd' = kbd /\ kept' = kept /\ keyport \in [ReadPorts -> Seq(SUBSET (1 .. 8))]
      BY <2>4 DEF KeysIn, KeysInv, KeysTypeOK
    <3>3. keyport'[p] = <<PortBits(p)>> /\ \A q \in ReadPorts : q # p => keyport'[q] = keyport[q]
      BY <3>1, <3>2
    <3>4. PortsShow'
      BY <2>1, <3>2, <3>3, PortBitsShow DEF KeysInv
    <3>5. PortsTell'
      BY <3>2, <3>3, PortBitsTell DEF KeysInv
    <3> QED BY <3>4, <3>5
  <2>5. CASE keyport' = keyport
    <3>1. PortsShow'
      BY <2>1, <2>2, <2>5 DEF KeysInv
    <3>2. PortsTell'
      BY <2>2, <2>3, <2>5 DEF KeysInv
    <3> QED BY <3>1, <3>2
  <2> QED BY <1>2, <2>4, <2>5
    DEF KeysNext, UserPresses, UserReleases, LockKey, UseCursorForTen, KeysApplyConfig, KeysReset,
      KeysActivate, KeysVSync, LateAnswer, PortsCleared
<1> QED BY <1>1, <1>2

LEMMA KeysInitial ==
  ASSUME KeysInit
  PROVE  KeysInv
<1>1. kbd \in KbdState
  BY DEF KeysInit, KbdState, Tables
<1> QED BY <1>1, PortsClearedOK DEF KeysInit, KeysInv, KeysTypeOK, AllSeen, StateHeld, KeptHeld, PortsShow, PortsTell, PortsCleared

LEMMA KeysStutter ==
  ASSUME KeysInv, UNCHANGED keyvars
  PROVE  KeysInv'
<1> USE DEF keyvars, KeysInv
<1>1. KeysTypeOK' /\ AllSeen'
  BY DEF KeysTypeOK, AllSeen, KeyCodes
<1>2. StateHeld' /\ KeptHeld'
  BY DEF StateHeld, KeptHeld, MaySend
<1>3. PortsShow' /\ PortsTell'
  BY DEF PortsShow, PortsTell, Showing
<1> QED BY <1>1, <1>2, <1>3

\* A port shows no key that was let go of before the frame, and every plain key that
\* has been held since the retrace (winkeyif.cpp, In).
THEOREM PortsFollowKeys == KeysSpec => []KeysAsHeld
<1>1. KeysInit => KeysInv
  BY KeysInitial
<1>2. KeysInv /\ [KeysNext]_keyvars => KeysInv'
  BY KeysStutter, KeysTypeKept, AllSeenKept, StateHeldKept, KeptHeldKept, PortsKept DEF KeysInv
<1>3. KeysInv => KeysAsHeld
  BY DEF KeysInv, PortsShow, PortsTell, KeysAsHeld, PlainHeld
<1> QED BY <1>1, <1>2, <1>3, PTL DEF KeysSpec

-----------------------------------------------------------------------------
(* The calendar *)

CalTypeOK ==
  /\ DOMAIN calendar = {"datain", "dataout_mode", "strobe", "cmd", "scmd", "pcmd", "hold", "reg"}
  /\ calendar.hold \in BOOLEAN
  /\ DOMAIN told = {"bits", "shifts", "serial", "writes"}
  /\ told.shifts \in Nat /\ told.serial \in BOOLEAN

\* What stands in the registers is what was read, moved by the shifts since: as far as
\* its bits are behind the clock and the mode has not cut off the last register.
Moved(reg, t) ==
  \A k \in RegisterBits :
    k + t.shifts < 5 * Width \/ (t.serial /\ k + t.shifts < 6 * Width) => reg[k] = t.bits[k + t.shifts]

CalInv == CalTypeOK /\ Moved(calendar.reg, told)

\* The bits leave the registers one after the other, whichever the mode is.
LEMMA ShiftMoves ==
  ASSUME NEW reg, NEW bit, NEW serial \in BOOLEAN, NEW t,
         DOMAIN t = {"bits", "shifts", "serial", "writes"}, t.shifts \in Nat, t.serial \in BOOLEAN, Moved(reg, t)
  PROVE  Moved(ShiftRegisters(reg, IF serial THEN 6 ELSE 5, bit), CountedShift(t, serial))
<1> DEFINE u == CountedShift(t, serial)
<1>1. u.bits = t.bits /\ u.serial = (t.serial /\ serial) /\ u.shifts = IF t.shifts < 6 * Width THEN t.shifts + 1 ELSE t.shifts
  BY DEF CountedShift
<1>2. Width \in Nat \ {0}
  BY CalAssumption
<1>3. SUFFICES ASSUME NEW k \in RegisterBits,
                      k + u.shifts < 5 * Width \/ (u.serial /\ k + u.shifts < 6 * Width)
               PROVE  ShiftRegisters(reg, IF serial THEN 6 ELSE 5, bit)[k] = u.bits[k + u.shifts]
  BY DEF Moved
<1> HIDE DEF u
<1>4. k \in Nat /\ k < 6 * Width
  BY <1>2 DEF RegisterBits
<1>5. u.shifts = t.shifts + 1
  BY <1>1, <1>2, <1>3, <1>4
<1>6. (k + 1) + t.shifts < 5 * Width \/ (t.serial /\ serial /\ (k + 1) + t.shifts < 6 * Width)
  BY <1>1, <1>2, <1>3, <1>4, <1>5
<1>7. k + 1 \in RegisterBits
  BY <1>2, <1>4, <1>6 DEF RegisterBits
<1>8. reg[k + 1] = t.bits[(k + 1) + t.shifts]
  BY <1>6, <1>7 DEF Moved
<1>9. ShiftRegisters(reg, IF serial THEN 6 ELSE 5, bit)[k] = reg[k + 1]
  BY <1>2, <1>3, <1>4, <1>6 DEF ShiftRegisters, Shifted
<1> QED BY <1>1, <1>4, <1>5, <1>8, <1>9

\* A command that reads the time starts anew; the others leave the registers alone.
LEMMA CommandKeeps ==
  ASSUME CalTypeOK
  PROVE  LET c == CalendarCommand(calendar)
         IN /\ DOMAIN c = DOMAIN calendar
            /\ c.hold \in BOOLEAN
            /\ c.reg = IF c.cmd % 16 = 3 THEN GetTime(shown) ELSE calendar.reg
<1> DEFINE cmd == IF calendar.pcmd = 7 THEN calendar.scmd + 128 ELSE calendar.pcmd
           given == [calendar EXCEPT !.cmd = cmd]
<1>1. /\ DOMAIN given = DOMAIN calendar /\ given.cmd = cmd
      /\ given.hold \in BOOLEAN /\ given.reg = calendar.reg
  BY DEF CalTypeOK
<1>2. CalendarCommand(calendar) =
        CASE cmd % 16 = 0 -> [given EXCEPT !.hold = TRUE, !.dataout_mode = FALSE]
          [] cmd % 16 = 1 -> [given EXCEPT !.hold = FALSE, !.dataout_mode = TRUE]
          [] cmd % 16 = 2 -> [given EXCEPT !.hold = TRUE, !.dataout_mode = TRUE]
          [] cmd % 16 = 3 -> [given EXCEPT !.hold = TRUE, !.dataout_mode = FALSE, !.reg = GetTime(shown)]
          [] OTHER -> given
  BY Zenon DEF CalendarCommand
<1> HIDE DEF given, cmd
<1>3. CASE cmd % 16 = 3
  <2>1. CalendarCommand(calendar) = [given EXCEPT !.hold = TRUE, !.dataout_mode = FALSE, !.reg = GetTime(shown)]
    <3>1. cmd % 16 # 0 /\ cmd % 16 # 1 /\ cmd % 16 # 2
      BY <1>3
    <3> QED BY <1>2, <1>3, <3>1, Zenon
  <2> QED BY <1>1, <1>3, <2>1 DEF CalTypeOK
<1>4. CASE cmd % 16 # 3
  <2>1. \E hold, dataout_mode \in BOOLEAN :
          CalendarCommand(calendar) \in {given, [given EXCEPT !.hold = hold, !.dataout_mode = dataout_mode]}
    BY <1>2, <1>4
  <2> QED BY <1>1, <1>4, <2>1 DEF CalTypeOK
<1> QED BY <1>3, <1>4

LEMMA CalNextKeeps ==
  ASSUME CalInv, CalendarNext
  PROVE  CalInv'
<1>1. CASE CalendarOut10 \/ CalendarElapse
  BY <1>1 DEF CalInv, CalTypeOK, Moved, CalendarOut10, CalendarElapse
<1>2. CASE CalendarReset
  <2>1. CalTypeOK'
    BY <1>2 DEF CalInv, CalTypeOK, CalendarReset, Latched
  <2>2. calendar'.reg = NoBits
    BY <1>2 DEF CalInv, CalTypeOK, CalendarReset
  <2>3. told'.bits = NoBits /\ told'.shifts = 0
    BY <1>2 DEF CalInv, CalTypeOK, CalendarReset, Latched
  <2>4. Moved(calendar'.reg, told')
    BY <2>2, <2>3 DEF Moved, RegisterBits
  <2> QED BY <2>1, <2>4 DEF CalInv
<1>3. CASE CalendarOut40
  <2>0. PICK strobe \in BOOLEAN, clock \in BOOLEAN :
          LET given == strobe /\ ~calendar.strobe[1]
              clocked == clock /\ ~calendar.strobe[2]
              after == IF given THEN CalendarCommand(calendar) ELSE calendar
              read == IF given /\ after.cmd % 16 = 3 THEN Latched(GetTime(shown)) ELSE told
          IN /\ calendar' = [(IF clocked THEN ShiftData(after) ELSE after) EXCEPT !.strobe = <<strobe, clock>>]
             /\ told' = IF clocked /\ ~after.hold THEN CountedShift(read, Serial(after)) ELSE read
    BY <1>3, Zenon DEF CalendarOut40
  <2> DEFINE given == strobe /\ ~calendar.strobe[1]
             clocked == clock /\ ~calendar.strobe[2]
             after == IF given THEN CalendarCommand(calendar) ELSE calendar
             read == IF given /\ after.cmd % 16 = 3 THEN Latched(GetTime(shown)) ELSE told
  <2>1. /\ given \in BOOLEAN /\ clocked \in BOOLEAN
        /\ after = IF given THEN CalendarCommand(calendar) ELSE calendar
        /\ read = IF given /\ after.cmd % 16 = 3 THEN Latched(GetTime(shown)) ELSE told
        /\ calendar' = [(IF clocked THEN ShiftData(after) ELSE after) EXCEPT !.strobe = <<strobe, clock>>]
        /\ told' = IF clocked /\ ~after.hold THEN CountedShift(read, Serial(after)) ELSE read
    BY <2>0, Zenon
  <2> HIDE DEF given, clocked, after, read
  <2>2. DOMAIN after = DOMAIN calendar /\ after.hold \in BOOLEAN
    BY <2>1, CommandKeeps DEF CalInv, CalTypeOK
  <2>3. DOMAIN read = DOMAIN told /\ read.shifts \in Nat /\ read.serial \in BOOLEAN
    BY <2>1 DEF CalInv, CalTypeOK, Latched
  <2>4. Moved(after.reg, read)
    <3>1. CASE given /\ after.cmd % 16 = 3
      <4>1. after.reg = GetTime(shown)
        BY <2>1, <3>1, CommandKeeps DEF CalInv
      <4>2. read.bits = GetTime(shown) /\ read.shifts = 0
        BY <2>1, <3>1 DEF Latched, CalInv, CalTypeOK
      <4> QED BY <4>1, <4>2 DEF Moved, RegisterBits
    <3>2. CASE ~(given /\ after.cmd % 16 = 3)
      <4>1. after.reg = calendar.reg
        BY <2>1, <3>2, CommandKeeps DEF CalInv
      <4> QED BY <2>1, <3>2, <4>1 DEF CalInv
    <3> QED BY <3>1, <3>2
  <2>5. CASE ~clocked \/ after.hold
    <3>1. calendar'.reg = after.reg /\ calendar'.hold = after.hold /\ DOMAIN calendar' = DOMAIN after /\ told' = read
      <4> DEFINE c == IF clocked THEN ShiftData(after) ELSE after
      <4>1. c.reg = after.reg /\ c.hold = after.hold /\ DOMAIN c = DOMAIN after
        <5>1. CASE clocked
          <6>1. ShiftData(after) \in {after, [after EXCEPT !.scmd = after.scmd \div 2 + 8 * after.datain]}
            BY <2>2, <2>5, <5>1 DEF ShiftData
          <6> QED BY <2>2, <5>1, <6>1 DEF CalInv, CalTypeOK
        <5> QED BY <5>1
      <4>2. calendar' = [c EXCEPT !.strobe = <<strobe, clock>>] /\ told' = read
        BY <2>1, <2>5
      <4> HIDE DEF c
      <4> QED BY <2>2, <4>1, <4>2 DEF CalInv, CalTypeOK
    <3> QED BY <2>2, <2>3, <2>4, <3>1 DEF CalInv, CalTypeOK
  <2>6. CASE clocked /\ ~after.hold
    <3> DEFINE bit == IF Serial(after) THEN after.scmd % 2 ELSE after.datain
               reg == ShiftRegisters(after.reg, IF Serial(after) THEN 6 ELSE 5, bit)
    <3>1. told' = CountedShift(read, Serial(after)) /\ Serial(after) \in BOOLEAN
      BY <2>1, <2>6 DEF Serial
    <3>2. calendar'.reg = reg /\ calendar'.hold = after.hold /\ DOMAIN calendar' = DOMAIN after
      <4>1. ShiftData(after).reg = reg /\ ShiftData(after).hold = after.hold /\ DOMAIN ShiftData(after) = DOMAIN after
        BY <2>2, <2>6 DEF ShiftData, CalInv, CalTypeOK
      <4>2. calendar' = [ShiftData(after) EXCEPT !.strobe = <<strobe, clock>>]
        BY <2>1, <2>6
      <4> HIDE DEF reg
      <4> QED BY <2>2, <4>1, <4>2 DEF CalInv, CalTypeOK
    <3>3. Moved(calendar'.reg, told')
      <4> HIDE DEF bit
      <4>1. Moved(ShiftRegisters(after.reg, IF Serial(after) THEN 6 ELSE 5, bit), CountedShift(read, Serial(after)))
        BY <2>3, <2>4, <3>1, ShiftMoves DEF CalInv, CalTypeOK
      <4> QED BY <3>1, <3>2, <4>1
    <3>4. DOMAIN told' = DOMAIN read /\ told'.shifts \in Nat /\ told'.serial \in BOOLEAN
      BY <2>3, <3>1 DEF CountedShift, CalInv, CalTypeOK
    <3> QED BY <2>2, <2>3, <3>2, <3>3, <3>4 DEF CalInv, CalTypeOK
  <2> QED BY <2>2, <2>5, <2>6
<1> QED BY <1>1, <1>2, <1>3 DEF CalendarNext

\* The bits a program fetches are those of the time it read, in order, whatever it does
\* in between (calendar.cpp, ShiftData).
THEOREM BitsComeInOrder == CalendarSpec => []BitsOfTheTime
<1>1. CalendarInit => CalInv
  BY CalAssumption DEF CalendarInit, CalInv, CalTypeOK, Moved, NoBits, RegisterBits
<1>2. CalInv /\ [CalendarNext]_calvars => CalInv'
  <2>1. CalInv /\ UNCHANGED calvars => CalInv'
    BY DEF CalInv, CalTypeOK, Moved, calvars
  <2> QED BY <2>1, CalNextKeeps
<1>3. CalInv => BitsOfTheTime
  BY CalAssumption DEF CalInv, CalTypeOK, Moved, RegisterBits, BitsOfTheTime, In40
<1> QED BY <1>1, <1>2, <1>3, PTL DEF CalendarSpec
====

---- MODULE MCMachine ----
(***************************************************************************)
(* The devices of the machine share a run: each of these modules stands    *)
(* for itself, so a behaviour is one of the device that part names.  The   *)
(* memory and its manager, the tape, the keys, the calendar and the disk   *)
(* driver stand still in some state of theirs while another part runs; the *)
(* variables of the rest stay empty.                                       *)
(***************************************************************************)
EXTENDS Z80C, MemoryManager, Memory, Crtc, Screen, Tape, Keys, OPNIF, PC88,
        Calendar, DiskIO

-----------------------------------------------------------------------------
(* Z80C. *)

I(op, len) == [op |-> op, len |-> len, ed |-> FALSE, x |-> "HL", d |-> 0, cond |-> ""]
E(op) == [I(op, 2) EXCEPT !.ed = TRUE]
Alu(fn, src, n) == I("ALU", IF src = "n" THEN 2 ELSE 1) @@ [fn |-> fn, src |-> src, n |-> n]
MCProgram ==
  { Alu("ADD", "n", 127), Alu("ADC", "B", 0), Alu("SUB", "n", 128), Alu("SBC", "M", 0), Alu("CP", "n", 16),
    Alu("AND", "n", 15), Alu("XOR", "A", 0),
    I("AddXHL", 1) @@ [src |-> "DE"], [I("AddXHL", 2) EXCEPT !.x = "IX"] @@ [src |-> "IX"],
    E("WordHL") @@ [fn |-> "SBC", src |-> "DE"], E("WordHL") @@ [fn |-> "ADC", src |-> "HL"],
    I("RotateA", 1) @@ [fn |-> "RL"], I("CB", 2) @@ [fn |-> "RR", src |-> "B", bit |-> 0],
    I("CB", 2) @@ [fn |-> "BIT", src |-> "M", bit |-> 7], I("CB", 2) @@ [fn |-> "SRA", src |-> "A", bit |-> 7],
    I("CB", 2) @@ [fn |-> "RES", src |-> "A", bit |-> 7],
    I("DAA", 1), I("CPL", 1), I("SCF", 1), I("CCF", 1), [I("JR", 2) EXCEPT !.cond = "Z"] @@ [n |-> 250],
    [I("CALL", 3) EXCEPT !.cond = "PE"] @@ [to |-> 8], [I("RET", 1) EXCEPT !.cond = "M"], I("DJNZ", 2) @@ [n |-> 254],
    I("RST", 1) @@ [to |-> 56], I("JPHL", 1), I("Inc16", 1) @@ [src |-> "SP", by |-> 1], I("ExAF", 1), I("ExSP", 1),
    I("ExDE", 1), I("EXX", 1), I("Inc8", 1) @@ [src |-> "M", by |-> -1], I("Inc8", 1) @@ [src |-> "A", by |-> 1],
    I("PUSH", 1) @@ [src |-> "HL"], I("POP", 1) @@ [src |-> "BC"], I("PushAF", 1), I("PopAF", 1),
    I("LoadWord", 3) @@ [dst |-> "DE", src |-> "nn", nn |-> 40000],
    I("LoadByte", 1) @@ [dst |-> "B", src |-> "A"], [I("LoadByte", 3) EXCEPT !.x = "IY", !.d = 255] @@ [dst |-> "XH", src |-> "M"],
    I("LoadA", 1) @@ [at |-> "BC", store |-> TRUE], E("BlockMove") @@ [by |-> 1, again |-> TRUE],
    E("BlockSearch") @@ [by |-> -1, again |-> TRUE], E("NEG"), E("LoadAI") @@ [src |-> "I"], E("LoadIA"), E("IM") @@ [n |-> 1],
    E("RETN"), E("Nibble") @@ [fn |-> "RLD"], I("DI", 1), I("EI", 1), I("NOP", 1), I("HALT", 1),
    I("InN", 2), I("OutN", 2), E("InC") @@ [dst |-> "A"], E("OutC"),
    E("BlockIO") @@ [out |-> TRUE, again |-> TRUE, by |-> 1], E("BlockIO") @@ [out |-> FALSE, again |-> FALSE, by |-> -1] }
Pick(P(_)) == {i \in MCProgram : P(i)}
MCFollowers == {<<>>} \union { <<i>> : i \in Pick(LAMBDA i : i.op \in {"EI", "DI", "OutN", "OutC", "HALT", "LoadIA", "RST", "ALU"}) }
   \union { <<i, j>> : i \in Pick(LAMBDA i : i.op \in {"EI", "OutN"}), j \in Pick(LAMBDA i : i.op \in {"HALT", "InN", "NEG"}) }
MCPorts == {[sync |-> TRUE, line |-> TRUE, byte |-> 4, ack |-> I("Inc8", 1) @@ [src |-> "B", by |-> 1]],
            [sync |-> FALSE, line |-> FALSE, byte |-> 6, ack |-> I("LoadByte", 2) @@ [dst |-> "B", src |-> "n", n |-> 255]]}
MCStart == { PowerOn80,
  [PowerOn80 EXCEPT !.r["A"] = 128, !.r["B"] = 128, !.r["D"] = 255, !.sp = 3, !.mem[1] = 144, !.iff1 = TRUE, !.iff2 = TRUE, !.intmode = 1],
  [PowerOn80 EXCEPT !.iff1 = TRUE, !.iff2 = TRUE, !.intr = TRUE] }

-----------------------------------------------------------------------------
(* MemoryManager and Memory. *)

MCSpans == {[addr |-> 0, length |-> 8], [addr |-> 4, length |-> 1]}

W(p, d) == [port |-> p, data |-> d]
MCMemWrites ==
  { W(p, {}) : p \in {"31", "32", "34", "35", "40", "78", "e2"} } \union
  { W("31", {1}), W("31", {2}), W("32", {0, 6}), W("32", {4}), W("33", {6}), W("33", {7}), W("34", {0, 4}), W("34", {1}),
    W("35", {7}), W("35", {4, 7}), W("35", {5, 7}), W("40", {4}), W("99", {4}), W("e2", {0, 4}), W("f1", {}), W("f1", {0}) } \union
  { W("71", 0..7), W("71", (0..7) \ {1}), W("71", 1..7) } \union
  { W("5x", 0), W("5x", 2), W("5x", 3), W("70", 128), W("70", 1), W("e3", 1), W("f0", 1) }
MCSetUps == { <<>>, << W("5x", 0) >>, << W("32", {6}), W("35", {7}) >>, << W("e2", {0, 4}), W("e3", 1) >>,
  << W("f1", {}) >>, << W("31", {2}) >>, << W("5x", 1), W("33", {7}) >> }

-----------------------------------------------------------------------------
(* Crtc and PD8257. *)

Rows(pairs) == [a \in 0 .. Space - 1 |-> IF a >= MemBegin /\ (a - MemBegin) \div 4 < Len(pairs) THEN pairs[((a - MemBegin) \div 4) + 1][(a % 4) + 1] ELSE 0]
MCScreens == {Rows(<< <<65, 161, 0, 232>>, <<65, 0, 1, 1>>, <<66, 65, 0, 24>> >>),
              Rows(<< <<65, 0, 96, 1>>, <<161, 65, 0, 2>>, <<65, 65, 0, 232>> >>),
              Rows(<< <<161, 65, 96, 2>>, <<65, 161, 128, 232>>, <<65, 65, 1, 53>> >>)}
Dma(size, low, high) == << <<"mode", TRUE, {}>>, <<"addr", 1, 2>>, <<"addr", 1, 1>>, <<"count", 1, 1, {}>>, <<"count", 1, 0, {6}>>, <<"addr", 2, low>>, <<"addr", 2, high>>, <<"count", 2, (size - 1) % 4, {}>>, <<"count", 2, (size - 1) \div 4, {7}>>, <<"mode", TRUE, {1, 2}>> >>
SetUpAt(height, lines, mode, size, low, high) ==
  << << <<"command", 0>> >>, << <<"parameter", 0>>, <<"parameter", height>> >>,
     << <<"parameter", lines>>, <<"parameter", 0>>, <<"parameter", mode>> >>, Dma(size, low, high) \o << <<"command", 32>> >> >>
SetUp(height, lines, mode, size) == SetUpAt(height, lines, mode, size, 0, 1)
MCCrtcSetUps == {SetUp(1, 1, 64, 8), SetUp(2, 64 + 128 + 1, 0, 8), SetUp(1, 1, 32, 4), SetUp(1, 0, 64, 8), SetUpAt(0, 1, 64, 4, 2, 3)}
MCTransfers == {<<7, 7, 7>>}
MCPrograms == {SetUp(1, 1, 64, 8),
  << << <<"command", 33>> >> >>, << << <<"mode", FALSE, {2}>> >> >>,
  << << <<"command", 129>>, <<"parameter", 1>>, <<"parameter", 0>>, <<"in addr", 2>>, <<"in count", 2>>, <<"in status", 2>> >> >>,
  << << <<"command", 64>> >>, << <<"command", 33>> >> >>, << << <<"command", 192>>, <<"command", 96>> >> >>}

-----------------------------------------------------------------------------
(* Screen. *)

MCConfigs == {[fv15k |-> f, digital |-> ~f, textTp |-> f, gmask |-> IF f THEN {1} ELSE {}, n80 |-> n, fullLine |-> f] : f, n \in BOOLEAN}
MCPaletteWrites == {<<0, {7, 6, 1}>>, <<0, {1}>>, <<3, {6, 0}>>}

-----------------------------------------------------------------------------
(* Tape. *)

Gap(id, start, ticks) == [id |-> id, start |-> start, ticks |-> ticks]
Bytes(start, data, per) == [id |-> "Data", start |-> start, data |-> data, per |-> per, ticks |-> per * Len(data)]
MCTapes == { <<>>, <<[id |-> "Version"], Gap("Mark", 0, 1), Bytes(1, << <<1, 1>>, <<1, 2>> >>, 1), Gap("Blank", 3, 1), Bytes(4, << <<2, 1>> >>, 2), [id |-> "End"]>>,
  <<Gap("Mark", 0, 1), [id |-> "End"]>> }

-----------------------------------------------------------------------------
(* OPNIF. *)

MCWrites == { <<36, 3>>, <<39, 5>>, <<39, 21>>, <<39, 15>>, <<39, 0>>, <<180, 1>>, <<260, 7>> }
MCTopOf == [A |-> 7, B |-> 9]
MCYmPeriod(p) == p - 1

-----------------------------------------------------------------------------
(* PC88. *)

S(m, n, a, e) == [mode |-> m, noOPN44 |-> n, opna |-> a, opnA8 |-> n, opnaA8 |-> a, eram |-> e]
MCSettings == { S({1}, FALSE, FALSE, 0), S({5}, TRUE, FALSE, 1), S({0, 4, 5, 6}, TRUE, TRUE, 2), S({0, 4, 5}, TRUE, FALSE, 1) }
MCOther == [watch |-> << <<"40", "00">>, <<"31", "00">> >>]

-----------------------------------------------------------------------------
(* Calendar. *)

T(s, mi, h, d, mo, w, y) == [sec |-> s, min |-> mi, hour |-> h, mday |-> d, mon |-> mo, wday |-> w, year |-> y]
MCTimes == {T(3, 5, 4, 1, 0, 0, 8), T(7, 0, 8, 5, 1, 2, 5)}
MCPortBytes == {<<7, 0>>, <<7, 1>>, <<3, 0>>, <<2, 0>>, <<1, 0>>, <<0, 1>>}

-----------------------------------------------------------------------------
VARIABLE part

\* Every part but the memory manager.
Parts == <<z80vars, memvars, crtcvars, screenvars, tapevars, keyvars, opnvars, pcvars, calvars, diovars>>
vars == <<Parts, mmvars, part>>

\* The memory rests with the dictionary ROM selected.
MemRests == setup = <<>> /\ outs = 0 /\ mem = Outf1(PC88Reset(PowerOnMemory, {0, 4, 5}, {}, FALSE), {})
NoZ == cpu = <<>> /\ steps = <<>>
NoCrtc == crtc = <<>> /\ dma = <<>> /\ text = <<>> /\ image = <<>> /\ todo = <<>> /\ inStep = <<>> /\ inputs = <<>>
NoScreen == screen = <<>> /\ gvram = <<>> /\ dirty = <<>> /\ picture = <<>> /\ palette = <<>> /\ writes = <<>> /\ switched = <<>>
NoOpn == chip = <<>> /\ time = <<>> /\ stored = <<>> /\ calls = <<>>
NoPc == session = <<>> /\ outBanks = <<>> /\ ins = <<>> /\ list = <<>> /\ config = <<>> /\ board = <<>> /\ disks = <<>> /\ status = <<>> /\ pcSnapshot = <<>> /\ loaded = <<>> /\ pcSteps = <<>>
CalendarRests == CalendarInit /\ ~calendar.hold /\ shown = CHOOSE t \in Times : TRUE

Init ==
  /\ MmInit
  /\ \/ /\ part = "mm"
        /\ NoZ /\ NoCrtc /\ NoScreen /\ TapeInit /\ KeysInit /\ NoOpn /\ NoPc /\ CalendarRests /\ DioInit
     \/ /\ part = "z80" /\ ZInit
        /\ NoCrtc /\ NoScreen /\ TapeInit /\ KeysInit /\ NoOpn /\ NoPc /\ CalendarRests /\ DioInit
     \/ /\ part = "memory"
        /\ NoZ /\ NoCrtc /\ NoScreen /\ TapeInit /\ KeysInit /\ NoOpn /\ NoPc /\ CalendarRests /\ DioInit
     \/ /\ part = "crtc" /\ CrtcInit
        /\ NoZ /\ NoScreen /\ TapeInit /\ KeysInit /\ NoOpn /\ NoPc /\ CalendarRests /\ DioInit
     \/ /\ part = "screen" /\ ScreenInit
        /\ NoZ /\ NoCrtc /\ TapeInit /\ KeysInit /\ NoOpn /\ NoPc /\ CalendarRests /\ DioInit
     \/ /\ part = "tape" /\ TapeInit
        /\ NoZ /\ NoCrtc /\ NoScreen /\ KeysInit /\ NoOpn /\ NoPc /\ CalendarRests /\ DioInit
     \/ /\ part = "keys" /\ KeysInit
        /\ NoZ /\ NoCrtc /\ NoScreen /\ TapeInit /\ NoOpn /\ NoPc /\ CalendarRests /\ DioInit
     \/ /\ part = "opn" /\ OpnInit
        /\ NoZ /\ NoCrtc /\ NoScreen /\ TapeInit /\ KeysInit /\ NoPc /\ CalendarRests /\ DioInit
     \/ /\ part = "pc" /\ PcInit
        /\ NoZ /\ NoCrtc /\ NoScreen /\ TapeInit /\ KeysInit /\ NoOpn /\ CalendarRests /\ DioInit
     \/ /\ part = "calendar" /\ CalendarInit
        /\ NoZ /\ NoCrtc /\ NoScreen /\ TapeInit /\ KeysInit /\ NoOpn /\ NoPc /\ DioInit
     \/ /\ part = "disk" /\ DioInit
        /\ NoZ /\ NoCrtc /\ NoScreen /\ TapeInit /\ KeysInit /\ NoOpn /\ NoPc /\ CalendarRests
  /\ IF part = "memory" THEN MemInit ELSE MemRests

Next ==
  \/ part = "mm" /\ MmNext /\ UNCHANGED <<part, Parts>>
  \/ /\ part = "z80" /\ ZNext
     /\ UNCHANGED <<part, mmvars, memvars, crtcvars, screenvars, tapevars, keyvars, opnvars, pcvars, calvars, diovars>>
  \/ /\ part = "memory" /\ MemNext
     /\ UNCHANGED <<part, mmvars, z80vars, crtcvars, screenvars, tapevars, keyvars, opnvars, pcvars, calvars, diovars>>
  \/ /\ part = "crtc" /\ CrtcNext
     /\ UNCHANGED <<part, mmvars, z80vars, memvars, screenvars, tapevars, keyvars, opnvars, pcvars, calvars, diovars>>
  \/ /\ part = "screen" /\ ScreenNext
     /\ UNCHANGED <<part, mmvars, z80vars, memvars, crtcvars, tapevars, keyvars, opnvars, pcvars, calvars, diovars>>
  \/ /\ part = "tape" /\ TapeNext
     /\ UNCHANGED <<part, mmvars, z80vars, memvars, crtcvars, screenvars, keyvars, opnvars, pcvars, calvars, diovars>>
  \/ /\ part = "keys" /\ KeysNext
     /\ UNCHANGED <<part, mmvars, z80vars, memvars, crtcvars, screenvars, tapevars, opnvars, pcvars, calvars, diovars>>
  \/ /\ part = "opn" /\ OpnNext
     /\ UNCHANGED <<part, mmvars, z80vars, memvars, crtcvars, screenvars, tapevars, keyvars, pcvars, calvars, diovars>>
  \/ /\ part = "pc" /\ PcNext
     /\ UNCHANGED <<part, mmvars, z80vars, memvars, crtcvars, screenvars, tapevars, keyvars, opnvars, calvars, diovars>>
  \/ /\ part = "calendar" /\ CalendarNext
     /\ UNCHANGED <<part, mmvars, z80vars, memvars, crtcvars, screenvars, tapevars, keyvars, opnvars, pcvars, diovars>>
  \/ /\ part = "disk" /\ DioNext
     /\ UNCHANGED <<part, mmvars, z80vars, memvars, crtcvars, screenvars, tapevars, keyvars, opnvars, pcvars, calvars>>

Spec == Init /\ [][Next]_vars

-----------------------------------------------------------------------------
\* Z80C: the flags a program would see, computed as late as they may be, are those
\* its instructions mean; looking ahead, stepping back, halting and interrupts
\* neither skip an instruction nor carry one out twice.
Z80AsMeant == part = "z80" => FlagsAsMeant /\ NothingSkipped

\* CRTC, DMA controller and screen: the lines fetched in step with the screen are those
\* of the text memory, the text drawn from changes is that of all the lines fetched; the
\* graphics drawn from dirty blocks are those of the whole graphics memory, in the
\* palette of the registers.
PictureShown ==
  /\ [][part = "crtc" => LineAsText]_crtcvars
  /\ [](part = "crtc" => ImageIsText /\ TextInStep)
  /\ [](part = "screen" => PictureIsMemory /\ PaletteIsRegisters)

\* Tape deck and serial port: the bytes come in order and the tape neither stands
\* still nor is played twice as fast.
TapeRead == part = "tape" => BytesInOrder /\ TapeRuns

\* FM chip: the scheduler calls in time for every timer, and no interrupt is forgotten.
OpnInterrupts == part = "opn" => TimersServed /\ InterruptTold

\* Buses: each port reaches the devices that are there and wired to it, in order.
BusesAsWired == part = "pc" => BusAsWired

\* Snapshots: one loads into every device that is there, or into none, and the FM chip
\* then is as the program has written it.
SnapshotsRestore == [][(part = "opn" => HeardAfterLoad) /\ (part = "pc" => WholeAfterLoad)]_<<opnvars, pcvars>>
====

---- MODULE Calendar ----
(***************************************************************************)
(* The calendar clock, a uPD4990A (calendar.cpp): ports 0x10 and 0x40 give *)
(* it commands and shift its registers bit by bit.  Time passes in the     *)
(* host; the difference the clock keeps to it is the time it shows.        *)
(***************************************************************************)
EXTENDS Integers

CONSTANTS
  Ten, Base,   \* BCD: a digit is below Ten, and Base apart in a byte (10 and 16)
  Width,       \* bits of a register, Base being 2^(Width / 2): 8
  Times,       \* the times the clock shows in a run
  HostYear,    \* the year of the host
  PortBytes,   \* what the program writes to port 0x10: <<command, data bit>>
  MaxOut10     \* bound: writes to port 0x10

ASSUME CalAssumption == Width \in Nat \ {0}

VARIABLES
  calendar,    \* the registers of the chip
  shown,       \* the time it shows: that of the host and diff_
  told         \* the time last read, the shifts since, the writes to port 0x10
calvars == <<calendar, shown, told>>

NtoBCD(a) == (a \div Ten) * Base + (a % Ten)
BCDtoN(v) == (v \div Base) * Ten + (v % Base)

\* The six registers in a row, each with its bit 0 first.
RegisterBits == 0 .. 6 * Width - 1
NthBit(v, j) == (v \div 2 ^ j) % 2
\* The number in register i.
RegisterOf(reg, i) == CHOOSE v \in 0 .. 2 ^ Width - 1 : \A j \in 0 .. Width - 1 : NthBit(v, j) = reg[i * Width + j]
NoBits == [k \in RegisterBits |-> 0]

-----------------------------------------------------------------------------
(* The time in the registers, and back. *)

GetTime(t) ==
  LET bytes == <<NtoBCD(t.sec), NtoBCD(t.min), NtoBCD(t.hour), NtoBCD(t.mday), (t.mon + 1) * Base + t.wday, NtoBCD(t.year)>>
  IN [k \in RegisterBits |-> NthBit(bytes[k \div Width + 1], k % Width)]

\* The month comes out one late unless the weekday is 0; 40 bits hold no year.
Fields(reg, serial) ==
  LET number(i) == BCDtoN(RegisterOf(reg, i))
  IN <<number(0), number(1), number(2), number(3), (RegisterOf(reg, 4) - 1) \div Base,
       IF serial THEN number(5) ELSE HostYear>>
FieldsOf(t) == <<t.sec, t.min, t.hour, t.mday, t.mon, t.year>>

\* mktime makes some date of fields that are none, and finds the weekday itself.
SetTime(reg, serial) ==
  LET meant == {t \in Times : FieldsOf(t) = Fields(reg, serial)}
  IN IF meant = {} THEN Times ELSE meant

Serial(c) == c.cmd >= 128

\* A command is that of the port, or, if it is 7, the one shifted into the chip.
CalendarCommand(c) ==
  LET cmd == IF c.pcmd = 7 THEN c.scmd + 128 ELSE c.pcmd
      given == [c EXCEPT !.cmd = cmd]
  IN CASE cmd % 16 = 0 -> [given EXCEPT !.hold = TRUE, !.dataout_mode = FALSE]
       [] cmd % 16 = 1 -> [given EXCEPT !.hold = FALSE, !.dataout_mode = TRUE]
       [] cmd % 16 = 2 -> [given EXCEPT !.hold = TRUE, !.dataout_mode = TRUE]
       [] cmd % 16 = 3 -> [given EXCEPT !.hold = TRUE, !.dataout_mode = FALSE, !.reg = GetTime(shown)]
       [] OTHER -> given

\* One bit towards the least significant one, in the first registers: what leaves a
\* register enters the one before it, above its other bits.
Shifted(reg, last, bit) ==
  [k \in RegisterBits |->
     IF k >= last * Width THEN reg[k]
     ELSE IF k = last * Width - 1 THEN bit
     ELSE reg[k + 1]]

\* Mutant: each register takes in its own bit again, not that of the one behind it.
ShiftedAlone(reg, last, bit) ==
  [k \in RegisterBits |->
     IF k >= last * Width THEN reg[k]
     ELSE IF k = last * Width - 1 THEN bit
     ELSE IF k % Width = Width - 1 THEN reg[k + 1 - Width]
     ELSE reg[k + 1]]

\* Five registers of the parallel mode, six of the serial one.
ShiftRegisters(reg, last, bit) == Shifted(reg, last, bit)

ShiftData(c) ==
  LET into == c.scmd \div 2 + 8 * c.datain
  IN CASE c.hold /\ Serial(c) -> [c EXCEPT !.scmd = into]
       [] c.hold /\ ~Serial(c) -> c
       [] ~c.hold /\ Serial(c) -> [c EXCEPT !.reg = ShiftRegisters(@, 6, c.scmd % 2), !.scmd = into]
       [] OTHER -> [c EXCEPT !.reg = ShiftRegisters(@, 5, c.datain)]

-----------------------------------------------------------------------------
(* The ports.  The observer keeps the time that was put in the registers and *)
(* counts the shifts since, and whether all were of the serial mode.         *)

Latched(bits) == [told EXCEPT !.bits = bits, !.shifts = 0, !.serial = TRUE]
CountedShift(t, serial) == [t EXCEPT !.shifts = IF @ < 6 * Width THEN @ + 1 ELSE @, !.serial = @ /\ serial]

CalendarOut10 == \E w \in PortBytes :
  /\ told.writes < MaxOut10
  /\ calendar' = [calendar EXCEPT !.pcmd = w[1], !.datain = w[2]]
  /\ told' = [told EXCEPT !.writes = @ + 1]
  /\ UNCHANGED shown

\* Rising edges of the strobe give the command and of the clock shift, in this order.
CalendarOut40 == \E strobe \in BOOLEAN, clock \in BOOLEAN :
  LET given == strobe /\ ~calendar.strobe[1]
      clocked == clock /\ ~calendar.strobe[2]
  IN \E after \in {IF given THEN CalendarCommand(calendar) ELSE calendar} :
       /\ calendar' = [(IF clocked THEN ShiftData(after) ELSE after) EXCEPT !.strobe = <<strobe, clock>>]
       /\ IF given /\ after.cmd % 16 = 2 THEN shown' \in SetTime(after.reg, Serial(after)) ELSE UNCHANGED shown
       /\ told' = LET read == IF given /\ after.cmd % 16 = 3 THEN Latched(GetTime(shown)) ELSE told
                  IN IF clocked /\ ~after.hold THEN CountedShift(read, Serial(after)) ELSE read

\* Bit 0 of the first register while the chip sends, 0 otherwise.
In40(c) == IF c.dataout_mode THEN c.reg[0] ELSE 0

\* The machine is reset; the hold and the command of the port stay.
CalendarReset ==
  /\ calendar' = [calendar EXCEPT !.datain = 0, !.dataout_mode = FALSE, !.strobe = <<FALSE, FALSE>>,
                                  !.cmd = 128, !.scmd = 0, !.reg = NoBits]
  /\ told' = Latched(NoBits)
  /\ UNCHANGED shown

\* The clock of the host goes on; a snapshot keeps the time the chip showed.
CalendarElapse ==
  /\ shown' \in Times
  /\ UNCHANGED <<calendar, told>>

CalendarInit ==
  /\ \E hold \in BOOLEAN :
       calendar = [datain |-> 0, dataout_mode |-> FALSE, strobe |-> <<FALSE, FALSE>>, cmd |-> 128, scmd |-> 0,
                   pcmd |-> 0, hold |-> hold, reg |-> NoBits]
  /\ shown \in Times
  /\ told = [bits |-> NoBits, shifts |-> 0, serial |-> TRUE, writes |-> 0]

CalendarNext == CalendarOut10 \/ CalendarOut40 \/ CalendarReset \/ CalendarElapse

CalendarSpec == CalendarInit /\ [][CalendarNext]_calvars

-----------------------------------------------------------------------------
\* Whatever the program interleaves, holds, reads of the time, changes of mode and the
\* clock's own time going on, the bits it fetches while the chip sends are those of the
\* time it read, in order: 5 registers of them, and the year if it shifts in the serial
\* mode only.
BitsOfTheTime ==
  LET n == told.shifts
  IN calendar.dataout_mode /\ (n < 5 * Width \/ (told.serial /\ n < 6 * Width)) =>
       In40(calendar) = told.bits[n]
====

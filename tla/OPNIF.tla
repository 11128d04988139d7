---- MODULE OPNIF ----
(***************************************************************************)
(* A sound chip of the PC (opnif.cpp, ymfm_interface.cpp).  Every register *)
(* goes to two emulations: fm (fmgen) tells when the next timer runs out,  *)
(* so that the scheduler calls, and ym (ymfm) is heard and interrupts.     *)
(* Their timers are fmtimer.cpp and the engine of ymfm, which counts with  *)
(* a clock of its own: YmPeriod.  The status of fm is left out, for it is  *)
(* not read, and so is sound itself.                                       *)
(***************************************************************************)
EXTENDS Integers, Sequences, FiniteSets, FiniteSetsExt, SequencesExt

CONSTANTS
  Regs,          \* registers, 0 to 511; those of the second half from 256 on
  Writes,        \* what the program writes: pairs of a register and a byte
  TopOf,         \* the periods of timers A and B at value 0, in units of time
  YmPeriod(_),   \* the same time as ymfm counts it
  OpnTickLen,       \* units of time in a tick of the scheduler
  MaxTime,       \* bound: units of time
  MaxCalls       \* bound: operations of the program and of the user

VARIABLES chip, time, stored, calls
opnvars == <<chip, time, stored, calls>>

Timers == {"A", "B"}
NothingStored == [none |-> TRUE]

(***************************************************************************)
(* The registers of the timers.                                            *)
(***************************************************************************)
BitOf == [A |-> 1, B |-> 2]
Has27(d, bit) == (d \div bit) % 2 = 1
LoadBits(d) == {t \in Timers : Has27(d, BitOf[t])}
FlagBits(d) == {t \in Timers : Has27(d, 4 * BitOf[t])}
ResetBits(d) == {t \in Timers : Has27(d, 16 * BitOf[t])}

\* A timer value, or the control of both.
FmSetReg(c, r, d) ==
  CASE r = 36 -> [c EXCEPT !.period.A = TopOf.A - d]
    [] r = 38 -> [c EXCEPT !.period.B = TopOf.B - d]
    [] r = 39 -> [c EXCEPT
         !.fmLoad = LoadBits(d),
         !.fmCount = [t \in Timers |-> IF t \in LoadBits(d) \ c.fmLoad THEN c.period[t] ELSE @[t]]]
    [] OTHER -> c

\* The interrupt pin of ymfm, for which the bus hears of it when it is let through.
Pin(c, status) ==
  [c EXCEPT !.status = status,
            !.told = status # {} /\ c.through /\ (@ \/ c.status = {})]

Expired(c, t) ==
  [Pin(c, c.status \union ({t} \intersect c.flag)) EXCEPT !.count[t] = YmPeriod(c.period[t]), !.run = @ \union {t}]

\* A timer that is not loaded keeps its count, and counts on as long as its flag is set.
YmSetReg(c, r, d) ==
  IF r # 39 THEN c
  ELSE [Pin(c, c.status \ ResetBits(d)) EXCEPT
          !.count = [t \in Timers |-> IF t \in LoadBits(d) \ c.run THEN YmPeriod(c.period[t]) ELSE @[t]],
          !.run = LoadBits(d), !.flag = FlagBits(d)]

SetReg(c, r, d) == YmSetReg(FmSetReg(c, r, d), r, d)

(***************************************************************************)
(* Time.                                                                   *)
(***************************************************************************)
FmCount(c, passed) ==
  LET out == {t \in Timers : c.fmCount[t] > 0 /\ c.fmCount[t] <= passed}
  IN [c EXCEPT !.fmCount = [t \in Timers |->
        CASE @[t] = 0 -> 0
          [] t \in out -> ((@[t] - passed - 1) % c.period[t]) + 1
          [] OTHER -> @[t] - passed]]

YmOut(c, passed) == {t \in c.flag : c.count[t] <= passed}
YmCount(c, passed) ==
  LET less == [c EXCEPT !.count = [t \in Timers |-> IF t \in c.flag THEN @[t] - passed ELSE @[t]]]
  IN FoldSet(LAMBDA t, d : Expired(d, t), less, YmOut(c, passed))

NextEvent(c) ==
  LET running == {c.fmCount[t] : t \in {t \in Timers : c.fmCount[t] > 0}}
  IN IF running = {} THEN 0 ELSE (Min(running) + OpnTickLen - 1) \div OpnTickLen
UpdateTimer(c, at) == [c EXCEPT !.event = IF NextEvent(c) = 0 THEN 0 ELSE at + NextEvent(c) * OpnTickLen]

\* Mutant: the event is set anew only when a timer of ymfm has run out.
TimeEventOfYm(c, at, e) ==
  LET passed == at - c.prev
      moved == [c EXCEPT !.prev = at]
      counted == YmCount(FmCount(moved, passed), passed)
  IN IF ~c.enable THEN moved ELSE IF YmOut(c, passed) # {} THEN UpdateTimer(counted, at) ELSE counted

TimeEvent(c, at, e) ==
  LET passed == at - c.prev
      moved == [c EXCEPT !.prev = at]
      counted == YmCount(FmCount(moved, passed), passed)
  IN IF ~c.enable THEN moved ELSE IF YmOut(c, passed) # {} \/ e THEN UpdateTimer(counted, at) ELSE counted

(***************************************************************************)
(* The ports.                                                              *)
(***************************************************************************)
SetIntrMask(c, through) ==
  [c EXCEPT !.fmThrough = through, !.through = through,
            !.told = through /\ c.status # {} /\ (@ \/ ~c.through)]

Kept(c, r, d) == IF r \in Regs THEN [c EXCEPT !.regs[r] = d] ELSE c

SetIndex0(c, i) ==
  IF c.enable /\ i \div 4 = 11 THEN [Kept(c, 47, 1) EXCEPT !.index0 = i, !.prescaler = i] ELSE [c EXCEPT !.index0 = i]
SetIndex1(c, i) == [c EXCEPT !.index1 = i, !.data1 = i]

\* An OPN has no rhythm, no fourth channel and no stereo.
Ignored(c, d) == ~c.opna /\ (c.index0 \div 16 = 1 \/ (c.index0 = 40 /\ Has27(d, 4)))
Filtered(c, d) ==
  IF c.opna THEN d
  ELSE IF c.index0 = 34 THEN 0 ELSE IF c.index0 = 41 THEN 3 ELSE IF c.index0 >= 180 THEN 192 ELSE d

WriteData0(c, at, d) ==
  LET e == TimeEvent(c, at, FALSE)
      byte == Filtered(c, d)
      set == SetReg(Kept(e, c.index0, byte), c.index0, byte)
  IN IF ~c.enable THEN c
     ELSE IF Ignored(c, d) THEN e
     ELSE IF c.index0 = 39 THEN UpdateTimer(set, at) ELSE set

WriteData1(c, at, d) ==
  LET e == IF c.index1 \in {8, 16} THEN c ELSE TimeEvent(c, at, FALSE)
  IN IF c.enable /\ c.opna THEN [Kept(e, 256 + c.index1, d) EXCEPT !.data1 = d] ELSE c

(***************************************************************************)
(* Reset, and what a snapshot holds.                                       *)
(***************************************************************************)
RegsAfterReset ==
  [r \in Regs |-> CASE r = 41 -> 31 [] r = 272 -> 28 [] r \in 180 .. 182 \union 436 .. 438 -> 192 [] OTHER -> 0]
ResetChip(c) ==
  [c EXCEPT !.regs = RegsAfterReset, !.prescaler = 45, !.period = TopOf, !.fmLoad = {},
            !.fmCount = [t \in Timers |-> 0], !.fmThrough = TRUE, !.status = {}, !.flag = {}, !.run = {},
            !.through = TRUE, !.told = FALSE]

\* PC88::Reset: the mode and the use of the chip, reset, and port 32 with its mask.
MachineReset(c, enable, opna) == SetIntrMask(ResetChip([c EXCEPT !.enable = enable, !.opna = opna]), FALSE)

GetStatusSize(c) == IF ~c.enable THEN 0 ELSE IF c.opna THEN 2 ELSE 1
OpnSaveStatus(c) ==
  [none |-> FALSE, size |-> GetStatusSize(c), index0 |-> c.index0, index1 |-> c.index1, data1 |-> c.data1,
   regs |-> c.regs, through |-> c.fmThrough]

\* The registers LoadStatus writes again, in order: the first half through index 0
\* (true) and the second through index 1.
FirstWrites(r) == <<r, TRUE>>
Second(r) == <<r, FALSE>>
Both(r) == <<FirstWrites(r), Second(r)>>
Frequency(i) == <<FirstWrites(164 + i), FirstWrites(160 + i), FirstWrites(172 + i), FirstWrites(168 + i),
                  Second(164 + i), Second(160 + i), Second(172 + i), Second(168 + i)>>
Replay ==
  [i \in 1 .. 16 |-> FirstWrites(i - 1)] \o [i \in 1 .. 29 |-> FirstWrites(i + 10)] \o <<FirstWrites(41)>>
  \o FlattenSeq([i \in 1 .. 112 |-> Both(i + 47)]) \o FlattenSeq([i \in 1 .. 7 |-> Both(i + 175)])
  \o FlattenSeq([i \in 1 .. 3 |-> Frequency(i - 1)])
  \o [i \in 1 .. 8 |-> Second(i - 1)] \o [i \in 1 .. 5 |-> Second(i + 8)]
AddressOf(e) == IF e[2] THEN e[1] ELSE 256 + e[1]
\* Only the registers the instance has, for the others hold nothing.
Replayed == SelectSeq(Replay, LAMBDA e : AddressOf(e) \in Regs)

Rewritten(c, at, e, d) ==
  IF e[2] THEN WriteData0(IF e[1] < 48 THEN SetIndex0(c, e[1]) ELSE [c EXCEPT !.index0 = e[1]], at, d)
  ELSE WriteData1([c EXCEPT !.index1 = e[1]], at, d)

OpnLoadStatus(c, at, s) ==
  LET written == FoldLeft(LAMBDA d, e : Rewritten(d, at, e, s.regs[AddressOf(e)]), [c EXCEPT !.prev = at], Replayed)
  IN UpdateTimer([written EXCEPT !.fmThrough = s.through, !.index0 = s.index0, !.index1 = s.index1, !.data1 = s.data1], at)

(***************************************************************************)
(* Steps.                                                                  *)
(***************************************************************************)
OpnInit ==
  /\ chip = [index0 |-> 0, index1 |-> 0, data1 |-> 0, regs |-> RegsAfterReset, enable |-> TRUE, opna |-> TRUE,
             prescaler |-> 45, prev |-> 0, event |-> 0, period |-> TopOf, fmLoad |-> {},
             fmCount |-> [t \in Timers |-> 0], fmThrough |-> FALSE, count |-> [t \in Timers |-> 0], status |-> {},
             flag |-> {}, run |-> {}, through |-> FALSE, told |-> FALSE]
  /\ time = 0 /\ stored = NothingStored /\ calls = 0

OpnCall == calls < MaxCalls /\ calls' = calls + 1

OpnElapse ==
  /\ time < MaxTime /\ (chip.event = 0 \/ time < chip.event)
  /\ time' = time + 1
  /\ UNCHANGED <<chip, stored, calls>>

OpnTimeEvent ==
  /\ chip.event # 0 /\ chip.event <= time
  /\ chip' = TimeEvent([chip EXCEPT !.event = 0], time, TRUE)
  /\ UNCHANGED <<time, stored, calls>>

\* A program writes an index and then its byte.
OpnWrite ==
  /\ OpnCall
  /\ \E w \in Writes :
       chip' = IF w[1] < 256 THEN WriteData0(SetIndex0(chip, w[1]), time, w[2])
               ELSE WriteData1(SetIndex1(chip, w[1] - 256), time, w[2])
  /\ UNCHANGED <<time, stored>>

OpnIndex ==
  /\ OpnCall
  /\ \E i \in {45, 47} : chip' = SetIndex0(chip, i)
  /\ UNCHANGED <<time, stored>>

OpnMask ==
  /\ OpnCall
  /\ \E through \in BOOLEAN : chip' = SetIntrMask(chip, through)
  /\ UNCHANGED <<time, stored>>

OpnReset ==
  /\ OpnCall
  /\ \E enable, opna \in BOOLEAN : chip' = MachineReset(chip, enable, opna)
  /\ UNCHANGED <<time, stored>>

OpnSave ==
  /\ OpnCall /\ GetStatusSize(chip) > 0
  /\ stored' = OpnSaveStatus(chip)
  /\ UNCHANGED <<chip, time>>

\* The list of devices refuses a snapshot of another size.
OpnLoad ==
  /\ OpnCall /\ ~stored.none
  /\ \E enable, opna \in BOOLEAN :
       LET c == MachineReset(chip, enable, opna)
       IN chip' = IF GetStatusSize(c) = stored.size THEN OpnLoadStatus(c, time, stored) ELSE MachineReset(c, enable, opna)
  /\ UNCHANGED <<time, stored>>

OpnNext ==
  \/ OpnElapse \/ OpnTimeEvent \/ OpnWrite \/ OpnIndex \/ OpnMask \/ OpnReset \/ OpnSave \/ OpnLoad

(***************************************************************************)
(* Properties.                                                             *)
(***************************************************************************)
\* While the chip is in use and a timer runs, the scheduler calls no later than a
\* tick after that timer runs out, however writes to the registers, changes of the
\* period, resets and snapshots fall between (UpdateTimer and the event of
\* TimeEvent): the music does not stop.
TimersServed ==
  chip.enable => \A t \in Timers : chip.fmCount[t] > 0 =>
    chip.event # 0 /\ chip.event < chip.prev + chip.fmCount[t] + OpnTickLen

\* A timer that ran out while interrupts were masked is told when they are let
\* through again, and none is forgotten (OPNUnit and YMFMInterface::SetIntrMask).
InterruptTold == chip.through /\ chip.status # {} => chip.told

\* A snapshot that is taken gives back the registers it holds but those that are
\* strobes (keys on, prescaler) and what it leaves out, and the indexes: the writes
\* that restore them pass through the same filters and timers as a program's.
Strobes == {40, 45, 46, 47}
NotReplayed == {163, 167, 171, 175, 183, 264, 272}
HeardAfterLoad ==
  OpnLoad /\ GetStatusSize(chip') = stored.size =>
    /\ \A r \in Regs \ (Strobes \union NotReplayed) : r < 256 \/ chip'.opna => chip'.regs[r] = stored.regs[r]
    /\ chip'.index0 = stored.index0 /\ chip'.index1 = stored.index1 /\ chip'.data1 = stored.data1
    /\ \A t \in LoadBits(stored.regs[39]) : chip'.fmCount[t] = TopOf[t] - stored.regs[IF t = "A" THEN 36 ELSE 38]
====

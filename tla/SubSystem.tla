---- MODULE SubSystem ----
(***************************************************************************)
(* The two parallel ports (PIO) through which the main CPU and the disk    *)
(* sub CPU talk, with the count that tells when the sub CPU is idle.  Each *)
(* CPU accesses its own side at any time.  Port 2 is a set of bits, ports  *)
(* 0 and 1 hold values from a small set.                                   *)
(***************************************************************************)
EXTENDS Integers

CONSTANTS
  Values,      \* what the CPUs write to ports 0 and 1
  BitSets,     \* what they write to port 2
  Bits,        \* bits of port 2 they set and reset one by one
  Modes,       \* control words: sets of the input groups "A", "B", "CH", "CL"
  IdlePolls,   \* polls after which the sub CPU counts as idle, 200 in the code
  MaxPolls,    \* bound on the polls counted: the loop that asks IsBusy stops the count
  SavedSub     \* states in which the user has saved a snapshot

Sides == {"main", "sub"}

Partner(x) == IF x = "main" THEN "sub" ELSE "main"

VARIABLE sub

\* The groups that are inputs, readmask_; cw is what SubSystem keeps of it.
SetCW(p, mode) == [p EXCEPT !.mask = mode, !.port = <<0, 0, {}>>]

SetBit(p, bit, up) ==
  [p EXCEPT !.port[3] = IF up THEN @ \union {bit} ELSE @ \ {bit}]

PioReset(p) == [p EXCEPT !.port = <<0, 0, {}>>]

PioSetData(p, adr, data) == [p EXCEPT !.port[adr + 1] = data]

\* In output mode port 0 reads back port 1.
Read0(s, x) == IF "A" \in s[x].mask THEN s[Partner(x)].port[2] ELSE s[x].port[2]

Read1(s, x) == IF "B" \in s[x].mask THEN s[Partner(x)].port[1] ELSE s[x].port[2]

InputBits(p) ==
  (IF "CH" \in p.mask THEN 4..7 ELSE {}) \union (IF "CL" \in p.mask THEN 0..3 ELSE {})

Read2(s, x) ==
  {b \in 0..7 : IF b \in InputBits(s[x]) THEN (b + 4) % 8 \in s[Partner(x)].port[3]
                ELSE b \in s[x].port[3]}

IsBusy(s) == s.idle < IdlePolls

\* SaveStatus keeps the ports and the last control words, not the directions.
Control(p, mode) == [SetCW(p, mode) EXCEPT !.cw = mode]

\* Mutant: the control word is set after the ports, which it clears.
LoadDataFirst(p, saved) ==
  Control(PioSetData(PioSetData(PioSetData(p,
    0, saved.port[1]), 1, saved.port[2]), 2, saved.port[3]), saved.cw)

LoadSide(p, saved) ==
  PioSetData(PioSetData(PioSetData(Control(p, saved.cw),
    0, saved.port[1]), 1, saved.port[2]), 2, saved.port[3])

LoadSub(s, saved) == [main |-> LoadSide(s.main, saved.main),
                      sub |-> LoadSide(s.sub, saved.sub), idle |-> saved.idle]

-----------------------------------------------------------------------------

PowerOnPio == [port |-> <<0, 0, {}>>, mask |-> {}, cw |-> {}]

SubPowerOn == [main |-> PowerOnPio, sub |-> PowerOnPio, idle |-> 0]

\* The control word kept is that of the directions: in no state of the ports do they
\* part, of which those a snapshot was saved in are some.
WordsKept(s) ==
  /\ DOMAIN s = DOMAIN SubPowerOn
  /\ \A x \in Sides : DOMAIN s[x] = DOMAIN PowerOnPio /\ s[x].cw = s[x].mask

ASSUME SubAssumption == \A saved \in SavedSub : WordsKept(saved)

SubInit == sub = SubPowerOn

\* Every access but the sub CPU's read of port 2 starts the count again.
Access(x, p) == sub' = [sub EXCEPT ![x] = p, !.idle = 0]

SetPort == \E x \in Sides :
  \/ \E adr \in {0, 1}, v \in Values : Access(x, PioSetData(sub[x], adr, v))
  \/ \E v \in BitSets : Access(x, PioSetData(sub[x], 2, v))

SetMode == \E x \in Sides, mode \in Modes :
  Access(x, Control(sub[x], mode))

SetOneBit == \E x \in Sides, bit \in Bits, up \in BOOLEAN : Access(x, SetBit(sub[x], bit, up))

ReadPort == \E x \in Sides : Access(x, sub[x])

PollPort2 == sub.idle < MaxPolls /\ sub' = [sub EXCEPT !.idle = @ + 1]

\* The emulation asks whether the sub CPU may rest: IsBusy cuts the count back.
AskBusy == sub' = [sub EXCEPT !.idle = IF IsBusy(sub) THEN @ ELSE IdlePolls]

ResetSub == sub' = [main |-> SetBit(PioReset(sub.main), 0, FALSE),
                    sub |-> SetBit(PioReset(sub.sub), 0, FALSE), idle |-> 0]

LoadSubSnapshot(saved) == sub' = LoadSub(sub, saved)

SubNext ==
  \/ SetPort \/ SetMode \/ SetOneBit \/ ReadPort \/ PollPort2 \/ AskBusy \/ ResetSub
  \/ \E saved \in SavedSub : LoadSubSnapshot(saved)

SubSpec == SubInit /\ [][SubNext]_sub

\* What the two programs can tell of the state.
Observed(s) ==
  [x \in Sides |-> <<Read0(s, x), Read1(s, x), Read2(s, x), IsBusy(s)>>]

\* A snapshot brings back what both CPUs read and whether the sub CPU is idle,
\* although the directions of the ports are not in it: the control words are, they
\* are set before the ports, which they clear, and no reset of either side parts
\* them from the directions.
SameAfterLoad ==
  [][\A saved \in SavedSub : LoadSubSnapshot(saved) => Observed(sub') = Observed(saved)]_sub
====

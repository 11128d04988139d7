---- MODULE Memory ----
(***************************************************************************)
(* The bank switching of pc88/memory.cpp.  The ports keep what was written *)
(* to them; the Update functions work out from the ports what the regions  *)
(* of the address space show, and tell the memory manager only where that  *)
(* has changed: r00, r60, w00, rc0 and selgvram remember what they told it *)
(* last.  rd and wr are what the memory manager was told.                  *)
(*                                                                         *)
(* A port is the set of its bits that are one.  A bank is <<kind, number>>. *)
(* The regions are those that ever differ: 0000-5FFF, 6000-7FFF, 8000-83FF *)
(* (the text window), 8400-BFFF, C000-EFFF and F000-FFFF.  Of the graphics *)
(* memory there is one bit of each plane, at one address: the ALU treats   *)
(* all bits of all addresses alike.                                        *)
(***************************************************************************)
EXTENDS Integers, Sequences

CONSTANTS
  MemWrites,     \* [port, data]: what programs write to ports
  Switch31,      \* possible values of the switches behind port 31
  Modes88,       \* BasicMode values Reset is called with, as sets of bits
  EramBanks,     \* settings of the number of extended RAM banks
  Has,           \* ROM images found: subset of {"N80SR", "Jisyo", "CDBIOS"}
  ERoms,         \* extension ROMs found, of 1..8
  SetUps,        \* sequences of port writes that come first
  MaxOuts        \* bound on the steps after them

RegionIds == {"00", "60", "80", "84", "C0", "F0"}
LowRam == {"00", "60"}
Null == <<"Null", 0>>      \* a ROM that was not loaded
RAM == <<"RAM", 0>>
Neither == <<"", 0>>       \* what r00_ and the others are before first use
Planes == 0..2

VARIABLES mem, setup, outs
memvars == <<mem, setup, outs>>

Toggled(a, b) == (a \ b) \union (b \ a)

Mapped(map, regions, bank) == [r \in RegionIds |-> IF r \in regions THEN bank ELSE map[r]]
AllocRd(m, regions, bank) == [m EXCEPT !.rd = Mapped(@, regions, bank)]
AllocWr(m, regions, bank) == [m EXCEPT !.wr = Mapped(@, regions, bank)]
AllocRW(m, regions, bank) == AllocWr(AllocRd(m, regions, bank), regions, bank)

\* What SetWait gives the CPUs; nothing while waits are switched off.
SetWait(m) == IF m.enablewait THEN [m EXCEPT !.waits = <<m.waitmode, m.waittype>>] ELSE m

-----------------------------------------------------------------------------
(* 0000-7FFF.                                                                *)

EramAt(m, bit) == bit \in m.e2 /\ m.e3 < m.banks
Eram(m) == <<"ERAM", m.e3>>

ToldRd(m, cache, regions, bank) ==
  IF m[cache] = bank THEN m ELSE AllocRd([m EXCEPT ![cache] = bank], regions, bank)
ToldWr00(m, bank) == IF m.w00 = bank THEN m ELSE AllocWr([m EXCEPT !.w00 = bank], LowRam, bank)

Rd00(m) ==
  IF EramAt(m, 0) THEN Eram(m)
  ELSE IF 1 \in m.p31 THEN RAM
  ELSE IF 4 \in m.p99 THEN <<"CD", IF 2 \in m.p31 THEN 1 ELSE 0>>
  ELSE IF 2 \in m.p31 THEN <<"N", 0>> ELSE <<"N88", 0>>
Update00R(m) == ToldRd(m, "r00", {"00"}, Rd00(m))

\* The extension ROM with the highest number among those selected.
Highest(m) == CHOOSE i \in 1..7 : i \notin m.p71 /\ \A j \in (i + 1)..7 : j \in m.p71
InternalBank(m) == (IF 0 \in m.p32 THEN 1 ELSE 0) + (IF 1 \in m.p32 THEN 2 ELSE 0)

Rd60(m) ==
  IF EramAt(m, 0) THEN Eram(m)
  ELSE IF m.p31 \intersect {1, 2} = {}
       THEN IF 4 \in m.p99 THEN <<"CD", 0>>
            ELSE IF m.p71 = 0..7 THEN <<"N88", 0>>
            ELSE IF 0 \in m.p71 THEN <<"E", Highest(m)>>
            ELSE <<"N88E", InternalBank(m)>>
  ELSE IF m.p31 \intersect {1, 2} = {2}
       THEN IF 4 \in m.p99 THEN <<"CD", 1>> ELSE <<"N", 0>>
  ELSE RAM
Update60R(m) == ToldRd(m, "r60", {"60"}, Rd60(m))

Wr00(m) == IF EramAt(m, 4) THEN Eram(m) ELSE RAM
Update00W(m) == ToldWr00(m, Wr00(m))

\* LoadROM assigns n80rom_ twice, so that it holds the N80SR ROM, and n80v2rom_
\* never: the V2 half of the ROM is missing.
N80Rom == IF "N80SR" \in Has THEN <<"N80", 0>> ELSE Null
N80V2Rom == Null

ExtendedN80(m, bit) == (bit \in m.e2 \/ 1 \in m.p31) /\ m.e3 < m.banks
N80Rd00(m) == IF ExtendedN80(m, 0) THEN Eram(m) ELSE IF 7 \in m.p33 THEN N80V2Rom ELSE N80Rom
N80Rd60(m) ==
  IF ExtendedN80(m, 0) \/ 7 \in m.p33 THEN N80Rd00(m)
  ELSE IF 0 \in m.p31 \/ 8 \notin ERoms THEN N80Rom ELSE <<"E", 8>>
N80Wr00(m) == IF ExtendedN80(m, 4) THEN Eram(m) ELSE RAM

UpdateN80R(m) == ToldRd(ToldRd(m, "r00", {"00"}, N80Rd00(m)), "r60", {"60"}, N80Rd60(m))
UpdateN80W(m) == ToldWr00(m, N80Wr00(m))

-----------------------------------------------------------------------------
(* 8000-FFFF.                                                                *)

Window(m) == IF m.p70 = 128 THEN RAM ELSE <<"Window", m.p70>>
Bank80(m) == IF m.p31 \intersect {1, 2} # {} THEN RAM ELSE Window(m)
Update80(m) == AllocRW(m, {"80"}, Bank80(m))

GraphicsChosen(m) ==
  IF m.selgvram THEN m
  ELSE SetWait([m EXCEPT !.selgvram = TRUE, !.waittype[2] = IF 4 \in m.p40 THEN 2 ELSE 1])
SelectGVRAM(m, top) == GraphicsChosen(AllocRW(m, top, <<"GVRAM", m.p5x>>))
ALUFunction(m) == (IF 4 \in m.p35 THEN 1 ELSE 0) + (IF 5 \in m.p35 THEN 2 ELSE 0)
SelectALU(m, top) == GraphicsChosen(AllocWr(AllocRd(m, top, <<"ALU", 0>>), top, <<"ALU", ALUFunction(m)>>))

Jisyo(m) == <<"Jisyo", m.f0>>
SelectJisyo(m) ==
  IF m.seldic /\ m.rc0 # Jisyo(m) THEN AllocRd([m EXCEPT !.rc0 = Jisyo(m)], {"C0", "F0"}, Jisyo(m)) ELSE m

NormalRAM(m, regions) ==
  IF m.selgvram THEN SetWait([AllocRW(m, regions, RAM) EXCEPT !.selgvram = FALSE, !.waittype[2] = 0]) ELSE m

UpdateC0(m) ==
  LET s == IF 6 \in m.p32 THEN [m EXCEPT !.p5x = 3] ELSE m
      Upper == {"C0", "F0"}
      cleared == [s EXCEPT !.rc0 = Neither]
      normal == [NormalRAM(s, {"C0"}) EXCEPT !.rc0 = IF s.selgvram THEN RAM ELSE @]
  IN IF 6 \in s.p32 /\ 7 \in s.p35 THEN SelectJisyo(SelectALU(cleared, Upper))
     ELSE IF 6 \notin s.p32 /\ s.p5x < 3 THEN SelectJisyo(SelectGVRAM(cleared, Upper))
     ELSE IF s.seldic THEN SelectJisyo(normal)
     ELSE ToldRd(normal, "rc0", {"C0"}, RAM)

TVRAMShown(m) == 4 \notin m.p32 /\ 6 \in m.sw31
\* Mutant: the text memory is looked for only when graphics memory is selected.
F0OnlyFromGVRAM(m) ==
  IF ~m.selgvram \/ m.seldic THEN m
  ELSE AllocRW(m, {"F0"}, IF TVRAMShown(m) THEN <<"TVRAM", 0>> ELSE RAM)

\* Nothing is done while graphics memory is selected, or the dictionary ROM.
UpdateF0(m) ==
  IF m.selgvram \/ m.seldic THEN m
  ELSE AllocRW(m, {"F0"}, IF TVRAMShown(m) THEN <<"TVRAM", 0>> ELSE RAM)

UpdateN80G(m) ==
  LET s == IF 6 \in m.p33 THEN [m EXCEPT !.p5x = 3] ELSE m
      Upper == {"80", "84"}
      cleared == [s EXCEPT !.rc0 = Neither]
  IN IF 6 \in s.p33 /\ 7 \in s.p35 THEN SelectALU(cleared, Upper)
     ELSE IF 6 \notin s.p33 /\ s.p5x < 3 THEN SelectGVRAM(cleared, Upper)
     ELSE NormalRAM(s, Upper)

-----------------------------------------------------------------------------
(* The ports.                                                                *)

Out31(m, d) ==
  LET of == IF m.n80mode THEN {0, 1} ELSE {1, 2}
      s == [m EXCEPT !.p31 = d \intersect of]
  IN IF Toggled(d, m.p31) \intersect of = {} THEN m
     ELSE IF m.n80mode THEN UpdateN80W(UpdateN80R(s)) ELSE Update80(Update60R(Update00R(s)))

Out32(m, d) ==
  LET mod == Toggled(d, m.p32)
      a == [m EXCEPT !.p32 = d]
      b == IF mod \intersect {0, 1} # {} THEN Update60R(a) ELSE a
      c == IF 6 \in mod THEN UpdateC0(b) ELSE b
  IN IF m.n80mode THEN m ELSE IF mod \intersect {4, 6} # {} THEN UpdateF0(c) ELSE c

Out33(m, d) ==
  LET mod == Toggled(d, m.p33)
      a == [m EXCEPT !.p33 = d]
      b == IF 7 \in mod THEN UpdateN80R(a) ELSE a
  IN IF ~m.n80mode THEN m ELSE IF 6 \in mod THEN UpdateN80G(b) ELSE b

\* Bits i and i + 4 say what the ALU does to plane i: clear, set, invert, nothing.
NoALU(m) == m.n80mode /\ ~m.n80sr
Out34(m, d) == IF NoALU(m) THEN m ELSE [m EXCEPT !.p34 = d]
Out35(m, d) ==
  LET s == [m EXCEPT !.p35 = d, !.p5x = IF 7 \in d THEN 3 ELSE @]
  IN IF NoALU(m) THEN m ELSE IF m.n80mode THEN UpdateN80G(s) ELSE UpdateF0(UpdateC0(s))

Out40(m, d) ==
  LET s == [m EXCEPT !.p40 = d \intersect {4}]
  IN IF d \intersect {4} = m.p40 THEN m
     ELSE IF m.selgvram THEN SetWait([s EXCEPT !.waittype[2] = IF 4 \in d THEN 2 ELSE 1]) ELSE s

Out5x(m, bank) ==
  LET s == [m EXCEPT !.p5x = bank]
  IN IF ~m.n80mode THEN UpdateF0(UpdateC0(s)) ELSE IF ~m.n80sr /\ bank \in {1, 2} THEN m ELSE UpdateN80G(s)

Windowed(m) == IF m.p31 \intersect {1, 2} = {} THEN Update80(m) ELSE m
Out70(m, high) == IF m.n80mode THEN m ELSE Windowed([m EXCEPT !.p70 = high])
Out78(m) == Windowed([m EXCEPT !.p70 = (@ + 1) % 256])

Out71(m, d) ==
  LET s == [m EXCEPT !.p71 = d \union ((1..7) \ ERoms)]
  IN IF m.n80mode THEN IF 7 \in m.p33 THEN UpdateN80R(s) ELSE s
     ELSE IF m.p31 \intersect {1, 2} = {} THEN Update60R(s) ELSE s

Out99(m, d) ==
  IF "CDBIOS" \in Has /\ ~m.n80mode THEN Update60R(Update00R([m EXCEPT !.p99 = d \intersect {0, 4}]))
  ELSE [m EXCEPT !.p99 = {}]

LowUpdated(m) == IF m.n80mode THEN UpdateN80W(UpdateN80R(m)) ELSE Update00W(Update60R(Update00R(m)))
Oute2(m, d) == LowUpdated([m EXCEPT !.e2 = d])
Oute3(m, page) == LowUpdated([m EXCEPT !.e3 = page])

JisyoUsable(m) == "Jisyo" \in Has /\ ~m.n80mode
Outf0(m, bank) ==
  LET s == [m EXCEPT !.f0 = bank] IN IF JisyoUsable(m) THEN UpdateF0(UpdateC0(s)) ELSE s
Outf1(m, d) == IF JisyoUsable(m) THEN UpdateF0(UpdateC0([m EXCEPT !.seldic = 0 \notin d])) ELSE m

Written(m, w) ==
  CASE w.port = "31" -> Out31(m, w.data) [] w.port = "32" -> Out32(m, w.data)
    [] w.port = "33" -> Out33(m, w.data) [] w.port = "34" -> Out34(m, w.data)
    [] w.port = "35" -> Out35(m, w.data) [] w.port = "40" -> Out40(m, w.data)
    [] w.port = "5x" -> Out5x(m, w.data) [] w.port = "70" -> Out70(m, w.data)
    [] w.port = "71" -> Out71(m, w.data) [] w.port = "78" -> Out78(m)
    [] w.port = "99" -> Out99(m, w.data) [] w.port = "e2" -> Oute2(m, w.data)
    [] w.port = "e3" -> Oute3(m, w.data) [] w.port = "f0" -> Outf0(m, w.data)
    [] w.port = "f1" -> Outf1(m, w.data) [] OTHER -> m

MemInPorts(m) == [p32 |-> m.p32, p33 |-> IF m.n80mode THEN m.p33 ELSE 0..7, p5c |-> m.p5x,
               p70 |-> m.p70, p71 |-> m.p71, e2 |-> {1, 2, 3, 5, 6, 7} \union ({0, 4} \ m.e2), e3 |-> m.e3]

-----------------------------------------------------------------------------
(* Reset, the configuration, the vertical retrace.                           *)

PowerOnMemory ==
  [p31 |-> {}, p32 |-> {}, p33 |-> {}, p34 |-> {}, p35 |-> {}, p40 |-> {}, p5x |-> 3, p70 |-> 0, p71 |-> 0..7,
   p99 |-> {}, e2 |-> {}, e3 |-> 0, f0 |-> 0, sw31 |-> {}, mode |-> {}, n80mode |-> FALSE, n80sr |-> FALSE,
   seldic |-> FALSE, selgvram |-> FALSE, enablewait |-> FALSE, waitmode |-> <<FALSE, FALSE>>, waittype |-> <<{}, 0>>,
   waits |-> <<>>, banks |-> 0, neweram |-> 4, r00 |-> Neither, r60 |-> Neither, w00 |-> Neither, rc0 |-> Neither,
   rd |-> [r \in RegionIds |-> RAM], wr |-> [r \in RegionIds |-> RAM],
   gvram |-> {}, alureg |-> {}, dirty |-> TRUE]

\* BasicMode: bit 1 is N80, kN80V2 has bit 4 as well.
Reset88(m, newmode, switches, high) ==
  LET n80 == 1 \in newmode /\ (IF 7 \in m.p33 THEN N80V2Rom ELSE N80Rom) # Null
      a == [m EXCEPT !.sw31 = switches, !.mode = newmode, !.n80mode = n80, !.n80sr = newmode = {1, 4},
              !.waitmode = <<6 \in switches \/ (n80 /\ newmode = {1, 4}), high>>, !.selgvram = TRUE, !.p5x = 3,
              !.r00 = Neither, !.r60 = Neither, !.w00 = Neither, !.neweram = IF n80 /\ @ < 1 THEN 1 ELSE @]
      b == IF a.banks = a.neweram THEN a ELSE [AllocRW(a, LowRam, RAM) EXCEPT !.banks = a.neweram]
      c == AllocRW(b, RegionIds \ LowRam, RAM)
  IN IF n80 THEN UpdateN80G(UpdateN80R(UpdateN80W([c EXCEPT !.e3 = 0, !.p31 = {}, !.p71 = 0..7])))
     ELSE UpdateF0(UpdateC0(Update80(Update60R(Update00W(Update00R(c))))))

\* PC88::Reset goes on by writing the ports itself.
PC88Reset(m, newmode, switches, high) ==
  LET a == Out32(Out31(Reset88(m, newmode, switches, high), {}), {7})
      b == Out35(Out34(Out33(a, IF newmode = {1, 4} THEN {1, 7} ELSE {1}), {}), {})
      c == Out70(Out5x(Out40(b, {}), 3), 0)
      d == Out99(c, IF 6 \in newmode /\ "CDBIOS" \in Has THEN {4} ELSE {})
  IN Outf1(Oute3(Oute2(d, {}), 0), {0})

ApplyConfig88(m, wait, banks) ==
  LET s == [m EXCEPT !.enablewait = wait, !.neweram = banks]
  IN IF wait THEN SetWait(s) ELSE [s EXCEPT !.waits = <<>>]
VRTC(m, low) == SetWait([m EXCEPT !.waittype[1] = low])

-----------------------------------------------------------------------------
(* Graphics memory, as the CPU reads and writes it.                          *)

GraphicsAt(m) == IF m.n80mode THEN "80" ELSE "C0"
WrALUSet(m, bit) ==
  IF bit = 0 THEN m.gvram
  ELSE {p \in Planes : IF p \in m.p34 THEN p + 4 \notin m.p34 \/ p \in m.gvram
                       ELSE p + 4 \in m.p34 /\ p \notin m.gvram}
Copied(m, from, to) == IF from \in m.alureg THEN m.gvram \union {to} ELSE m.gvram \ {to}

WrGraphics(m, bank, bit) ==
  [m EXCEPT !.dirty = TRUE, !.gvram =
     CASE bank[1] = "GVRAM" -> IF bit = 1 THEN @ \union {bank[2]} ELSE @ \ {bank[2]}
       [] bank[1] = "ALU" -> CASE bank[2] = 0 -> WrALUSet(m, bit) [] bank[2] = 1 -> m.alureg
                               [] bank[2] = 2 -> Copied(m, 1, 0) [] bank[2] = 3 -> Copied(m, 0, 1)]
CpuWrites88(m, bit) ==
  LET bank == m.wr[GraphicsAt(m)] IN IF bank[1] \in {"GVRAM", "ALU"} THEN WrGraphics(m, bank, bit) ELSE m
\* Only a read through the ALU has an effect.
CpuReads88(m) == IF m.rd[GraphicsAt(m)][1] = "ALU" THEN [m EXCEPT !.alureg = m.gvram] ELSE m
RdALU(m) == IF \A p \in Planes : (p \in m.gvram) = (p \in m.p35) THEN 1 ELSE 0

-----------------------------------------------------------------------------
(* Snapshots: LoadStatus writes the ports again, as a program would.  The    *)
(* record has a field for alureg, which is neither saved nor loaded; whether *)
(* the dictionary ROM is selected is not in it.                              *)

SavedPorts == {"p31", "p32", "p33", "p34", "p35", "p40", "p5x", "p70", "p71", "p99", "e2", "e3", "f0"}
SaveStatus88(m) == [ports |-> [p \in SavedPorts |-> m[p]], gvram |-> m.gvram]

\* Mutant: the bank of graphics memory is chosen before port 35, which resets it.
BankFirst(m, s) ==
  LET a == Out33(Out32(Out31(Out34(m, s.ports.p34), s.ports.p31), s.ports.p32), s.ports.p33)
      b == Out40(Out35(Out5x(a, s.ports.p5x), s.ports.p35), s.ports.p40)
  IN [Oute3(Oute2(Out99(Out70(b, s.ports.p70), s.ports.p99), s.ports.e2), s.ports.e3) EXCEPT !.gvram = s.gvram]

LoadStatus88(m, s) ==
  LET a == Out33(Out32(Out31(Out34(m, s.ports.p34), s.ports.p31), s.ports.p32), s.ports.p33)
      b == Out40(Out5x(Out35(a, s.ports.p35), s.ports.p5x), s.ports.p40)
      c == Out99(Out70(Out71(b, s.ports.p71), s.ports.p70), s.ports.p99)
  IN [Outf0(Oute3(Oute2(c, s.ports.e2), s.ports.e3), s.ports.f0) EXCEPT !.gvram = s.gvram, !.dirty = TRUE]

Fresh(m) ==
  PC88Reset([PowerOnMemory EXCEPT !.neweram = m.banks, !.enablewait = m.enablewait], m.mode, m.sw31, m.waitmode[2])

-----------------------------------------------------------------------------
(* What the program says it shows: GetRdBank and GetWrBank, which the memory *)
(* monitor labels memory with.  They know nothing of the N80 modes.          *)

GetHiBank(m, region) ==
  IF 6 \in m.p32 /\ 7 \in m.p35 THEN <<"ALU", 0>>
  ELSE IF 6 \notin m.p32 /\ m.p5x < 3 THEN <<"GVRAM", m.p5x>>
  ELSE IF region = "F0" /\ TVRAMShown(m) THEN <<"TVRAM", 0>> ELSE RAM

GetRdBank(m, region) ==
  IF region \in LowRam
  THEN IF EramAt(m, 0) THEN Eram(m)
       ELSE IF 1 \in m.p31 THEN RAM
       ELSE IF 4 \in m.p99 THEN <<"CD", IF 2 \in m.p31 THEN 1 ELSE 0>>
       ELSE IF 2 \in m.p31 THEN <<"N", 0>>
       ELSE IF region = "00" \/ m.p71 = 0..7 THEN <<"N88", 0>>
       ELSE IF 0 \in m.p71 THEN <<"E", Highest(m)>> ELSE <<"N88E", InternalBank(m)>>
  ELSE IF region \in {"80", "84"} THEN RAM
  ELSE IF m.seldic THEN Jisyo(m) ELSE GetHiBank(m, region)
GetWrBank(m, region) ==
  IF region \in LowRam THEN IF EramAt(m, 4) THEN Eram(m) ELSE RAM
  ELSE IF region \in {"80", "84"} THEN RAM ELSE GetHiBank(m, region)

Label(bank) == IF bank[1] = "ALU" THEN <<"ALU", 0>> ELSE IF bank[1] = "Window" THEN RAM ELSE bank

\* The N80 modes have no such operator: all banks worked out anew.
Rebuilt(m) ==
  LET bare == [m EXCEPT !.r00 = Neither, !.r60 = Neither, !.w00 = Neither, !.selgvram = TRUE]
  IN UpdateN80G(UpdateN80R(UpdateN80W(bare)))

-----------------------------------------------------------------------------

MemInit ==
  /\ outs = 0 /\ setup \in SetUps
  /\ \E mode \in Modes88, switches \in Switch31, banks \in EramBanks :
       mem = PC88Reset([PowerOnMemory EXCEPT !.neweram = banks, !.enablewait = TRUE], mode, switches, FALSE)

SetUp88 == setup # <<>> /\ setup' = Tail(setup) /\ mem' = Written(mem, Head(setup)) /\ UNCHANGED outs
Out88 == \E w \in MemWrites : mem' = Written(mem, w)
Write88 == \E bit \in {0, 1} : mem' = CpuWrites88(mem, bit)
Read88 == mem' = CpuReads88(mem)
Retrace == \E low \in SUBSET {"display", "dma"} : mem' = VRTC(mem, low)
Configure88 == \E banks \in EramBanks, wait \in BOOLEAN : mem' = ApplyConfig88(mem, wait, banks)
PushReset ==
  \E mode \in Modes88, switches \in Switch31, high \in BOOLEAN : mem' = PC88Reset(mem, mode, switches, high)
LoadSnapshot88 == mem' = LoadStatus88(Fresh(mem), SaveStatus88(mem))

MemNext ==
  \/ SetUp88
  \/ /\ setup = <<>> /\ UNCHANGED setup
     /\ outs < MaxOuts /\ outs' = outs + 1
     /\ Out88 \/ Write88 \/ Read88 \/ Retrace \/ Configure88 \/ PushReset \/ LoadSnapshot88

MemSpec == MemInit /\ [][MemNext]_memvars

\* However ports are written, the banks the CPU sees are those the program says
\* it shows.  Left out: writes to F000-FFFF while the dictionary ROM is selected,
\* which go where they went before (UpdateF0 does nothing then), and the window
\* of the N80 modes, which port 78 moves though port 70 cannot.
BanksAsShown ==
  \A r \in RegionIds :
    IF mem.n80mode
    THEN r # "80" => mem.rd[r] = Rebuilt(mem).rd[r] /\ mem.wr[r] = Rebuilt(mem).wr[r]
    ELSE /\ Label(mem.rd[r]) = GetRdBank(mem, r)
         /\ (r = "F0" => ~mem.seldic) => Label(mem.wr[r]) = GetWrBank(mem, r)

\* A snapshot loaded into a machine that has just been reset brings the banks
\* back, the graphics, and what the ports read as.  Left out: the dictionary ROM; a machine that has not
\* come up in the N80 mode it was to, for Reset looks at bit 7 of port 33 as the
\* program left it; and an N80 mode that has kept port 35 from the mode before,
\* which neither a program nor a snapshot can write there.
SnapshotKeepsBanks ==
  ~mem.seldic /\ mem.n80mode = (1 \in mem.mode) /\ ~(NoALU(mem) /\ mem.p35 # {}) =>
    LET loaded == LoadStatus88(Fresh(mem), SaveStatus88(mem))
    IN /\ \A r \in RegionIds : (mem.n80mode /\ r = "80") \/
                          (loaded.rd[r] = mem.rd[r] /\ loaded.wr[r] = mem.wr[r])
       /\ loaded.gvram = mem.gvram /\ RdALU(loaded) = RdALU(mem)
       /\ ~mem.n80mode => MemInPorts(loaded) = MemInPorts(mem)
====

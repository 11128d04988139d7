---- MODULE Z80C ----
(***************************************************************************)
(* The Z80 of z80c.cpp: instructions, the flags it puts off computing, and *)
(* the points at which it takes an interrupt.  An instruction is a record; *)
(* what lies at the program counter is chosen when it is fetched, so that  *)
(* every program over Program is run.  Clocks and the unofficial flag bits *)
(* 3 and 5 are left out; words keep the 16 bits every reader masks them to.*)
(* The machine itself runs on Z80X (pc88.h:54, 78): this class is compiled *)
(* with it, and nothing makes an object of it.                             *)
(***************************************************************************)
EXTENDS Integers, Sequences, FiniteSetsExt

CONSTANTS
  Program,     \* the instructions that may be fetched
  Followers,   \* what may follow an EI or OUT, which look at the next one
  Ports,       \* what the ports may answer: [sync, line, byte], and ack, the instruction
               \* that an acknowledged byte is (of 0, 2, .. 14: intc.cpp gives no other)
  StartStates, \* states of the processor after some program
  MemSize,     \* size of the memory, which repeats through the address space
  MaxSteps     \* bound on the instructions of a behaviour

VARIABLES cpu, steps

z80vars == <<cpu, steps>>

Bit(v, k) == (v \div 2^k) % 2 = 1
Ones(v) == {k \in 0..7 : Bit(v, k)}
Number(bits) == MapThenSumSet(LAMBDA k : 2^k, bits)
Signed(v) == IF v > 127 THEN v - 256 ELSE v
If(flag, on) == IF on THEN {flag} ELSE {}
One(on) == IF on THEN 1 ELSE 0

-----------------------------------------------------------------------------
(* Flags: f holds them, uf says which of them are still to be computed from *)
(* the operands of the last addition or subtraction.  ref follows what each *)
(* operation means at once, and which flags ADD16 has dropped.              *)

AllFlags == {"S", "Z", "H", "P", "C"}

Meant(c, clr, set) ==
  [c EXCEPT !.ref = [flags |-> (@.flags \ clr) \union set, lost |-> @.lost \ clr]]

SetFlags(c, clr, set) ==
  [Meant(c, clr, set) EXCEPT !.f = (@ \ clr) \union set, !.uf = @ \ clr]

HalfBit(w) == IF w = 256 THEN 32 ELSE 8192

\* fx and fy hold the operands doubled; w is twice the weight of their sign.
Delayed(sub, x, y, w, flag) ==
  LET v == IF sub THEN x - y ELSE x + y
      sign(n) == (n \div w) % 2
      half == HalfBit(w)
  IN CASE flag = "C" -> IF sub THEN x < y ELSE (v \div (2 * w)) % 2 = 1
       [] flag = "Z" -> (v % (2 * w)) \div 2 = 0
       [] flag = "S" -> sign(v) = 1
       [] flag = "H" -> IF sub THEN x % half < y % half ELSE (x % half) + (y % half) >= half
       [] flag = "P" -> /\ (sign(x) = sign(y)) = ~sub
                        /\ sign(x) # sign(v)

Pending(c, flag) ==
  IF "W" \in c.uf THEN Delayed(c.nfa, c.x16[1], c.x16[2], 65536, flag)
  ELSE Delayed(c.nfa, c.x8[1], c.x8[2], 256, flag)

Flag(c, flag) == IF flag \in c.uf THEN Pending(c, flag) ELSE flag \in c.f

\* GetCF and its sisters store what they compute.
Get(c, flag) ==
  IF flag \in c.uf
  THEN [c EXCEPT !.f = (@ \ {flag}) \union If(flag, Pending(c, flag)), !.uf = @ \ {flag}]
  ELSE c

GetAF(c) ==
  [c EXCEPT !.f = (@ \ c.uf) \union {flag \in c.uf \ {"W"} : Pending(c, flag)},
            !.uf = @ \ AllFlags]

\* The flags of a + b + cy or a - b - cy in a register of w values.
Arithmetic(sub, a, b, cy, w) ==
  LET signed(n) == IF n >= w \div 2 THEN n - w ELSE n
      m == w \div 16
      v == IF sub THEN a - b - cy ELSE a + b + cy
      s == IF sub THEN signed(a) - signed(b) - cy ELSE signed(a) + signed(b) + cy
  IN If("C", v < 0 \/ v >= w) \union If("Z", v % w = 0) \union If("S", v % w >= w \div 2)
     \union If("H", IF sub THEN a % m < (b % m) + cy ELSE (a % m) + (b % m) + cy >= m)
     \union If("P", s < -(w \div 2) \/ s >= w \div 2)

Negative(sub) == If("N", sub)

\* ADDA, SUBA, CPA and, with adc, ADCA: the carry of an addition needs a bit in both.
Arith8(c, sub, a, b, cy, adc) ==
  [Meant(c, AllFlags \union {"N"}, Arithmetic(sub, a, b, cy, 256) \union Negative(sub))
     EXCEPT !.x8 = <<2 * a + One(adc), 2 * b + cy>>, !.uf = AllFlags, !.nfa = sub,
            !.f = (@ \ {"N"}) \union Negative(sub)]

ADCHL(c, sub, a, b, cy) ==
  [Meant(c, AllFlags \union {"N"}, Arithmetic(sub, a, b, cy, 65536) \union Negative(sub))
     EXCEPT !.x16 = <<2 * a + One(~sub), 2 * b + cy>>, !.uf = AllFlags \union {"W"}, !.nfa = sub,
            !.f = (@ \ {"N"}) \union Negative(sub)]

\* Whatever of S, Z and P was still to be computed is forgotten.
ADD16(c, a, b) ==
  LET kept == [c.ref EXCEPT !.lost = @ \union (c.uf \intersect {"S", "Z", "P"})]
      seen == Meant([c EXCEPT !.ref = kept], {"C", "H", "N"},
                    Arithmetic(FALSE, a, b, 0, 65536) \intersect {"C", "H"})
  IN [seen EXCEPT !.x16 = <<2 * a, 2 * b>>, !.uf = {"C", "H", "W"}, !.f = @ \ {"N"}, !.nfa = FALSE]

ZS(v) == If("Z", v = 0) \union If("S", v > 127)
ZSP(v) == ZS(v) \union If("P", Cardinality(Ones(v)) % 2 = 0)
SetZSP(c, v) == SetFlags(c, {"Z", "S", "P"}, ZSP(v))

-----------------------------------------------------------------------------
(* Registers and memory.  x names the register pair that stands for HL.      *)

High(pair) == CASE pair = "BC" -> "B" [] pair = "DE" -> "D" [] pair = "HL" -> "H"
                [] pair = "IX" -> "IXH" [] pair = "IY" -> "IYH"
Low(pair) == CASE pair = "BC" -> "C" [] pair = "DE" -> "E" [] pair = "HL" -> "L"
               [] pair = "IX" -> "IXL" [] pair = "IY" -> "IYL"

Word(c, pair) == IF pair = "SP" THEN c.sp ELSE 256 * c.r[High(pair)] + c.r[Low(pair)]

SetWord(c, pair, v) ==
  IF pair = "SP" THEN [c EXCEPT !.sp = v % 65536]
  ELSE [c EXCEPT !.r[High(pair)] = (v \div 256) % 256, !.r[Low(pair)] = v % 256]

Set(c, reg, v) == [c EXCEPT !.r[reg] = v % 256]
A(c) == c.r["A"]
SetA(c, v) == Set(c, "A", v)

Read8(c, addr) == c.mem[addr % MemSize]
Write8(c, addr, v) == [c EXCEPT !.mem[addr % MemSize] = v % 256]
Read16(c, addr) == Read8(c, addr) + 256 * Read8(c, addr + 1)
Write16(c, addr, v) == Write8(Write8(c, addr, v % 256), addr + 1, v \div 256)

Jump(c, to) == [c EXCEPT !.pc = to % 65536]
Push(c, v) == Write16(SetWord(c, "SP", c.sp - 2), (c.sp - 2) % 65536, v)
Pop(c) == SetWord(c, "SP", c.sp + 2)
Ret(c) == Jump(Pop(c), Read16(c, c.sp))
Call(c, to) == Jump(Push(c, c.pc), to)

\* (HL), or (IX+d): the operand "M".
M(c, i) == (Word(c, i.x) + (IF i.x = "HL" THEN 0 ELSE Signed(i.d))) % 65536

\* "XH" and "XL" are the halves of the pair x.
Reg(i, reg) == CASE reg = "XH" -> High(i.x) [] reg = "XL" -> Low(i.x) [] OTHER -> reg

Operand(c, i) ==
  CASE i.src = "M" -> Read8(c, M(c, i)) [] i.src = "n" -> i.n [] OTHER -> c.r[Reg(i, i.src)]

-----------------------------------------------------------------------------
(* Instructions, by the groups of SingleStep.                                *)

RotateA(c, i) ==
  LET a == A(c)
      cy == One(Flag(c, "C"))
      v == CASE i.fn = "RLC" -> 2 * a + (a \div 128) [] i.fn = "RRC" -> (a \div 2) + 128 * (a % 2)
             [] i.fn = "RL" -> 2 * a + cy [] i.fn = "RR" -> (a \div 2) + 128 * cy
      out == IF i.fn \in {"RLC", "RL"} THEN Bit(a, 7) ELSE Bit(a, 0)
  IN SetA(SetFlags(c, {"N", "H", "C"}, If("C", out)), v)

DAA(c) ==
  LET sub == "N" \in c.f
      low == A(c) % 16
      half == low > 9 \/ Flag(c, "H")
      a == (IF ~half THEN A(c) ELSE IF sub THEN A(c) - 6 ELSE A(c) + 6) % 256
      full == a > 159 \/ Flag(c, "C")
      v == (IF ~full THEN a ELSE IF sub THEN a - 96 ELSE a + 96) % 256
      h == half /\ (IF sub THEN low < 6 ELSE low > 9)
  IN SetFlags(SetZSP(SetA(c, v), v), {"H", "C"}, If("H", h) \union If("C", full))

CPL(c) == SetFlags(SetA(c, 255 - A(c)), {"N", "H"}, {"N", "H"})
SCF(c) == SetFlags(c, {"C", "N", "H"}, {"C"})
CCF(c) == SetFlags(c, {"C", "N"}, If("C", ~Flag(c, "C")))

Conditions == [NZ |-> <<"Z", FALSE>>, Z |-> <<"Z", TRUE>>, NC |-> <<"C", FALSE>>, C |-> <<"C", TRUE>>,
               PO |-> <<"P", FALSE>>, PE |-> <<"P", TRUE>>, P |-> <<"S", FALSE>>, M |-> <<"S", TRUE>>]
Asks(c, i) == IF i.cond = "" THEN c ELSE Get(c, Conditions[i.cond][1])
Holds(c, i) == i.cond = "" \/ Flag(c, Conditions[i.cond][1]) = Conditions[i.cond][2]

Branch(c, i) ==
  LET d == Asks(c, i)
  IN IF ~Holds(c, i) THEN d
     ELSE CASE i.op = "JP" -> Jump(d, i.to) [] i.op = "JR" -> Jump(d, d.pc + Signed(i.n))
            [] i.op = "CALL" -> Call(d, i.to) [] i.op = "RET" -> Ret(d)

DJNZ(c, i) ==
  LET d == Set(c, "B", c.r["B"] - 1)
  IN IF d.r["B"] = 0 THEN d ELSE Jump(d, d.pc + Signed(i.n))

RST(c, i) == Call(c, i.to)
JPHL(c, i) == Jump(c, Word(c, i.x))

AddXHL(c, i) ==
  SetWord(ADD16(c, Word(c, i.x), Word(c, i.src)), i.x, Word(c, i.x) + Word(c, i.src))
Inc16(c, i) == SetWord(c, i.src, Word(c, i.src) + i.by)

ExAF(c) ==
  LET d == GetAF(c)
  IN [d EXCEPT !.r["A"] = d.alt.a, !.f = d.alt.f, !.uf = {}, !.ref = d.alt.ref,
               !.alt = [@ EXCEPT !.a = d.r["A"], !.f = d.f, !.ref = d.ref]]
ExSP(c, i) == SetWord(Write16(c, c.sp, Word(c, i.x)), i.x, Read16(c, c.sp))
ExDE(c) == SetWord(SetWord(c, "DE", Word(c, "HL")), "HL", Word(c, "DE"))
EXX(c) ==
  LET own == {"B", "C", "D", "E", "H", "L"}
  IN [c EXCEPT !.r = [n \in DOMAIN @ |-> IF n \in own THEN c.alt.r[n] ELSE @[n]],
               !.alt.r = [n \in own |-> c.r[n]]]

Logic(fn, a, b) ==
  Number(CASE fn = "AND" -> Ones(a) \intersect Ones(b) [] fn = "OR" -> Ones(a) \union Ones(b)
           [] fn = "XOR" -> (Ones(a) \ Ones(b)) \union (Ones(b) \ Ones(a)))

ALUSum(c, i) ==
  LET a == A(c)
      b == Operand(c, i)
      cy == One(Flag(c, "C"))
  IN CASE i.fn = "ADD" -> SetA(Arith8(c, FALSE, a, b, 0, FALSE), a + b)
       [] i.fn = "ADC" -> SetA(Arith8(c, FALSE, a, b, cy, TRUE), a + b + cy)
       [] i.fn = "SUB" -> SetA(Arith8(c, TRUE, a, b, 0, FALSE), a - b)
       [] i.fn = "SBC" -> SetA(Arith8(c, TRUE, a, b, cy, FALSE), a - b - cy)

ALU(c, i) ==
  LET v == Logic(i.fn, A(c), Operand(c, i))
  IN CASE i.fn \in {"ADD", "ADC", "SUB", "SBC"} -> ALUSum(c, i)
       [] i.fn = "CP" -> Arith8(c, TRUE, A(c), Operand(c, i), 0, FALSE)
       [] OTHER -> SetA(SetFlags(SetZSP(c, v), {"H", "N", "C"}, If("H", i.fn = "AND")), v)

IncFlags(v, dec) ==
  ZS(v) \union If("P", v = (IF dec THEN 127 ELSE 128))
        \union If("H", v % 16 = (IF dec THEN 15 ELSE 0)) \union Negative(dec)
Inc8(c, i) ==
  LET v == (Operand(c, i) + i.by) % 256
      d == SetFlags(c, {"S", "Z", "H", "P", "N"}, IncFlags(v, i.by < 0))
  IN IF i.src = "M" THEN Write8(d, M(c, i), v) ELSE Set(d, Reg(i, i.src), v)

PushPair(c, i) == Push(c, Word(c, i.src))
PopPair(c, i) == SetWord(Pop(c), i.src, Read16(c, c.sp))

\* A word of F is kept as the set of its flags, one to each of its bits.
FlagBit == [C |-> 0, N |-> 1, P |-> 2, H |-> 4, Z |-> 6, S |-> 7]
PushAF(c) ==
  LET d == GetAF(c)
  IN Push(d, 256 * A(d) + Number({FlagBit[flag] : flag \in d.f}))
PopAF(c) ==
  LET af == Read16(c, c.sp)
      f == {flag \in AllFlags \union {"N"} : Bit(af % 256, FlagBit[flag])}
  IN [SetA(Pop(c), af \div 256) EXCEPT !.f = f, !.uf = {}, !.ref = [flags |-> f, lost |-> {}]]

LoadWord(c, i) ==
  CASE i.src = "nn" -> SetWord(c, i.dst, i.nn) [] i.src = "(nn)" -> SetWord(c, i.dst, Read16(c, i.nn))
    [] i.dst = "(nn)" -> Write16(c, i.nn, Word(c, i.src)) [] i.dst = "SP" -> SetWord(c, "SP", Word(c, i.x))

LoadRegister(c, i) == Set(c, Reg(i, i.dst), Operand(c, i))

\* With an index, M is at IX+d and then H and L are those of HL.
Own(reg) == CASE reg = "XH" -> "H" [] reg = "XL" -> "L" [] OTHER -> reg
LoadByte(c, i) ==
  CASE i.dst = "M" -> Write8(c, M(c, i), IF i.src = "n" THEN i.n ELSE c.r[Own(i.src)])
    [] i.src = "M" -> Set(c, Own(i.dst), Read8(c, M(c, i)))
    [] OTHER -> LoadRegister(c, i)

LoadA(c, i) ==
  LET addr == IF i.at = "nn" THEN i.nn ELSE Word(c, i.at)
  IN IF i.store THEN Write8(c, addr, A(c)) ELSE SetA(c, Read8(c, addr))

Rotated(c, fn, v) ==
  LET cy == One(Flag(c, "C"))
  IN CASE fn = "RLC" -> 2 * v + (v \div 128) [] fn = "RRC" -> (v \div 2) + 128 * (v % 2)
       [] fn = "RL" -> 2 * v + cy [] fn = "RR" -> (v \div 2) + 128 * cy
       [] fn = "SLA" -> 2 * v [] fn = "SRA" -> (v \div 2) + 128 * (v \div 128)
       [] fn = "SLL" -> 2 * v + 1 [] fn = "SRL" -> v \div 2
LeftOnes == {"RLC", "RL", "SLA", "SLL"}

\* The new byte and the processor with its flags.
Rotate(c, fn, v) ==
  LET new == Rotated(c, fn, v) % 256
      out == Bit(v, IF fn \in LeftOnes THEN 7 ELSE 0)
  IN <<new, SetFlags(SetZSP(c, new), {"C", "N", "H"}, If("C", out))>>

BIT(c, v, bit) ==
  SetFlags(c, {"Z", "H", "N", "S"},
           {"H"} \union (IF Bit(v, bit) THEN If("S", bit = 7) ELSE {"Z"}))

CodeCB(c, i) ==
  LET v == IF i.src = "M" THEN Read8(c, M(c, i)) ELSE c.r[i.src]
      put(pair) == IF i.src = "M" THEN Write8(pair[2], M(c, i), pair[1]) ELSE Set(pair[2], i.src, pair[1])
  IN CASE i.fn = "BIT" -> BIT(c, v, i.bit)
       [] i.fn = "RES" -> put(<<Number(Ones(v) \ {i.bit}), c>>)
       [] i.fn = "SET" -> put(<<Number(Ones(v) \union {i.bit}), c>>)
       [] OTHER -> put(Rotate(c, i.fn, v))

InR(c, i, e) == SetFlags(SetZSP(IF i.dst = "" THEN c ELSE Set(c, i.dst, e.byte), e.byte), {"N", "H"}, {})

BlockFlags(c) == SetFlags(c, {"Z", "N"}, {"N"} \union If("Z", c.r["B"] = 0))

\* INI, IND, OUTI, OUTD and those that go back to themselves until B is zero.
BlockIO(c, i, e) ==
  LET moved == IF i.out THEN c ELSE Write8(c, Word(c, "HL"), e.byte)
      d == BlockFlags(Set(SetWord(moved, "HL", Word(c, "HL") + i.by), "B", c.r["B"] - 1))
  IN IF i.again /\ d.r["B"] # 0 THEN Jump(d, d.pc - 2) ELSE d

BlockMove(c, i) ==
  LET copied == Write8(c, Word(c, "DE"), Read8(c, Word(c, "HL")))
      d == SetWord(SetWord(SetWord(copied, "DE", Word(c, "DE") + i.by),
                           "HL", Word(c, "HL") + i.by), "BC", Word(c, "BC") - 1)
      more == Word(d, "BC") # 0
      s == SetFlags(d, {"P", "N", "H"}, If("P", more))
  IN IF i.again /\ more THEN Jump(s, s.pc - 2) ELSE s

BlockSearch(c, i) ==
  LET n == Read8(c, Word(c, "HL"))
      d == SetWord(SetWord(c, "HL", Word(c, "HL") + i.by), "BC", Word(c, "BC") - 1)
      more == Word(d, "BC") # 0
      s == SetFlags(SetFlags(d, {"H", "P", "N"}, If("H", A(c) % 16 < n % 16) \union If("P", more) \union {"N"}),
                    {"Z", "S"}, ZS((A(c) - n) % 256))
  IN IF i.again /\ more /\ "Z" \notin s.f THEN Jump(s, s.pc - 2) ELSE s

NEG(c) == SetA(Arith8(c, TRUE, 0, A(c), 0, FALSE), 0 - A(c))

\* LD A,I tells by P whether interrupts are enabled; R counts instructions.
LoadAI(c, i, e) ==
  LET v == IF i.src = "I" THEN c.ireg ELSE e.byte
  IN SetFlags(SetFlags(SetA(c, v), {"Z", "S"}, ZS(v)), {"N", "H", "P"}, If("P", c.iff1))
LoadIA(c) == [c EXCEPT !.ireg = A(c)]
IM(c, i) == [c EXCEPT !.intmode = i.n]
RETN(c) == Ret([c EXCEPT !.iff1 = c.iff2])

NibbleRotate(c, i) ==
  LET d == Read8(c, Word(c, "HL"))
      low == A(c) % 16
      a == 16 * (A(c) \div 16) + (IF i.fn = "RLD" THEN d \div 16 ELSE d % 16)
      m == IF i.fn = "RLD" THEN 16 * (d % 16) + low ELSE (d \div 16) + 16 * low
  IN SetFlags(SetZSP(Write8(SetA(c, a), Word(c, "HL"), m), a), {"N", "H"}, {})

WordHL(c, i) ==
  LET sub == i.fn = "SBC"
      cy == One(Flag(c, "C"))
      v == IF sub THEN Word(c, "HL") - Word(c, i.src) - cy ELSE Word(c, "HL") + Word(c, i.src) + cy
  IN SetWord(ADCHL(c, sub, Word(c, "HL"), Word(c, i.src), cy), "HL", v)

Plain(c, i, e) ==
  CASE i.op = "RotateA" -> RotateA(c, i) [] i.op = "DAA" -> DAA(c) [] i.op = "CPL" -> CPL(c)
    [] i.op = "SCF" -> SCF(c) [] i.op = "CCF" -> CCF(c)
    [] i.op \in {"JP", "JR", "CALL", "RET"} -> Branch(c, i) [] i.op = "DJNZ" -> DJNZ(c, i)
    [] i.op = "RST" -> RST(c, i) [] i.op = "JPHL" -> JPHL(c, i)
    [] i.op = "AddXHL" -> AddXHL(c, i) [] i.op = "Inc16" -> Inc16(c, i)
    [] i.op = "ExAF" -> ExAF(c) [] i.op = "ExSP" -> ExSP(c, i) [] i.op = "ExDE" -> ExDE(c)
    [] i.op = "EXX" -> EXX(c) [] i.op = "ALU" -> ALU(c, i) [] i.op = "Inc8" -> Inc8(c, i)
    [] i.op = "PUSH" -> PushPair(c, i) [] i.op = "POP" -> PopPair(c, i)
    [] i.op = "PushAF" -> PushAF(c) [] i.op = "PopAF" -> PopAF(c)
    [] i.op = "LoadWord" -> LoadWord(c, i) [] i.op = "LoadByte" -> LoadByte(c, i)
    [] i.op = "LoadA" -> LoadA(c, i) [] i.op = "CB" -> CodeCB(c, i)
    [] i.op = "BlockMove" -> BlockMove(c, i) [] i.op = "BlockSearch" -> BlockSearch(c, i)
    [] i.op = "NEG" -> NEG(c) [] i.op = "LoadAI" -> LoadAI(c, i, e) [] i.op = "LoadIA" -> LoadIA(c)
    [] i.op = "IM" -> IM(c, i) [] i.op = "RETN" -> RETN(c)
    [] i.op = "Nibble" -> NibbleRotate(c, i) [] i.op = "WordHL" -> WordHL(c, i)
    [] i.op = "DI" -> [c EXCEPT !.iff1 = FALSE, !.iff2 = FALSE] [] i.op = "NOP" -> c

-----------------------------------------------------------------------------
(* The program counter.  next is the address of the first instruction that  *)
(* has not been carried out; kept tells whether every instruction so far    *)
(* was fetched from there and every interrupt returns there.                *)

PCInc(c, n) == Jump(c, c.pc + n)
PCDec(c, n) == Jump(c, c.pc - n)
Done(c) == [c EXCEPT !.next = c.pc]

RECURSIVE Run(_, _, _, _)

\* In mode 0 the byte acknowledged is carried out as if it had been fetched, and what
\* more the instruction needs is taken from the program.
TestIntr(c, e) ==
  IF ~(c.iff1 /\ c.intr) THEN c
  ELSE LET awake == IF c.wait THEN PCInc(c, 1) ELSE c
           d == [awake EXCEPT !.iff1 = FALSE, !.iff2 = FALSE, !.wait = FALSE, !.kept = @ /\ awake.pc = c.next]
       IN CASE d.intmode = 0 -> Run([d EXCEPT !.next = (d.pc - 1) % 65536], e.ack, <<>>, e)
            [] d.intmode = 1 -> Done(Call(d, 56))
            [] d.intmode = 2 -> Done(Call(d, Read16(d, 256 * d.ireg + e.byte)))

OutOps == {"OutN", "OutC"}
Outputs(i) == i.op \in OutOps \/ (i.op = "BlockIO" /\ i.out)
Inputs(i) == i.op \in {"InN", "InC"} \/ (i.op = "BlockIO" /\ ~i.out)

Nop == [op |-> "NOP", len |-> 1, ed |-> FALSE]
First(code) == IF code = <<>> THEN Nop ELSE Head(code)
Rest(code) == IF code = <<>> THEN <<>> ELSE Tail(code)

\* Mutant: after the prefix ED both bytes are taken for done.
PrefixTwice(c, code, e) ==
  LET w == First(code)
  IN IF ~(c.iff1 /\ c.intr) THEN c
     ELSE IF w.ed /\ Outputs(w) THEN PCDec(PCInc(c, 2), 2)
     ELSE IF w.op = "OutN" THEN PCDec(PCInc(c, 1), 1)
     ELSE TestIntr(Run(PCInc(c, IF w.ed THEN 2 ELSE 1), w, Rest(code), e), e)

\* The instruction that follows an OUT is carried out before the interrupt the
\* OUT has brought about; another OUT looks for it itself.
OutTestIntr(c, code, e) ==
  LET w == First(code)
  IN IF ~(c.iff1 /\ c.intr) THEN c
     ELSE IF w.ed /\ Outputs(w) THEN PCDec(PCInc(c, 2), 2)
     ELSE IF w.op = "OutN" THEN PCDec(PCInc(c, 1), 1)
     ELSE LET at == IF w.ed THEN PCDec(PCInc(c, 2), 1) ELSE PCInc(c, 1)
          IN TestIntr(Run(at, w, Rest(code), e), e)

\* EI lets the next instruction pass first, unless that is EI or DI.
EI(c, code, e) ==
  LET w == First(code)
      on(d) == [d EXCEPT !.iff1 = TRUE, !.iff2 = TRUE]
  IN IF w.op \in {"EI", "DI"} THEN PCDec(PCInc(c, 1), 1)
     ELSE TestIntr(on(Run(PCInc(c, 1), w, Rest(code), e)), e)

HALT(c, e) ==
  LET d == [PCDec(c, 1) EXCEPT !.wait = TRUE, !.next = c.pc]
  IN IF c.intr THEN TestIntr(d, e) ELSE d

In(c, i, e) ==
  CASE i.op = "InN" -> SetA(c, e.byte) [] i.op = "InC" -> InR(c, i, e) [] OTHER -> BlockIO(c, i, e)

\* What follows the first byte of an instruction.  A port that both processors
\* use is reached only when this one is not ahead; else it is tried again.
Run(c, i, code, e) ==
  LET here == c.pc = (IF c.wait THEN c.next ELSE c.next + 1) % 65536
      d == [PCInc(c, i.len - 1) EXCEPT !.kept = @ /\ here]
  IN CASE (Inputs(i) \/ Outputs(i)) /\ ~e.sync -> PCDec(d, 2)
       [] Inputs(i) /\ e.sync -> Done(In([d EXCEPT !.intr = e.line], i, e))
       [] Outputs(i) /\ e.sync ->
            LET sent == [IF i.op = "BlockIO" THEN BlockIO(d, i, e) ELSE d EXCEPT !.intr = e.line]
            IN OutTestIntr(Done(sent), code, e)
       [] i.op = "EI" -> EI(Done(d), code, e)
       [] i.op = "HALT" -> HALT(d, e)
       [] OTHER -> Done(Plain(d, i, e))

SingleStep(c, code, e) == Run(PCInc(c, 1), First(code), Rest(code), e)

-----------------------------------------------------------------------------

PowerOn80 == [r |-> [n \in {"A", "B", "C", "D", "E", "H", "L", "IXH", "IXL", "IYH", "IYL"} |-> 0],
  sp |-> 0, pc |-> 0, f |-> {}, uf |-> {}, nfa |-> FALSE, x8 |-> <<0, 0>>, x16 |-> <<0, 0>>,
  alt |-> [a |-> 0, f |-> {}, r |-> [n \in {"B", "C", "D", "E", "H", "L"} |-> 0],
           ref |-> [flags |-> {}, lost |-> {}]],
  iff1 |-> FALSE, iff2 |-> FALSE, intmode |-> 0, ireg |-> 0, wait |-> FALSE, intr |-> FALSE,
  mem |-> [n \in 0..MemSize - 1 |-> 0], ref |-> [flags |-> {}, lost |-> {}], next |-> 0, kept |-> TRUE]

\* The registers are cleared, not the operands of the flags, nor the memory.
Reset80(c) ==
  [PowerOn80 EXCEPT !.nfa = c.nfa, !.x8 = c.x8, !.x16 = c.x16, !.mem = c.mem, !.kept = c.kept]

\* SaveStatus computes the flags first; LoadStatus leaves uf, which a Reset has cleared.
Saved(c) == GetAF(c)
Load(c, s) ==
  [s EXCEPT !.uf = c.uf, !.nfa = c.nfa, !.x8 = c.x8, !.x16 = c.x16, !.mem = c.mem, !.kept = c.kept]

ZInit == cpu \in StartStates /\ steps = 0

Codes == {<<i>> \o w : i \in {j \in Program : Outputs(j) \/ j.op = "EI"}, w \in Followers}
         \union {<<i>> : i \in {j \in Program : ~Outputs(j) /\ j.op # "EI"}}

\* A processor that waits lies at its HALT.
Fetched == {code \in Codes : cpu.wait => code[1].op = "HALT"}

Counted == steps < MaxSteps /\ steps' = steps + 1

\* One instruction in the middle of Exec0.
Exec == \E code \in Fetched, e \in Ports :
  Counted /\ cpu' = SingleStep(cpu, code, e)

\* Exec begins with an instruction after which the interrupt line is looked at.
StartExec == \E code \in Fetched, e \in Ports :
  Counted /\ cpu' = TestIntr(SingleStep(cpu, code, e), e)

\* A device raises or drops the line between two spans of execution.
IRQ == \E line \in BOOLEAN :
  Counted /\ cpu.intr # line /\ cpu' = [cpu EXCEPT !.intr = line]

ResetCpu == Counted /\ cpu' = Reset80(cpu)

\* The snapshot is of a state the user has been in; the machine is reset first.
LoadCpu == \E s \in StartStates :
  Counted /\ cpu' = Load(Reset80(cpu), Saved(s))

ZNext == Exec \/ StartExec \/ IRQ \/ ResetCpu \/ LoadCpu

\* The flags a program would see are those its instructions mean, however many
\* instructions their computation has been put off, except the S, Z and P that
\* an ADD of words drops while they are still to be computed.
FlagsAsMeant ==
  LET known == (AllFlags \union {"N"}) \ cpu.ref.lost
  IN GetAF(cpu).f \intersect known = cpu.ref.flags \intersect known

\* Looking ahead, stepping back and halting leave the program counter at the first
\* instruction not yet carried out, or at the HALT before it, and every interrupt
\* returns to that instruction: none is skipped and none is carried out twice.  What an
\* interrupt of mode 0 carries out (LD B,n for the line 3) stands before that instruction,
\* and eats of it the operand it needs.
NothingSkipped ==
  cpu.kept /\ cpu.pc = (IF cpu.wait THEN (cpu.next - 1) % 65536 ELSE cpu.next)
====

-------------------------------- MODULE Crtc --------------------------------
(***************************************************************************)
(* The text screen: CRTC of src/src/pc88/crtc.cpp with the DMA controller  *)
(* that fetches its lines.  A line is fetched per event, characters and    *)
(* then pairs of column and attribute; the frame ends in the vertical      *)
(* retrace.  The emulation loop draws at any moment: UpdateScreen compares *)
(* the bank of lines being fetched with the one drawn last, draws the      *)
(* cells that differ, and swaps the banks.  The picture is kept by line    *)
(* and column; what a cell shows in one of its lines is a record (Dots).   *)
(* Attributes and codes are sets of bit numbers.  Time is left out: a      *)
(* pending event may come at any moment.  The program sets the screen up   *)
(* by sequences of port writes, which events and drawing interrupt.        *)
(***************************************************************************)
EXTENDS PD8257

CONSTANTS CrtcSetUps,        \* sequences of bursts of port accesses, see Access, which show a text
          Programs,      \* and such sequences that follow
          Screens,       \* what the text memory may hold: functions on 0 .. Space - 1
          ScreenLines,   \* lines of the picture: 400
          Columns,       \* columns of the picture: 80
          ResetHeight,   \* text lines after a reset: 25
          CharLines,     \* lines of a glyph: 16
          UnderlineFrom, \* an underline needs more lines than this: 14
          BlinkUnit,     \* frames of the fastest blinking: 32
          VramSize,      \* bytes of one bank of lines: 0x1e00
          Transfers,     \* what the CD-ROM interface and modules transfer: sequences of bytes
          MaxInputs      \* bound on the inputs of a run

VARIABLES crtc, dma, text, image, todo, inStep, inputs
crtcvars == <<crtc, dma, text, image, todo, inStep, inputs>>

Least2(a, b) == IF a < b THEN a ELSE b
Bits(byte) == {i \in 0 .. 7 : (byte \div 2^i) % 2 = 1}
Toggle(s, t) == (s \ t) \union (t \ s)

\* Bits of an attribute and the value every cell has after a clearing.
kReverse == 0  kSecret == 1  kOverline == 2  kUnderline == 3  kGraphics == 4
Cleared == {kSecret}
Cells == 0 .. VramSize - 1
Blank == [mask |-> FALSE]   \* TEXT_RES over the whole line of a cell
Mask == [mask |-> TRUE]     \* TEXT_SET in black, below the text screen

SetFlag(c, f) == [c EXCEPT !.flags = @ \union f]
IsSet(c, f) == f \in c.flags
Enabled(c) == 4 \in c.status

PowerOnCrtc ==
  [cmdm |-> 0, cmdc |-> 0, pcount |-> <<0, 0>>, param0 |-> [i \in 0 .. 5 |-> 0], param1 |-> 0, cx |-> 0, cy |-> 0,
   ctype |-> -1, cmode |-> -1, attr |-> {}, row |-> 0, flags |-> {"kRefresh"}, status |-> {}, event |-> 0, sev |-> "none",
   lineSize |-> 0, line200 |-> FALSE, frame |-> 0, rate |-> 1, height |-> ResetHeight, width |-> Columns, lpc |-> 1, limit |-> 1,
   nattr |-> 1, screen |-> ScreenLines, vrtc |-> 1, color |-> TRUE, wide |-> FALSE, bank |-> 0, cursorAttr |-> {},
   blinkAttr |-> {}, vram |-> [b \in 0 .. 1 |-> [i \in Cells |-> 0]], cache |-> [i \in Cells |-> {}], pcg |-> "rom",
   pcgOn |-> TRUE, kanaOn |-> FALSE, kana |-> 0, font |-> [ank |-> "rom", kana |-> "rom"]]

(***************************************************************************)
(* Fonts.  Two glyphs stand for all: one of the characters 00-7F, and one  *)
(* of the kana, which the PCG may define anew.                             *)
(***************************************************************************)
KanaFont(c) == IF c.kanaOn THEN [ank |-> c.kana, kana |-> c.kana] ELSE [c.font EXCEPT !.kana = "rom"]
CreateTFont(c) == [c EXCEPT !.font = KanaFont([c EXCEPT !.font.ank = "rom"])]
ModifyFont(c, glyph) == SetFlag([c EXCEPT !.font.kana = glyph], {"kRefresh"})

PCGOut(c, glyph) == LET d == [c EXCEPT !.pcg = glyph] IN IF c.pcgOn THEN ModifyFont(d, glyph) ELSE d
EnablePCG(c, on) ==
  IF on THEN ModifyFont([c EXCEPT !.pcgOn = TRUE], c.pcg)
  ELSE SetFlag(CreateTFont([c EXCEPT !.pcgOn = FALSE]), {"kRefresh"})
SetKanaMode(c, data) ==
  LET k == IF c.kanaOn THEN data ELSE 0
      d == [c EXCEPT !.kana = k]
  IN IF k = c.kana THEN c ELSE SetFlag([d EXCEPT !.font = KanaFont(d)], {"kRefresh"})
CrtcConfig(c, n80v2, pcg) == EnablePCG([c EXCEPT !.kanaOn = n80v2], pcg)
SetTextMode(c, color) == SetFlag([c EXCEPT !.color = color], {"kRefresh"})
SetTextSize(c, wide) == [c EXCEPT !.wide = wide, !.cache = [i \in Cells |-> Cleared]]

(***************************************************************************)
(* Commands.                                                               *)
(***************************************************************************)
Modes == <<{"kEnable", "kControl", "kAttribute"}, {"kEnable"}, {"kEnable", "kColor", "kControl", "kAttribute"}, {},
           {"kEnable", "kControl", "kNonTransparent"}, {"kEnable", "kNonTransparent"}, {}, {}>>

Param(c, n, data) ==
  CASE n = 0 -> SetFlag([c EXCEPT !.status = {}, !.attr = {5, 6, 7}, !.pcount[2] = 0], {"kClear"})
    [] n = 1 -> [c EXCEPT !.width = (data % 128) + 2]
    [] n = 2 -> [c EXCEPT !.rate = BlinkUnit * (1 + (data \div 64)), !.height = (data % 64) + 1]
    [] n = 3 -> LET lines == ((data % 32) + 1) * (IF c.line200 THEN 2 ELSE 1)
                IN SetFlag([c EXCEPT !.cmode = (data \div 32) % 4, !.lpc = lines, !.limit = Least2(lines, CharLines)],
                           IF data >= 128 THEN {"kSkipline"} ELSE {})
    [] n = 4 -> c   \* the retraces, lengths of time
    [] n = 5 -> LET mode == Modes[(data \div 32) + 1]
                    pairs == IF "kAttribute" \in mode THEN (data % 32) + 1 ELSE 0
                IN [c EXCEPT !.flags = ((@ \ {"kEnable", "kColor", "kControl", "kAttribute", "kNonTransparent"})
                                        \union (mode \ (IF pairs + c.width > 120 THEN {"kEnable"} ELSE {}))) \union {"kResize"},
                             !.nattr = pairs, !.screen = Least2(ScreenLines, c.lpc * c.height)]
    [] OTHER -> c

ResetScreen(c, data) ==
  Param(IF c.cmdc < 6 THEN [c EXCEPT !.pcount[1] = c.cmdc + 1, !.param0[c.cmdc] = data] ELSE c, c.cmdc, data)

\* START DISPLAY: the pending event gives way to one after the retrace.
StartCommand(c, data) ==
  LET d == [c EXCEPT !.pcount[2] = 1, !.param1 = data, !.lineSize = c.width + c.nattr * 2,
                     !.flags = IF data % 2 = 1 THEN @ \union {"kInverse"} ELSE @ \ {"kInverse"}]
  IN IF ~IsSet(c, "kEnable") THEN [d EXCEPT !.status = @ \ {4}]
     ELSE IF Enabled(c) THEN d
     ELSE [d EXCEPT !.status = @ \union {4}, !.event = 255, !.sev = "StartDisplay"]

LoadCursor(c, data) ==
  CASE c.cmdc = 0 -> [c EXCEPT !.ctype = IF data % 2 = 1 THEN c.cmode ELSE -1]
    [] c.cmdc = 1 -> [c EXCEPT !.cx = data]
    [] c.cmdc = 2 -> [c EXCEPT !.cy = data]
    [] OTHER -> c

StopScreen(c) == SetFlag([c EXCEPT !.status = {}], {"kClear"})

Command(c0, a0, data) ==
  LET c == IF a0 THEN [c0 EXCEPT !.cmdc = 0, !.cmdm = data \div 32] ELSE c0
      d == CASE c.cmdm = 0 -> ResetScreen(c, data)
             [] c.cmdm = 1 /\ c.cmdc = 0 -> StartCommand(c, data)
             [] c.cmdm = 2 /\ data % 2 = 0 -> StopScreen(c)
             [] c.cmdm = 3 -> [c EXCEPT !.status = @ \ {0}]
             [] c.cmdm = 4 -> LoadCursor(c, data)
             [] c.cmdm = 6 -> StopScreen(c)
             [] OTHER -> c
  IN [d EXCEPT !.cmdc = @ + 1]

(***************************************************************************)
(* Fetching the lines.  A fetch gives the CRTC, the controller and the     *)
(* number of lines skipped by the special control character.               *)
(***************************************************************************)
Fill(c, from, n, bytes) ==
  [c EXCEPT !.vram[c.bank] = [i \in Cells |-> IF i \in from .. from + n - 1 THEN bytes[i - from + 1] ELSE @[i]]]
Zeros(c, from, n) == Fill(c, from, n, [i \in 1 .. n |-> 0])
CrtcFetched(crt, ctrl, skip) == [c |-> crt, d |-> ctrl, skip |-> skip]

\* sc is the attribute of the last pair: bit 0 (D) ends the frame here and has
\* the controller begin again, bit 1 (V) blanks the lines that follow.
Control(c, d, sc) ==
  LET rest == c.height - (c.row + 1)
  IN IF 0 \in sc /\ rest # 0 THEN CrtcFetched(Zeros(c, c.lineSize * (c.row + 1), c.lineSize * rest), Reload(d), rest)
     ELSE CrtcFetched(IF 1 \in sc THEN SetFlag(c, {"kSuppressDisplay"}) ELSE c, d, 0)

Received(c, d, line) ==
  LET from == c.lineSize * c.row
      e == Fill(c, from, c.lineSize, line)
      f == IF IsSet(c, "kSuppressDisplay") THEN Zeros(e, from, c.lineSize) ELSE e
      shown == f.vram[c.bank]
  IN IF IsSet(c, "kControl") /\ shown[from + c.lineSize - 2] % 128 = 96
     THEN Control(f, d, Bits(shown[from + c.lineSize - 1])) ELSE CrtcFetched(f, d, 0)

ExpandLineSub(c, d) ==
  LET from == c.lineSize * c.row
      dest == [i \in 1 .. c.lineSize |-> c.vram[c.bank][from + i - 1]]
      r == RequestRead(d, 2, dest, text)
  IN IF IsSet(c, "kSkipline") /\ c.row % 2 = 1 THEN CrtcFetched(c, d, 0)
     ELSE IF ~Enabled(c) THEN CrtcFetched(Zeros(c, from, c.lineSize), d, 0)
     ELSE IF r.left # 0   \* DMA underrun
          THEN CrtcFetched(Zeros([c EXCEPT !.flags = (@ \ {"kEnable"}) \union {"kClear"}, !.status = (@ \ {4}) \union {3}],
                                 from, c.lineSize), r.dma, 0)
     ELSE Received(c, r.dma, r.dest)

ExpandLineEnd(c) == [c EXCEPT !.vrtc = 1, !.event = 255, !.sev = "StartDisplay"]

ExpandLine(c, d) ==
  LET f == ExpandLineSub(c, d)
      next == f.c.row + 1
  IN IF f.skip # 0 THEN [f EXCEPT !.c.event = f.skip + 1, !.c.sev = "ExpandLineEnd"]
     ELSE IF next < f.c.height THEN [f EXCEPT !.c.row = next, !.c.event = 1, !.c.sev = "ExpandLine"]
     ELSE [f EXCEPT !.c = ExpandLineEnd([f.c EXCEPT !.row = next])]

StartDisplay(c, d) ==
  ExpandLine([c EXCEPT !.sev = "none", !.row = 0, !.flags = @ \ {"kSuppressDisplay"}, !.vrtc = 0,
                       !.frame = IF @ + 1 > c.rate THEN 0 ELSE @ + 1], d)

\* HotReset ends by starting a frame.
ResetCrtc(c, d, line200) ==
  LET e == CreateTFont([c EXCEPT !.line200 = line200, !.pcg = "rom", !.kana = 0])
  IN StartDisplay([e EXCEPT !.status = {}, !.ctype = -1, !.cmode = -1, !.lineSize = 0, !.screen = ScreenLines,
                            !.height = ResetHeight, !.flags = {"kClear", "kResize"}, !.pcount = <<0, 0>>], d)

(***************************************************************************)
(* Drawing.                                                                *)
(***************************************************************************)
ChangeAttr(c, code, old) ==
  LET low == {b \in {0, 2, 3} : b + 2 \in code} \union (IF 0 \in code THEN {kSecret} ELSE {})
      inverse == IF IsSet(c, "kInverse") THEN {kReverse} ELSE {}
      blink == IF 1 \in code /\ 0 \notin code THEN c.blinkAttr ELSE {}
  IN CASE ~IsSet(c, "kColor") ->
            Toggle(Toggle(({5, 6, 7} \union low) \union (IF 7 \in code THEN {kGraphics} ELSE {}), inverse), blink)
       [] IsSet(c, "kColor") /\ 3 \in code -> (((old \intersect (1 .. 3)) \union (code \intersect (4 .. 7))) \union inverse)
       [] OTHER -> Toggle(Toggle((old \intersect (4 .. 7)) \union low, inverse), blink)

\* The attributes of line y of bytes src: the columns named by the pairs, in
\* any order, take the attributes of the pairs, in theirs.
ExpandAttributes(c, src, y, attr) ==
  LET pair(i) == (c.lineSize * y) + c.width + (2 * i)
      marks == {src[pair(i)] % 128 : i \in 0 .. c.nattr - 1}
      run[x \in -1 .. c.width - 1] ==
        IF x = -1 THEN attr
        ELSE IF x \in marks THEN ChangeAttr(c, Bits(src[pair(Cardinality(marks \intersect (0 .. x)) - 1) + 1]), run[x - 1])
        ELSE run[x - 1]
  IN IF c.nattr = 0 THEN [last |-> attr, at |-> [x \in 0 .. c.width - 1 |-> {5, 6, 7}]]
     ELSE [last |-> run[c.width - 1],
           at |-> [x \in 0 .. c.width - 1 |-> IF y = c.cy /\ x = c.cx THEN Toggle(run[x], c.cursorAttr) ELSE run[x]]]

\* Line h of what PutChar and PutCharW paint for a character; part is the half
\* of a wide one.
CrtcRuled(c, a, h) == \/ kOverline \in a /\ h = 0
                      \/ kUnderline \in a /\ c.lpc > UnderlineFrom /\ h = c.lpc - 1
Glyph(c, ch, a, h) ==
  LET g == IF kSecret \in a THEN 0 ELSE ch
  IN IF h >= c.limit + (c.limit % 2) THEN <<>>
     ELSE <<g, IF kGraphics \in a THEN "graphic" ELSE IF g < 128 THEN c.font.ank ELSE c.font.kana, h \div 2>>
Dots(c, ch, a, h, part) ==
  [colour |-> a \intersect {5, 6, 7}, mode |-> c.color, reverse |-> kReverse \in a, part |-> part,
   ruled |-> CrtcRuled(c, a, h), glyph |-> Glyph(c, ch, a, h)]

ClearText(c) == [l \in 0 .. ScreenLines - 1 |-> [x \in 0 .. Columns - 1 |-> IF l < c.screen THEN Blank ELSE Mask]]

LastRow(c) == Least2(c.screen \div c.lpc, c.height) - 1
RowsDrawn(c) == {y \in 0 .. LastRow(c) : ~(IsSet(c, "kSkipline") /\ y % 2 = 1)}
Drawable(c) == {x \in 0 .. c.width - 1 : ~c.wide \/ x % 2 = 0}

RECURSIVE Attributes(_, _, _, _, _)
Attributes(c, src, y, attr, done) ==
  IF y > LastRow(c) THEN [last |-> attr, rows |-> done]
  ELSE IF y \notin RowsDrawn(c) THEN Attributes(c, src, y + 1, attr, Append(done, <<>>))
  ELSE LET row == ExpandAttributes(c, src, y, attr \ {kOverline, kUnderline})
       IN Attributes(c, src, y + 1, row.last, Append(done, row.at))

\* A glyph is painted two lines at a time: with an odd number of lines the last
\* one is the first line of the row below.
\* The cells that changed are painted, with src drawn and old the bank drawn before.
Painted(c, src, old, rows) ==
  {p \in RowsDrawn(c) \X Drawable(c) :
     \/ src[c.lineSize * p[1] + p[2]] # old[c.lineSize * p[1] + p[2]]
     \/ rows[p[1] + 1][p[2]] # c.cache[c.width * p[1] + p[2]]}
ExpandImage(c, img, src, rows, cells) ==
  [l \in DOMAIN img |-> [x \in DOMAIN img[l] |->
     LET y == l \div c.lpc
         left == IF c.wide THEN x - (x % 2) ELSE x
         paint(row, h) == Dots(c, src[c.lineSize * row + left], rows[row + 1][left], h, x - left)
     IN IF <<y, left>> \in cells THEN paint(y, l % c.lpc)
        ELSE IF l % c.lpc = 0 /\ c.limit = c.lpc /\ c.lpc % 2 = 1 /\ <<y - 1, left>> \in cells THEN paint(y - 1, c.lpc)
        ELSE img[l][x]]]

CursorAttr(c) ==
  IF /\ c.ctype \in {1, 3}
     /\ \/ c.frame <= c.rate \div 4
        \/ c.frame \in (c.rate \div 2) .. ((3 * c.rate) \div 4) THEN {}
  ELSE CASE c.ctype = -1 -> {} [] c.ctype \in {0, 1} -> {kUnderline} [] OTHER -> {kReverse}

Shown(c, img, src, old, attrs) ==
  LET cells == Painted(c, src, old, attrs.rows)
  IN [c |-> [c EXCEPT !.bank = 1 - @, !.attr = attrs.last,
                      !.cache = [i \in Cells |-> IF <<i \div c.width, i % c.width>> \in cells
                                                 THEN attrs.rows[(i \div c.width) + 1][i % c.width] ELSE @[i]]],
      image |-> ExpandImage(c, img, src, attrs.rows, cells)]
Compose(c, img) == Shown(c, img, c.vram[c.bank], c.vram[1 - c.bank], Attributes(c, c.vram[c.bank], 0, c.attr, <<>>))

ForgetCells(c) == [c EXCEPT !.cache = [i \in Cells |-> Cleared]]
UpdateScreen(c, img, ref) ==
  LET again == ref \/ IsSet(c, "kResize") \/ IsSet(c, "kRefresh")
      d == IF again THEN ForgetCells([c EXCEPT !.flags = @ \ {"kResize", "kRefresh"}]) ELSE c
      e == [d EXCEPT !.cursorAttr = CursorAttr(d), !.blinkAttr = IF d.frame < d.rate \div 4 THEN {kSecret} ELSE {}]
      base == IF again THEN ClearText(c) ELSE img
  IN IF IsSet(c, "kClear") THEN [c |-> ForgetCells([c EXCEPT !.flags = @ \ {"kClear", "kRefresh"}]), image |-> ClearText(c)]
     ELSE IF ~Enabled(c) THEN [c |-> d, image |-> base]
     ELSE Compose(e, base)

(***************************************************************************)
(* Snapshots.  Of the flags only the low eight bits are kept, and loading  *)
(* sets a bit of the flags in the status.  The event is an unsigned byte:  *)
(* the test for the retrace (-1) never holds, 255 counts as lines.         *)
(***************************************************************************)
LowFlags == {"kInverse", "kColor", "kControl", "kSkipline", "kNonTransparent", "kAttribute", "kClear", "kRefresh"}
CrtcSaveStatus(c) == [c EXCEPT !.flags = @ \intersect LowFlags, !.cmdc = 255]

RECURSIVE CrtcReplay(_, _, _)
CrtcReplay(c, st, i) ==
  IF i < st.pcount[1] THEN CrtcReplay(Command(c, i = 0, st.param0[i]), st, i + 1)
  ELSE IF st.pcount[2] # 0 THEN Command(c, TRUE, st.param1) ELSE c

CrtcLoadStatus(c0, st) ==
  LET c == CrtcReplay(c0, st, 0)
      d == [c EXCEPT !.cmdm = st.cmdm, !.cmdc = st.cmdc, !.cx = st.cx, !.cy = st.cy, !.ctype = st.ctype, !.attr = st.attr,
                     !.row = st.row, !.flags = st.flags, !.status = st.status \union {6}, !.event = st.event,
                     !.sev = CASE st.event = 1 -> "ExpandLine" [] st.event > 1 -> "ExpandLineEnd" [] OTHER -> "none"]
  IN SetTextMode(d, st.color)

(***************************************************************************)
(* Steps.                                                                  *)
(***************************************************************************)
\* The controller has been given just this text screen, over and over.
TextBytes(c) == (IF IsSet(c, "kSkipline") THEN (c.height + 1) \div 2 ELSE c.height) * c.lineSize
Programmed(c, d) == /\ d.autoinit /\ 2 \in d.enabled /\ 6 \notin d.mode[2] /\ d.ptr[2] = d.ptr[3]
                    /\ d.count[2] = TextBytes(c) - 1 /\ d.count[3] = d.count[2]

CrtcInit ==
  LET f == ResetCrtc(PowerOnCrtc, PowerOnDma, FALSE)
  IN /\ crtc = f.c /\ dma = f.d
     /\ text \in Screens /\ todo \in CrtcSetUps /\ inStep = FALSE /\ inputs = 0
     /\ image = [l \in 0 .. ScreenLines - 1 |-> [x \in 0 .. Columns - 1 |-> Blank]]

Fire == /\ \/ /\ crtc.sev = "StartDisplay" /\ \E f \in {StartDisplay(crtc, dma)} : crtc' = f.c /\ dma' = f.d
           \/ /\ crtc.sev = "ExpandLine" /\ \E f \in {ExpandLine(crtc, dma)} : crtc' = f.c /\ dma' = f.d
           \/ /\ crtc.sev = "ExpandLineEnd" /\ crtc' = ExpandLineEnd(crtc) /\ UNCHANGED dma
        /\ UNCHANGED <<text, image, todo, inStep, inputs>>

Draw(ref) == /\ \E u \in {UpdateScreen(crtc, image, ref)} : crtc' = u.c /\ image' = u.image
             /\ UNCHANGED <<dma, text, todo, inStep, inputs>>

\* A burst of port accesses of the program that is running.
DmaAccess(d, op) == CASE op[1] = "addr" -> SetAddr(d, op[2], op[3])
                      [] op[1] = "count" -> SetCount(d, op[2], op[3], op[4])
                      [] op[1] = "mode" -> SetMode(d, op[2], op[3])
                      [] op[1] = "in addr" -> GetAddr(d, op[2]).dma
                      [] op[1] = "in count" -> GetCount(d, op[2]).dma
                      [] op[1] = "in status" -> GetStatus(d).dma
\* m is what a burst has come to: the two chips and whether they are in step.
Access(m, op) ==
  IF op[1] \in {"command", "parameter"}
  THEN LET c == Command(m.c, op[1] = "command", op[2])
       IN [m EXCEPT !.c = c, !.step = Enabled(c) /\ (IF Enabled(m.c) THEN m.step ELSE Programmed(c, m.d))]
  ELSE [m EXCEPT !.d = DmaAccess(m.d, op), !.step = m.step /\ op[1] \in {"in addr", "in count", "in status"}]
RECURSIVE Accesses(_, _)
Accesses(m, ops) == IF ops = <<>> THEN m ELSE Accesses(Access(m, ops[1]), Tail(ops))
Do == /\ todo # <<>> /\ todo' = Tail(todo)
      /\ LET m == Accesses([c |-> crtc, d |-> dma, step |-> inStep], todo[1])
         IN crtc' = m.c /\ dma' = m.d /\ inStep' = m.step
      /\ UNCHANGED <<text, image, inputs>>

Input == todo = <<>> /\ inputs < MaxInputs /\ inputs' = inputs + 1
Changes(c) == Input /\ crtc' = c /\ UNCHANGED <<dma, text, image, todo, inStep>>

RunProgram == /\ Input /\ todo' \in Programs /\ UNCHANGED <<crtc, dma, text, image, inStep>>
WriteText == /\ Input /\ text' \in Screens /\ UNCHANGED <<crtc, dma, image, todo, inStep>>
ResetMachine == /\ Input /\ dma' = ResetDma(dma) /\ inStep' = FALSE
                /\ \E line200 \in BOOLEAN : crtc' = ResetCrtc(crtc, ResetDma(dma), line200).c
                /\ UNCHANGED <<text, image, todo>>
\* A snapshot is loaded into a machine that has just been reset, so that little of
\* what went on since it was saved is left: it is saved and loaded in one step.
Restore == /\ Input
           /\ \E line200 \in BOOLEAN :
                crtc' = CrtcLoadStatus(ResetCrtc(crtc, ResetDma(dma), line200).c, CrtcSaveStatus(crtc))
           /\ dma' = LoadDma(ResetDma(dma), SaveDma(dma))
           /\ UNCHANGED <<text, image, todo, inStep>>

\* The CD-ROM interface or a module transfers through another channel.  Writing
\* reaches the main memory, which is read through the CRTC's channel as well unless
\* a text memory of its own is connected for that.
Transfer(b, data) ==
  /\ Input
  /\ \/ LET r == RequestWrite(dma, b, data, text)
        IN dma' = r.dma /\ text' = IF MemBegin = 0 THEN r.mem ELSE text
     \/ dma' = RequestRead(dma, b, data, text).dma /\ UNCHANGED text
  /\ UNCHANGED <<crtc, image, todo, inStep>>

CrtcNext ==
  \/ Fire
  \/ \E ref \in BOOLEAN : Draw(ref)
  \/ Do
  \/ RunProgram
  \/ WriteText
  \/ ResetMachine
  \/ Changes(PCGOut(crtc, "drawn"))
  \/ \E data \in {0, 16} : Changes(SetKanaMode(crtc, data))
  \/ \E color \in BOOLEAN : Changes(SetTextMode(crtc, color))
  \/ \E wide \in BOOLEAN : Changes(SetTextSize(crtc, wide))
  \/ \E n80v2, pcg \in BOOLEAN : Changes(CrtcConfig(crtc, n80v2, pcg))
  \/ Restore
  \/ \E b \in Channels \ {2}, data \in Transfers : Transfer(b, data)

(***************************************************************************)
(* Properties.                                                             *)
(***************************************************************************)

\* Drawing only the cells that changed gives the picture of the whole text:
\* when no clearing or redrawing is due, every cell not cleared since shows
\* the character of the lines drawn last, with its attribute, in the glyphs and
\* the mode of now, whatever was fetched, set or reset in between.  (With an odd
\* number of lines per character a glyph runs into the row below.)
ImageIsText ==
  (crtc.flags \intersect {"kClear", "kRefresh", "kResize"} = {} /\ Enabled(crtc) /\ crtc.lpc % 2 = 0) =>
    \A y \in RowsDrawn(crtc), x \in Drawable(crtc), h \in 0 .. crtc.lpc - 1 :
      LET a == crtc.cache[crtc.width * y + x]
      IN a # Cleared => image[crtc.lpc * y + h][x] =
                          Dots(crtc, crtc.vram[1 - crtc.bank][crtc.lineSize * y + x], a, h, 0)

\* A program that gives the controller exactly the text screen, with autoinit,
\* before it starts the display, gets every frame from its first byte: at each
\* fetch the controller stands at the line of the CRTC, also after frames that a
\* control character cut short, with lines left out, and after a snapshot.  The
\* display never stops by itself.
LinesFetched(c) == IF c.sev # "ExpandLine" THEN 0
                   ELSE IF IsSet(c, "kSkipline") THEN (c.row + 1) \div 2 ELSE c.row
TextInStep == inStep => /\ Enabled(crtc)
                        /\ dma.ptr[2] = (dma.ptr[3] + crtc.lineSize * LinesFetched(crtc)) % Space

\* In step, each line fetched is the line of the text memory that belongs to its
\* row, byte for byte, or blank where a control character has blanked the rest of
\* the frame.  A line that leaves the memory is left out: the runs of a transfer
\* cover each other in the buffer, and what comes is no line of the text.
FetchedRow == IF crtc.sev = "StartDisplay" THEN 0 ELSE crtc.row
LineOfText(p) == [i \in 1 .. crtc.lineSize |-> text[p + i - 1]]
RowFetched(c, y) == [i \in 1 .. c.lineSize |-> c.vram[c.bank][c.lineSize * y + i - 1]]
LineAsText ==
  LET y == FetchedRow
      p == dma.ptr[3] + crtc.lineSize * LinesFetched(crtc)
  IN Fire /\ inStep /\ crtc.sev \in {"StartDisplay", "ExpandLine"} =>
       \/ IsSet(crtc, "kSkipline") /\ y % 2 = 1
       \/ ~(p .. p + crtc.lineSize - 1 \subseteq MemBegin .. MemEnd - 1)
       \/ RowFetched(crtc', y) = LineOfText(p)
       \/ /\ y > 0 /\ IsSet(crtc, "kSuppressDisplay")
          /\ RowFetched(crtc', y) = [i \in 1 .. crtc.lineSize |-> 0]
=============================================================================

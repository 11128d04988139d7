------------------------------- MODULE Screen -------------------------------
(***************************************************************************)
(* The graphics screen and the palette: Screen of src/src/pc88/screen.cpp. *)
(* Drawing is incremental: memory marks the blocks of graphics written     *)
(* (dirty), UpdateScreen draws those, and everything after a change of a   *)
(* mode, which it notices by comparing a digest of the registers (gmode)   *)
(* with the last one.  UpdatePalette sends the palette again only when the *)
(* digest it keeps (pmode) changes or a flag is set.  Registers are sets   *)
(* of bit numbers.  A block stands for sixteen quads of a line, its        *)
(* contents for the bits of its three planes; the upper half of the blocks *)
(* is the second page of the 320 column modes.                             *)
(***************************************************************************)
EXTENDS Integers, Sequences, FiniteSets

CONSTANTS HalfBlocks,     \* blocks of one page: 500
          Contents,       \* contents of a block: sets of planes, 0 to 2
          Data30, Data31, Data32, Data33, Data53,   \* what programs write to the ports
          PaletteWrites,  \* pairs of a colour and the bits written for it
          Configs,        \* configurations of the user
          MaxWrites       \* bound on the inputs of a run

VARIABLES screen, gvram, dirty, picture, palette, writes,
          switched   \* colour has been turned on or off since the palette was sent
screenvars == <<screen, gvram, dirty, picture, palette, writes, switched>>

Blocks == 0 .. 2 * HalfBlocks - 1
Changed(a, b) == (a \ b) \union (b \ a)
Full == 7
Lit(bit, bits, level) == IF bit \in bits THEN level ELSE 0
\* A colour is green, red and blue.
Digital(g, r, b, bits, level) == <<Lit(g, bits, level), Lit(r, bits, level), Lit(b, bits, level)>>
Nothing == <<"cleared">>
ScreenPlanes(page, hidden) == {p \in 0 .. 2 : p \in page /\ p \notin hidden}

PowerOnScreen ==
  [n80 |-> FALSE, newmode |-> FALSE, p30 |-> {}, p31 |-> {}, p32 |-> {}, p33 |-> {}, p53 |-> {}, pal |-> [c \in 0 .. 7 |-> Digital(2, 1, 0, {i \in 0 .. 2 : (c \div 2^i) % 2 = 1}, 255)],
   bg |-> <<0, 0, 0>>, fullLine |-> FALSE, fv15k |-> FALSE, digital |-> FALSE, textTp |-> FALSE, gmask |-> {}, line400 |-> FALSE, line320 |-> FALSE, color |-> FALSE,
   graphics |-> FALSE, textPriority |-> FALSE, grphPriority |-> FALSE, paletteChanged |-> TRUE, modeChanged |-> TRUE, gmode |-> <<>>, pmode |-> <<>>, crtcColor |-> TRUE]

(***************************************************************************)
(* Ports.                                                                  *)
(***************************************************************************)
V2(s) == 7 \in s.p33   \* N80V2, in N80 mode

\* N80V2: both planes or pages hidden is as good as no graphics.
Hiding(s) == IF s.line320 THEN {1, 2} ELSE {1}
Visible(s, p53) == 3 \in s.p31 /\ ~(Hiding(s) \subseteq p53)

Out30(s, data) == [s EXCEPT !.p30 = data]   \* and the size of the characters

Mode88(s, data) ==
  LET color == 4 \in data
  IN [s EXCEPT !.color = color, !.line400 = 0 \notin data /\ ~color, !.crtcColor = color]

ModeV2(s, data, i) ==
  LET color == 4 \in data
      new == [s EXCEPT !.line320 = 2 \in data, !.color = color, !.crtcColor = color,
                       !.bg = IF color THEN @ ELSE Digital(7, 6, 5, data, 7),
                       !.paletteChanged = @ \/ i \intersect {2, 3, 4} # {} \/ (~color /\ i \intersect {5, 6, 7} # {})]
  IN IF color THEN [new EXCEPT !.graphics = Visible(new, s.p53)] ELSE new

ModeV1(s, data) ==
  LET line320 == 4 \in data
      color == line320 \/ 2 \in data
      col == Digital(7, 6, 5, data, 7)
      blue == IF 2 \in data THEN 7 ELSE 0
      four == [c \in 0 .. 3 |-> CASE c = 0 -> <<0, 0, blue>> [] c = 1 -> <<0, 7, blue>> [] c = 2 -> <<7, 0, blue>> [] c = 3 -> col]
  IN [s EXCEPT !.line320 = line320, !.color = color, !.crtcColor = color, !.paletteChanged = TRUE,
               !.pal = [c \in 0 .. 7 |-> IF line320 THEN four[c % 4] ELSE IF c = 0 THEN <<0, 0, 0>> ELSE col],
               !.bg = IF color THEN @ ELSE col]

ScreenOut31(s, data) ==
  LET i == Changed(s.p31, data)
      new == [s EXCEPT !.p31 = data, !.graphics = 3 \in data]
  IN CASE ~s.n80 /\ i \intersect {0, 3, 4} # {} -> IF i \intersect {0, 4} # {} THEN Mode88(new, data) ELSE new
       [] s.n80 /\ i \intersect (2 .. 7) # {} -> IF i \subseteq {0, 1, 3} THEN new
                                                 ELSE IF V2(s) THEN ModeV2(new, data, i) ELSE ModeV1(new, data)
       [] OTHER -> s

ScreenOut32(s, data) ==
  IF 5 \in Changed(s.p32, data) THEN [s EXCEPT !.p32 = data, !.paletteChanged = @ \/ ~s.color] ELSE s

ScreenOut33(s, data) ==
  IF s.n80 /\ Changed(s.p33, data) \intersect {2, 3, 7} # {}
  THEN [s EXCEPT !.p33 = data, !.textPriority = 3 \in data, !.grphPriority = 2 \in data, !.paletteChanged = TRUE]
  ELSE s

Out52(s, data) == IF 5 \in s.p32 THEN s
                  ELSE [s EXCEPT !.bg = Digital(5, 4, 3, data, 255), !.paletteChanged = @ \/ ~s.color]

\* In the modes of the PC-8801 only a change that shows is kept.
Out53(s, data) ==
  LET shows == CASE s.color /\ s.line320 -> 0 .. 2 [] s.color /\ ~s.line320 -> 0 .. 1
                 [] ~s.color /\ s.line320 -> 0 .. 6 [] OTHER -> 0 .. 3
      new == [s EXCEPT !.p53 = data]
  IN CASE ~s.n80 -> IF Changed(s.p53, data) \intersect (IF s.color THEN {0} ELSE 0 .. 3) # {} THEN new ELSE s
       [] s.n80 /\ ~V2(s) -> s
       [] OTHER -> IF Changed(s.p53, data) \intersect shows = {} THEN new
                   ELSE [new EXCEPT !.modeChanged = TRUE, !.graphics = IF s.color THEN Visible(s, data) ELSE @]

\* Colour 8 is the background, which an analogue write to 54 may choose.
SetColour(s, c, data, analogue) ==
  LET old == IF c = 8 THEN s.bg ELSE s.pal[c]
      low == Lit(0, data, 1) + Lit(1, data, 2) + Lit(2, data, 4)
      high == Lit(3, data, 1) + Lit(4, data, 2) + Lit(5, data, 4)
      to == IF ~analogue THEN Digital(2, 1, 0, data, 7)
            ELSE IF 6 \in data THEN <<low, old[2], old[3]>> ELSE <<old[1], high, low>>
      new == [s EXCEPT !.paletteChanged = TRUE]
  IN IF c = 8 THEN [new EXCEPT !.bg = to] ELSE [new EXCEPT !.pal[c] = to]
Out54(s, data) == LET analogue == 5 \in s.p32 IN SetColour(s, IF analogue /\ 7 \in data THEN 8 ELSE 0, data, analogue)
Out55to5b(s, c, data) == SetColour(s, c, data, ~s.n80 /\ 5 \in s.p32)

ResetGraphics(s) ==
  LET new == [s EXCEPT !.n80 = s.newmode, !.graphics = FALSE, !.textPriority = FALSE, !.grphPriority = FALSE,
                       !.p31 = (0 .. 7) \ s.p31, !.paletteChanged = TRUE, !.modeChanged = TRUE]
  IN ScreenOut31(new, s.p31)

\* Mutant: other lines to be filled do not have the screen drawn again.
ConfigOnly(s, cfg) ==
  [s EXCEPT !.fv15k = cfg.fv15k, !.digital = cfg.digital, !.textTp = cfg.textTp, !.gmask = cfg.gmask, !.newmode = cfg.n80,
            !.fullLine = cfg.fullLine, !.paletteChanged = TRUE]
GraphicsConfig(s, cfg) ==
  [s EXCEPT !.fv15k = cfg.fv15k, !.digital = cfg.digital, !.textTp = cfg.textTp, !.gmask = cfg.gmask, !.newmode = cfg.n80,
            !.fullLine = cfg.fullLine, !.modeChanged = @ \/ cfg.fullLine # s.fullLine, !.paletteChanged = TRUE]

\* A snapshot keeps the ports and the colours; they are written in the order of
\* their numbers, port 31 with what port 33 was before.
LoadGraphics(s, st) ==
  LET new == Out53(ScreenOut33(ScreenOut32(ScreenOut31(Out30(s, st.p30), st.p31), st.p32), st.p33), st.p53)
  IN [new EXCEPT !.bg = st.bg, !.pal = st.pal, !.modeChanged = TRUE]

(***************************************************************************)
(* The picture.  What a block shows is the way it is drawn, whether both   *)
(* lines are, and the planes, one set per page or, in 400 lines, per half. *)
(***************************************************************************)
Kind(s) ==
  CASE ~s.n80 -> IF s.color THEN "200c" ELSE IF s.line400 THEN "400b" ELSE "200b"
    [] s.n80 /\ s.color -> IF ~s.line320 THEN "200c" ELSE IF V2(s) THEN "320c" ELSE "80c"
    [] OTHER -> IF V2(s) THEN (IF s.line320 THEN "320b" ELSE "200b") ELSE (IF s.line320 THEN "none" ELSE "80b")
TwoPages(s) == Kind(s) \in {"320c", "320b"}

AnyFields(planes) == planes # {}
Hidden53(s, first) == {p \in 0 .. 2 : p + first \in s.p53}
Draw200c(page) == <<page>>
Draw200b(s, page) == <<AnyFields(ScreenPlanes(page, Hidden53(s, 1)))>>
Draw400b(page) == <<0 \in page, 1 \in page>>   \* the planes hidden are not asked for
Draw80c(page) == <<0 \in page>>
Draw80b(page) == <<0 \in page>>
\* The page in front shows through where it is black.
Draw320c(s, front, back, f, b) == LET top == IF f \in s.p53 THEN {} ELSE front
                                  IN <<IF AnyFields(top) THEN top ELSE IF b \in s.p53 THEN {} ELSE back>>
Draw320b(s, one, two) == <<AnyFields(ScreenPlanes(one, Hidden53(s, 1)) \union ScreenPlanes(two, Hidden53(s, 4)))>>

\* Block b of the picture: with two pages, both at b.
Pixels(s, mem, b) ==
  LET kind == Kind(s)
      other == mem[(b + HalfBlocks) % (2 * HalfBlocks)]
  IN <<kind, s.fullLine /\ kind # "400b">> \o
     CASE kind = "200c" -> Draw200c(mem[b]) [] kind = "200b" -> Draw200b(s, mem[b]) [] kind = "400b" -> Draw400b(mem[b])
       [] kind = "80c" -> Draw80c(mem[b]) [] kind = "80b" -> Draw80b(mem[b])
       [] kind = "320c" -> IF s.grphPriority THEN Draw320c(s, other, mem[b], 2, 1) ELSE Draw320c(s, mem[b], other, 1, 2)
       [] kind = "320b" -> Draw320b(s, mem[b], other)

Gmode(s) == <<s.line400, IF s.color THEN {4} ELSE s.p53 \intersect (1 .. 3), s.line320, V2(s), s.n80, s.textPriority, s.grphPriority,
              IF ~(s.n80 /\ V2(s)) THEN {} ELSE IF s.color THEN s.p53 \intersect Hiding(s)
              ELSE IF s.line320 THEN s.p53 \intersect (4 .. 6) ELSE {}>>

\* The blocks of the picture the dirty ones of memory have drawn.
Redrawn(s, d) == CASE Kind(s) = "none" -> {}
                   [] TwoPages(s) -> {b \in 0 .. HalfBlocks - 1 : b \in d \/ b + HalfBlocks \in d}
                   [] OTHER -> d

Drawn(s, mem, d, pic) ==
  [screen |-> s, dirty |-> IF Kind(s) = "none" THEN d ELSE {},
   picture |-> [b \in Blocks |-> IF b \in Redrawn(s, d) THEN Pixels(s, mem, b) ELSE pic[b]]]

UpdateGraphics(s, mem, d, pic, refresh) ==
  IF s.modeChanged \/ Gmode(s) # s.gmode \/ refresh
  THEN Drawn([s EXCEPT !.gmode = Gmode(s), !.modeChanged = FALSE, !.paletteChanged = TRUE], mem, Blocks, [b \in Blocks |-> Nothing])
  ELSE Drawn(s, mem, d, pic)

(***************************************************************************)
(* The palette sent to the display: for every value of the graphics bits   *)
(* the colour without text and, in colour, what text does to it.           *)
(***************************************************************************)
Pmode(s) == <<s.graphics, 0 \in s.p53, s.p30 \intersect {1, 5}, s.n80, s.line320, V2(s), s.color,
              IF s.color THEN (IF s.n80 /\ V2(s) THEN s.p53 \intersect Hiding(s) ELSE {})
              ELSE (s.p53 \intersect (1 .. 3)) \union (IF s.n80 /\ V2(s) /\ s.line320 THEN s.p53 \intersect (4 .. 6) ELSE {})>>

Black == <<"black">>
BitsOf(i) == {b \in 0 .. 3 : (i \div 2^b) % 2 = 1}
Dimming(s, i) == IF s.gmask = {} THEN "as is" ELSE IF BitsOf(i) \ s.gmask # {} THEN "bright" ELSE "dim"
Xpal(s, i) == CASE i = 8 -> Black [] i = 9 -> <<s.bg, s.digital>>
                [] OTHER -> <<s.pal[i], s.digital, s.textTp, Dimming(s, i)>>
TextColour(s, i) == IF 1 \in s.p30 THEN 7 ELSE i

ColourPalette(s) ==
  LET plain(gc) == IF s.graphics \/ s.textTp THEN Xpal(s, gc) ELSE Black
      text(gc) == IF 0 \in s.p53 \/ (s.textPriority /\ gc > 0) THEN <<"graphics", 0>>
                  ELSE IF s.textTp THEN <<"mixed", 0>> ELSE <<"text", TextColour(s, 1)>>
  IN [gc \in 0 .. 8 |-> IF gc = 8 /\ s.fv15k /\ 0 \notin s.p53 THEN <<Black, Black>> ELSE <<plain(gc), text(gc)>>]

MonoPalette(s) ==
  LET hide == 0 \in s.p53
      ink == [i \in 0 .. 7 |-> IF 5 \in s.p32 THEN Xpal(s, TextColour(s, i)) ELSE <<"digital", TextColour(s, i)>>]
      bits(gc) == BitsOf(gc) \ (IF s.textTp \/ s.graphics THEN {} ELSE IF hide THEN {0} ELSE {2})
      on(x) == IF hide THEN 0 \in x /\ 1 \notin x ELSE ((3 \notin x /\ 2 \in x) \/ 0 \in x) # (1 \in x)
      tone(x) == CASE ~on(x) -> Xpal(s, 9) [] on(x) /\ ~hide /\ 3 \in x /\ s.fv15k -> Black [] OTHER -> ink
  IN [gc \in 0 .. (IF hide THEN 3 ELSE 15) |-> <<tone(bits(gc))>>]

Palette(s) == IF s.color THEN ColourPalette(s) ELSE MonoPalette(s)

Due(s) == s.paletteChanged \/ Pmode(s) # s.pmode
UpdatePalette(s, sent) ==
  [screen |-> [s EXCEPT !.pmode = Pmode(s), !.paletteChanged = FALSE], palette |-> IF Due(s) THEN Palette(s) ELSE sent]

(***************************************************************************)
(* Steps.                                                                  *)
(***************************************************************************)
ScreenInit == /\ screen \in {ResetGraphics([PowerOnScreen EXCEPT !.newmode = n80]) : n80 \in BOOLEAN} /\ gvram = [b \in Blocks |-> {}] /\ dirty = Blocks
              /\ picture = [b \in Blocks |-> Nothing] /\ palette = <<>> /\ writes = 0 /\ switched = FALSE

\* PC88::UpdateScreen draws and then sends the palette.
Show == \E refresh \in BOOLEAN :
          \E d \in {UpdateGraphics(screen, gvram, dirty, picture, refresh)} :
            LET p == UpdatePalette(d.screen, palette)
            IN /\ screen' = p.screen /\ picture' = d.picture /\ dirty' = d.dirty /\ palette' = p.palette
               /\ switched' = (switched /\ ~Due(d.screen))
               /\ UNCHANGED <<gvram, writes>>

ScreenInput == writes < MaxWrites /\ writes' = writes + 1
Becomes(s) == ScreenInput /\ screen' = s /\ switched' = (switched \/ s.color # screen.color) /\ UNCHANGED <<gvram, dirty, picture, palette>>

WriteGraphics == /\ ScreenInput
                 /\ \E b \in Blocks, c \in Contents : gvram' = [gvram EXCEPT ![b] = c] /\ dirty' = dirty \union {b}
                 /\ UNCHANGED <<screen, picture, palette, switched>>

ScreenNext ==
  \/ Show
  \/ WriteGraphics
  \/ \E data \in Data30 : Becomes(Out30(screen, data))
  \/ \E data \in Data31 : Becomes(ScreenOut31(screen, data))
  \/ \E data \in Data32 : Becomes(ScreenOut32(screen, data))
  \/ \E data \in Data33 : Becomes(ScreenOut33(screen, data))
  \/ \E data \in Data32 : Becomes(Out52(screen, data))
  \/ \E data \in Data53 : Becomes(Out53(screen, data))
  \/ \E w \in PaletteWrites : Becomes(IF w[1] = 0 THEN Out54(screen, w[2]) ELSE Out55to5b(screen, w[1], w[2]))
  \/ \E cfg \in Configs : Becomes(GraphicsConfig(screen, cfg))
  \/ Becomes(ResetGraphics(screen))
  \/ Becomes(LoadGraphics(ResetGraphics(screen), screen))

(***************************************************************************)
(* Properties.                                                             *)
(***************************************************************************)

\* Drawing only the dirty blocks gives the picture of the whole memory: unless a
\* mode has changed since, every block of the picture that no dirty block of
\* memory belongs to shows what memory holds, in the modes of now: the digest of
\* the registers misses none that matters.
PictureIsMemory ==
  (~screen.modeChanged /\ Gmode(screen) = screen.gmode /\ Kind(screen) # "none") =>
    \A b \in (IF TwoPages(screen) THEN 0 .. HalfBlocks - 1 ELSE Blocks) \ Redrawn(screen, dirty) :
      picture[b] = Pixels(screen, gvram, b)

\* The palette at the display is that of the registers and the configuration of
\* now, unless it is marked to be sent: the digest and the flag together miss no
\* change.  (They do miss port 32 or the background written in colour, when the
\* screen is without before and after, at each drawing: hence ~switched.)
PaletteIsRegisters ==
  (~switched /\ ~screen.paletteChanged /\ ~screen.modeChanged /\ Gmode(screen) = screen.gmode /\ Pmode(screen) = screen.pmode) =>
    palette = Palette(screen)
=============================================================================

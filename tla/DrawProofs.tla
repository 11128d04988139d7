---- MODULE DrawProofs ----
(***************************************************************************)
(* Proofs about Draw, for screens of any number of bands: what has to be   *)
(* painted is never forgotten, and neither is a request to refresh.        *)
(*                                                                         *)
(* While the region is on its way through DrawScreen the bands it holds    *)
(* are covered by different things, one after the other: the region        *)
(* itself, the area, and the rectangle the draw thread has copied.  The    *)
(* invariant says by which at each point of both threads.                  *)
(***************************************************************************)
EXTENDS Draw, TLAPS

Covered(S) == stale \subseteq S \union lost

\* Before the area is set the region covers what the area covered before.
AreaToSet == hand = "area" => AllOwed \/ Covered(region)

\* A paint begins in the middle of a hand-over only if it is noted.
AreaUntouched == hand = "area" /\ ~early => drawing /\ painter # "painting"

\* A region that was handed over is in the area, until it is painted.
AreaSet ==
  hand \in {"signal", "reset"} /\ handing /\ ~early =>
    AllOwed \/ Covered(IF drawing THEN draw_area ELSE {})

\* A paint under way covers what is in its rectangle.
PaintCovers ==
  painter = "painting" /\ ~whole =>
    \/ palette
    \/ /\ Covered(rect \union region)
       /\ hand \in {"signal", "reset"} /\ handing /\ ~early => Covered(rect)

\* Only a request for a whole paint comes between HandOver and DrawScreen.
OnlyRepaint ==
  hand = "check" =>
    /\ drawing => draw_all
    /\ painter = "painting" => whole

\* The flag stays set while a paint is under way, and the display is there.
PaintingIsDrawing == painter = "painting" => drawing /\ sub

\* Nobody paints the whole window but the thread that paints.
WholeIsPainting == whole => painter = "painting"

\* A request of ChangeDisplayMode that came after GetStatus has looked is not
\* taken for the one it has seen; the one Unlock is about to drop is another.
RefreshSeen ==
  /\ hand \in {"lock", "image", "unlocked"} /\ owed = "new" => refresh = 2
  /\ hand = "status" /\ owed = "new" /\ ~saw => refresh = 2
  /\ hand = "drop" => owed # "new"
  /\ owed = "new" => ui = "idle"

\* What relates the two threads, and the requests to refresh.
Handshake ==
  /\ NothingForgotten
  /\ AreaToSet
  /\ AreaUntouched
  /\ AreaSet
  /\ PaintCovers

Requests ==
  /\ OnlyRepaint
  /\ PaintingIsDrawing
  /\ WholeIsPainting
  /\ RefreshSeen
  /\ RefreshKept

IInv == TypeOK /\ Handshake /\ Requests

USE DEF emulation, display, handover, thread, history

----------------------------------------------------------------------------
\* A region covers what it was made from.
LEMMA HullCovers ==
  ASSUME NEW S \in SUBSET Bands
  PROVE  S \subseteq Hull(S) /\ Hull(S) \subseteq Bands
BY DrawAssumption DEF Hull

\* Before the window is made nothing is shown and nothing is asked for.
LEMMA InitEstablishes == Init => IInv
<1> SUFFICES ASSUME Init PROVE IInv
  OBVIOUS
<1>1. /\ saw \in BOOLEAN /\ redo \in BOOLEAN /\ handing \in BOOLEAN /\ updated \in BOOLEAN
      /\ sub \in BOOLEAN /\ active \in BOOLEAN /\ repaint \in BOOLEAN
      /\ palette \in BOOLEAN /\ draw_all \in BOOLEAN /\ drawing \in BOOLEAN
      /\ hevredraw \in BOOLEAN /\ whole \in BOOLEAN /\ early \in BOOLEAN
  BY Zenon DEF Init
<1>2. TypeOK
  BY <1>1 DEF Init, TypeOK
<1>3. Handshake
  BY DEF Init, Handshake, NothingForgotten, AreaToSet, AreaUntouched, AreaSet, PaintCovers
<1>4. Requests
  BY DEF Init, Requests, OnlyRepaint, PaintingIsDrawing, WholeIsPainting, RefreshSeen,
         RefreshKept
<1> QED BY <1>2, <1>3, <1>4 DEF IInv

\* The emulation thread.  The region covers what it hands over until the area
\* does; a paint that began in between, too early for the area, is noted.
LEMMA EmuKeeps ==
  ASSUME IInv, EmuStep
  PROVE  IInv'
<1> USE DEF IInv, TypeOK, Handshake, NothingForgotten, AreaToSet, AreaUntouched, AreaSet,
            PaintCovers, Requests, OnlyRepaint, PaintingIsDrawing, WholeIsPainting,
            RefreshSeen, RefreshKept, AllOwed, Pending, Covered
<1>1. ASSUME NEW now \in BOOLEAN, BeginUpdate(now)
      PROVE  IInv'
  <2>1. redo' \in BOOLEAN /\ saw' \in BOOLEAN
    BY <1>1 DEF BeginUpdate, ShouldRefresh
  <2>2. TypeOK'
    BY <1>1, <2>1 DEF BeginUpdate, Ready, SeenRefresh
  <2>3. Handshake'
    BY <1>1, <2>1 DEF BeginUpdate
  \* Whoever goes on without a refresh has found none asked for, or a new one.
  <2>4. Requests'
    BY <1>1, <2>1 DEF BeginUpdate, ShouldRefresh, SeenRefresh
  <2> QED BY <2>2, <2>3, <2>4
<1>2. CASE Lock
  BY <1>2 DEF Lock
<1>3. ASSUME NEW changed \in SUBSET Bands, NEW pal \in BOOLEAN, UpdateImage(changed, pal)
      PROVE  IInv'
  <2>1. palette' \in BOOLEAN /\ repaint' \in BOOLEAN /\ updated' \in BOOLEAN
    BY <1>3 DEF UpdateImage, Unlocked
  <2>2. TypeOK'
    BY <1>3, HullCovers, <2>1 DEF UpdateImage, Unlocked
  \* What changed is in the region, and a refresh, whose request is dropped,
  \* sets the palette.
  <2>3. NothingForgotten'
    BY <1>3, HullCovers, <2>1 DEF UpdateImage, Unlocked
  <2>4. AreaToSet' /\ AreaUntouched'
    BY <1>3, HullCovers, <2>1 DEF UpdateImage, Unlocked
  <2>5. AreaSet'
    BY <1>3, HullCovers, <2>1 DEF UpdateImage, Unlocked
  \* The mutex is held: no paint is under way.
  <2>6. PaintCovers'
    BY <1>3, HullCovers, <2>1 DEF UpdateImage, Unlocked
  <2>7. Requests'
    BY <1>3, HullCovers, <2>1 DEF UpdateImage, Unlocked
  <2> QED BY <2>2, <2>3, <2>4, <2>5, <2>6, <2>7
<1>4. CASE HandOver
  <2>1. saw' \in BOOLEAN /\ handing' \in BOOLEAN /\ updated' \in BOOLEAN
    BY <1>4 DEF HandOver
  <2>2. TypeOK'
    BY <1>4, <2>1 DEF HandOver, SeenRefresh
  <2>3. Handshake'
    BY <1>4, <2>1 DEF HandOver
  <2>4. Requests'
    BY <1>4, <2>1 DEF HandOver, Ready, SeenRefresh
  <2> QED BY <2>2, <2>3, <2>4
<1>5. CASE DrawScreen
  BY <1>5 DEF DrawScreen
<1>6. CASE SetArea
  <2>1. TypeOK'
    BY <1>6 DEF SetArea
  <2>2. NothingForgotten'
    BY <1>6 DEF SetArea
  <2>3. AreaToSet' /\ AreaUntouched'
    BY <1>6 DEF SetArea
  \* What the area held before is in the region, by AreaToSet.
  <2>4. AreaSet'
    BY <1>6 DEF SetArea
  <2>5. PaintCovers'
    BY <1>6 DEF SetArea
  <2>6. Requests'
    BY <1>6 DEF SetArea
  <2> QED BY <2>1, <2>2, <2>3, <2>4, <2>5, <2>6
<1>7. CASE Signal
  BY <1>7 DEF Signal
<1>9. CASE LookForRefresh
  <2>1. saw' \in BOOLEAN
    BY <1>9 DEF LookForRefresh
  <2>2. TypeOK'
    BY <1>9, <2>1 DEF LookForRefresh
  <2>3. Handshake'
    BY <1>9, <2>1 DEF LookForRefresh
  <2>4. Requests'
    BY <1>9, <2>1 DEF LookForRefresh
  <2> QED BY <2>2, <2>3, <2>4
<1>10. CASE TestRefresh
  \* A request that nobody has seen is not the one that is dropped.
  BY <1>10 DEF TestRefresh, RefreshServed
<1>11. CASE DropRefresh
  BY <1>11 DEF DropRefresh
<1>8. CASE EndUpdate
  <2>1. early' \in BOOLEAN /\ handing' \in BOOLEAN /\ redo' \in BOOLEAN
    BY <1>8 DEF EndUpdate
  <2>2. TypeOK'
    BY <1>8, <2>1 DEF EndUpdate
  \* The region is forgotten: the area covers it, or a rectangle of a paint
  \* under way, or it counts as lost.
  <2>3. NothingForgotten'
    BY <1>8, <2>1 DEF EndUpdate
  <2>4. AreaToSet' /\ AreaUntouched'
    BY <1>8, <2>1 DEF EndUpdate
  <2>5. AreaSet'
    BY <1>8, <2>1 DEF EndUpdate
  <2>6. PaintCovers'
    BY <1>8, <2>1 DEF EndUpdate
  <2>7. Requests'
    BY <1>8, <2>1 DEF EndUpdate
  <2> QED BY <2>2, <2>3, <2>4, <2>5, <2>6, <2>7
<1> QED BY <1>1, <1>2, <1>3, <1>4, <1>5, <1>6, <1>7, <1>8, <1>9, <1>10, <1>11 DEF EmuStep

\* The draw thread.  What is in its rectangle is covered by the area still, as
\* the flag stays set until the paint has ended.
LEMMA PainterKeeps ==
  ASSUME IInv, PaintStep
  PROVE  IInv'
<1> USE DEF IInv, TypeOK, Handshake, NothingForgotten, AreaToSet, AreaUntouched, AreaSet,
            PaintCovers, Requests, OnlyRepaint, PaintingIsDrawing, WholeIsPainting,
            RefreshSeen, RefreshKept, AllOwed, Pending, Covered
<1>1. CASE StartPainting
  <2>1. hevredraw' \in BOOLEAN /\ drawing' \in BOOLEAN /\ early' \in BOOLEAN
    BY <1>1 DEF StartPainting
  <2>2. TypeOK'
    BY <1>1, <2>1 DEF StartPainting
  \* The area that is dropped counts as lost.
  <2>3. NothingForgotten'
    BY <1>1, <2>1 DEF StartPainting
  <2>4. AreaToSet' /\ AreaUntouched'
    BY <1>1, <2>1 DEF StartPainting
  <2>5. AreaSet'
    BY <1>1, <2>1 DEF StartPainting
  <2>6. PaintCovers'
    BY <1>1, <2>1 DEF StartPainting
  <2>7. Requests'
    BY <1>1, <2>1 DEF StartPainting
  <2> QED BY <2>2, <2>3, <2>4, <2>5, <2>6, <2>7
<1>2. CASE Wake
  <2>1. hevredraw' \in BOOLEAN
    BY <1>2 DEF Wake
  <2>2. IInv'
    BY <1>2, <2>1 DEF Wake
  <2> QED BY <2>2
<1>3. CASE BeginPaint
  <2>1. palette' \in BOOLEAN /\ whole' \in BOOLEAN /\ early' \in BOOLEAN
    BY <1>3 DEF BeginPaint
  <2>2. TypeOK'
    BY <1>3, <2>1 DEF BeginPaint
  \* A change of the palette becomes a paint of the whole window.
  <2>3. NothingForgotten'
    BY <1>3, <2>1 DEF BeginPaint
  <2>4. AreaToSet' /\ AreaUntouched'
    BY <1>3, <2>1 DEF BeginPaint
  <2>5. AreaSet'
    BY <1>3, <2>1 DEF BeginPaint
  \* The rectangle is the area.
  <2>6. PaintCovers'
    BY <1>3, <2>1 DEF BeginPaint
  <2>7. Requests'
    BY <1>3, <2>1 DEF BeginPaint
  <2> QED BY <2>2, <2>3, <2>4, <2>5, <2>6, <2>7
<1>4. CASE EndPaint
  <2>1. draw_all' \in BOOLEAN /\ drawing' \in BOOLEAN /\ whole' \in BOOLEAN
    BY <1>4 DEF EndPaint, DrawingAfterPaint, Unlocked
  <2>2. TypeOK'
    BY <1>4, <2>1 DEF EndPaint, DrawingAfterPaint, Unlocked
  \* What the rectangle did not cover is in the region, or another paint of
  \* the whole window is owed.
  <2>3. NothingForgotten'
    BY <1>4, <2>1 DEF EndPaint, DrawingAfterPaint, Unlocked
  <2>4. AreaToSet' /\ AreaUntouched'
    BY <1>4, <2>1 DEF EndPaint, DrawingAfterPaint, Unlocked
  <2>5. AreaSet'
    BY <1>4, <2>1 DEF EndPaint, DrawingAfterPaint, Unlocked
  <2>6. PaintCovers'
    BY <1>4, <2>1 DEF EndPaint, DrawingAfterPaint, Unlocked
  <2>7. Requests'
    BY <1>4, <2>1 DEF EndPaint, DrawingAfterPaint, Unlocked
  <2> QED BY <2>2, <2>3, <2>4, <2>5, <2>6, <2>7
<1> QED BY <1>1, <1>2, <1>3, <1>4 DEF PaintStep

\* The UI thread.  Whatever makes the whole window stale asks for all of it.
LEMMA WindowKeeps ==
  ASSUME IInv,
         \/ RequestPaint \/ ChangeDisplayMode \/ RequestRefresh \/ Resize
         \/ \E b \in BOOLEAN : Activate(b)
  PROVE  IInv'
<1> USE DEF IInv, TypeOK, Handshake, NothingForgotten, AreaToSet, AreaUntouched, AreaSet,
            PaintCovers, Requests, OnlyRepaint, PaintingIsDrawing, WholeIsPainting,
            RefreshSeen, RefreshKept, AllOwed, Pending, Covered
<1>1. CASE RequestPaint
  BY <1>1 DEF RequestPaint
<1>2. CASE ChangeDisplayMode
  <2>1. repaint' \in BOOLEAN /\ draw_all' \in BOOLEAN /\ sub' \in BOOLEAN
    BY <1>2 DEF ChangeDisplayMode
  <2>2. TypeOK' /\ Requests'
    BY <1>2, <2>1 DEF ChangeDisplayMode
  <2>3. Handshake'
    BY <1>2, <2>1 DEF ChangeDisplayMode
  <2> QED BY <2>2, <2>3
<1>3. CASE Resize
  BY <1>3 DEF Resize
<1>4. ASSUME NEW b \in BOOLEAN, Activate(b)
      PROVE  IInv'
  BY <1>4 DEF Activate
<1>5. CASE RequestRefresh
  BY <1>5 DEF RequestRefresh
<1> QED BY <1>1, <1>2, <1>3, <1>4, <1>5

\* Every step of either thread, and of the window, keeps the invariant.
THEOREM Invariance == Spec => []IInv
<1>1. IInv /\ [Next]_vars => IInv'
  <2> SUFFICES ASSUME IInv, [Next]_vars PROVE IInv'
    OBVIOUS
  <2>1. CASE UNCHANGED vars
    BY <2>1 DEF vars, IInv, TypeOK, Handshake, NothingForgotten, AreaToSet, AreaUntouched,
                AreaSet, PaintCovers, Pending, AllOwed, Covered, Requests, OnlyRepaint,
                PaintingIsDrawing, WholeIsPainting, RefreshSeen, RefreshKept
  <2> QED BY <2>1, EmuKeeps, PainterKeeps, WindowKeeps DEF Next
<1> QED BY InitEstablishes, <1>1, PTL DEF Spec

\* The hand-over and the mutex of WinDraw stay well formed: the image is changed
\* and painted by the owner of the mutex only, for any number of bands.
THEOREM TypeCorrect == Spec => []TypeOK
<1>1. IInv => TypeOK
  BY DEF IInv
<1> QED BY Invariance, <1>1, PTL

\* UpdateScreen, DrawScreen and PaintWindow never forget a band that is shown
\* wrongly, but for a region handed over while a paint was beginning.
THEOREM NothingIsForgotten == Spec => []NothingForgotten
<1>1. IInv => NothingForgotten
  BY DEF IInv, Handshake
<1> QED BY Invariance, <1>1, PTL

\* GetStatus and Unlock never take a request of ChangeDisplayMode for the one
\* they have seen before, however their reads and writes of refresh_ fall
\* between those of the UI thread, but for one that is written after Unlock has
\* tested refresh_ and before it clears it.
THEOREM NoRefreshIsLost == Spec => []RefreshKept
<1>1. IInv => RefreshKept
  BY DEF IInv, Requests
<1> QED BY Invariance, <1>1, PTL

\* Neither a band shown wrongly nor, but for the race of Unlock, a refresh of
\* the whole image that ChangeDisplayMode asked for is forgotten by UpdateScreen
\* and PaintWindow.
THEOREM RepaintIsKept == Spec => []RepaintKept
<1>1. IInv => RepaintKept
  BY DEF IInv, Handshake, Requests, RepaintKept
<1> QED BY Invariance, <1>1, PTL
====

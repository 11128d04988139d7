---- MODULE Draw ----
(***************************************************************************)
(* How a picture gets from the emulation to the window.  The emulation     *)
(* thread updates the image under the mutex of WinDraw and hands the       *)
(* changed region to the draw thread by a flag, a rectangle and an event,  *)
(* none of them under the mutex; the draw thread paints; the UI thread     *)
(* asks for repaints, changes the display mode and minimises the window.   *)
(* The request to refresh is read and written without the mutex as well,   *)
(* by two threads, so every access to it is a step of its own.             *)
(*                                                                         *)
(* The screen is a number of horizontal bands; a band is stale when the    *)
(* window does not show what the image holds.                              *)
(***************************************************************************)
EXTENDS Naturals

CONSTANT Bands    \* bands of the screen, from top to bottom

ASSUME DrawAssumption == Bands \subseteq Nat

VARIABLES
  hand,        \* where the emulation thread stands in UpdateScreen
  saw,         \* GetStatus found refresh_ set, and means to write 1
  redo,        \* its local refresh
  handing,     \* it hands over the region, not an empty one
  updated,     \* screen_updated_ of PC88
  region,      \* region_ of PC88
  sub,         \* drawsub_ has been made
  active,      \* active_
  refresh,     \* refresh_
  repaint,     \* the display asks for a refresh itself
  palette,     \* a palette change is pending
  draw_all,    \* draw_all_
  drawing,     \* drawing_
  draw_area,   \* draw_area_
  hevredraw,   \* the event is signalled
  painter,     \* where the draw thread stands
  rect,        \* its copy of draw_area_
  whole,       \* it paints the whole window
  ui,          \* the UI thread is in the middle of ChangeDisplayMode
  mtx,         \* owner of the mutex of WinDraw
  stale,       \* history: bands the window shows wrongly
  lost,        \* history: bands handed over to a paint that had begun before
  early,       \* history: the paint began before its area was set
  owed         \* history: a display mode was set that no refresh has seen yet,
               \* or was set between a test of refresh_ and the write it led to

emulation == <<hand, saw, redo, handing, updated, region>>
display == <<sub, active, refresh, repaint, palette, draw_all>>
handover == <<drawing, draw_area, hevredraw>>
thread == <<painter, rect, whole, mtx>>
history == <<stale, lost, early, owed>>
vars == <<emulation, display, handover, thread, ui, history>>

\* A region is a rectangle: it holds the bands in between as well.
Hull(S) == {b \in Bands : \E l, h \in S : l <= b /\ b <= h}

Init ==
  /\ hand = "out"
  /\ saw = FALSE
  /\ redo = FALSE
  /\ handing = FALSE
  /\ updated = FALSE
  /\ region = {}
  /\ sub = FALSE
  /\ active = TRUE
  /\ refresh = 0
  /\ repaint = FALSE
  /\ palette = FALSE
  /\ draw_all = FALSE
  /\ drawing = FALSE
  /\ draw_area = {}
  /\ hevredraw = FALSE
  /\ painter = "starting"
  /\ rect = {}
  /\ whole = FALSE
  /\ ui = "idle"
  /\ mtx = "free"
  /\ stale = {}
  /\ lost = {}
  /\ early = FALSE
  /\ owed = "no"

----------------------------------------------------------------------------
(* The emulation thread: PC88::UpdateScreen, WinDraw::DrawScreen           *)

\* kReadyToDraw
Ready == ~drawing /\ active

\* GetStatus, called at the start of UpdateScreen and before the hand-over,
\* looks whether a refresh was asked for; without a display it says nothing.
LookForRefresh ==
  /\ hand \in {"out", "updated"}
  /\ saw' = (sub /\ refresh > 0)
  /\ hand' = CASE hand = "out" /\ sub -> "status"
               [] hand = "updated" /\ sub -> "ready"
               [] hand = "out" /\ ~sub -> "updated"
               [] OTHER -> "out"
  /\ UNCHANGED <<redo, handing, updated, region, display, handover, thread, ui, history>>

\* It notes that somebody has seen the request, whatever was asked meanwhile.
SeenRefresh == IF saw THEN 1 ELSE refresh

\* kShouldRefresh: refresh_ as it was found before, or as it is by now.
ShouldRefresh(now) == saw \/ (now /\ refresh > 0) \/ repaint

\* UpdateScreen begins: is there anything to do, and may the image be changed?
BeginUpdate(now) ==
  /\ hand = "status"
  /\ refresh' = SeenRefresh
  /\ saw' = FALSE
  /\ redo' = ShouldRefresh(now)
  /\ hand' = IF redo' \/ (~updated /\ Ready) THEN "lock" ELSE "updated"
  /\ owed' = IF redo' /\ owed = "new" THEN "seen" ELSE owed
  /\ UNCHANGED <<handing, updated, region, sub, active, repaint, palette, draw_all,
                 handover, thread, ui, stale, lost, early>>

Lock ==
  /\ hand = "lock"
  /\ mtx = "free"
  /\ mtx' = "emu"
  /\ hand' = "image"
  /\ UNCHANGED <<saw, redo, handing, updated, region, display, handover,
                 painter, rect, whole, ui, history>>

Unlocked == "free"

\* CRTC and Screen bring the image up to date; what they change is added to
\* the region, a refresh redraws everything and sets the palette.  Unlock drops
\* the display's own request and gives the mutex back.
UpdateImage(changed, pal) ==
  /\ hand = "image"
  /\ LET now == IF redo THEN Bands ELSE changed
     IN /\ region' = Hull(region \union now)
        /\ stale' = IF pal THEN Bands ELSE stale \union now
  /\ palette' = (palette \/ pal \/ redo)
  /\ updated' = (pal \/ redo \/ region' # {})
  /\ repaint' = FALSE
  /\ owed' = IF redo /\ owed = "seen" THEN "no" ELSE owed
  /\ mtx' = Unlocked
  /\ hand' = "unlocked"
  /\ UNCHANGED <<saw, redo, handing, sub, active, refresh, draw_all, handover,
                 painter, rect, whole, ui, lost, early>>

\* Mutant: a request made while the image was locked is dropped as well.
AnyRefresh == refresh > 0

\* The request is one that somebody has seen.
RefreshServed == refresh = 1

\* Unlock goes on without the mutex: it tests whether the request was seen ...
TestRefresh ==
  /\ hand = "unlocked"
  /\ hand' = IF RefreshServed THEN "drop" ELSE "updated"
  /\ UNCHANGED <<saw, redo, handing, updated, region, display, handover, thread, ui,
                 history>>

\* ... and drops it, whatever was asked for since the test.
DropRefresh ==
  /\ hand = "drop"
  /\ refresh' = 0
  /\ hand' = "updated"
  /\ UNCHANGED <<saw, redo, handing, updated, region, sub, active, repaint, palette,
                 draw_all, handover, thread, ui, history>>

\* When the draw thread is ready the region is handed over, or an empty one;
\* otherwise it is kept for the next time.
HandOver ==
  /\ hand = "ready"
  /\ refresh' = SeenRefresh
  /\ saw' = FALSE
  /\ handing' = (Ready /\ updated)
  /\ updated' = (updated /\ ~handing')
  /\ hand' = IF Ready THEN "check" ELSE "out"
  /\ UNCHANGED <<redo, region, sub, active, repaint, palette, draw_all,
                 handover, thread, ui, history>>

\* DrawScreen does nothing while a repaint has been asked for.
DrawScreen ==
  /\ hand = "check"
  /\ drawing' = TRUE
  /\ hand' = IF drawing THEN "reset" ELSE "area"
  /\ UNCHANGED <<saw, redo, handing, updated, region, display, draw_area, hevredraw,
                 thread, ui, history>>

SetArea ==
  /\ hand = "area"
  /\ draw_area' = IF handing THEN region ELSE {}
  /\ hand' = "signal"
  /\ UNCHANGED <<saw, redo, handing, updated, region, display, drawing, hevredraw,
                 thread, ui, history>>

Signal ==
  /\ hand = "signal"
  /\ hevredraw' = TRUE
  /\ hand' = "reset"
  /\ UNCHANGED <<saw, redo, handing, updated, region, display, drawing, draw_area,
                 thread, ui, history>>

\* DrawScreen returned; the region that was handed over is forgotten.
EndUpdate ==
  /\ hand = "reset"
  /\ region' = IF handing THEN {} ELSE region
  /\ lost' = IF early THEN lost \union region ELSE lost
  /\ early' = FALSE
  /\ handing' = FALSE
  /\ redo' = FALSE
  /\ hand' = "out"
  /\ UNCHANGED <<saw, updated, display, handover, thread, ui, stale, owed>>

EmuStep ==
  \/ LookForRefresh \/ Lock \/ TestRefresh \/ DropRefresh
  \/ HandOver \/ DrawScreen \/ SetArea \/ Signal \/ EndUpdate
  \/ \E now \in BOOLEAN : BeginUpdate(now)
  \/ \E changed \in SUBSET Bands, pal \in BOOLEAN : UpdateImage(changed, pal)

----------------------------------------------------------------------------
(* The draw thread                                                         *)

\* ThreadInit waits for the event or a second, and drops what was asked for.
StartPainting ==
  /\ painter = "starting"
  /\ hevredraw' = FALSE
  /\ drawing' = FALSE
  /\ lost' = IF drawing THEN lost \union draw_area ELSE lost
  /\ early' = (early \/ hand = "area")
  /\ painter' = "paint"
  /\ UNCHANGED <<emulation, display, draw_area, rect, whole, mtx, ui, stale, owed>>

\* The thread goes on at the event or after a second.
Wake ==
  /\ painter = "wait"
  /\ hevredraw' = FALSE
  /\ painter' = "paint"
  /\ UNCHANGED <<emulation, display, drawing, draw_area, rect, whole, mtx, ui, history>>

\* PaintWindow takes the mutex and copies the rectangle.
BeginPaint ==
  /\ painter = "paint"
  /\ mtx = "free"
  /\ IF drawing /\ sub /\ active
       THEN /\ mtx' = "painter"
            /\ rect' = draw_area
            /\ whole' = (draw_all \/ palette)
            /\ palette' = FALSE
            /\ early' = (early \/ hand = "area")
            /\ painter' = "painting"
       ELSE painter' = "wait" /\ UNCHANGED <<mtx, rect, whole, palette, early>>
  /\ UNCHANGED <<emulation, sub, active, refresh, repaint, draw_all, handover, ui,
                 stale, lost, owed>>

\* Mutant: the flag is left set.
StillDrawing == drawing

DrawingAfterPaint == FALSE

EndPaint ==
  /\ painter = "painting"
  /\ stale' = IF whole THEN {} ELSE stale \ rect
  /\ lost' = IF whole THEN {} ELSE lost \ rect
  /\ draw_all' = FALSE
  /\ drawing' = DrawingAfterPaint
  /\ mtx' = Unlocked
  /\ rect' = {}
  /\ whole' = FALSE
  /\ painter' = "wait"
  /\ UNCHANGED <<emulation, sub, active, refresh, repaint, palette, draw_area,
                 hevredraw, ui, early, owed>>

PaintStep == StartPainting \/ Wake \/ BeginPaint \/ EndPaint

----------------------------------------------------------------------------
(* The UI thread                                                           *)

\* The window was uncovered.
RequestPaint ==
  /\ ui = "idle"
  /\ mtx = "free"
  /\ draw_all' = TRUE
  /\ drawing' = TRUE
  /\ hevredraw' = TRUE
  /\ stale' = Bands
  /\ UNCHANGED <<emulation, sub, active, refresh, repaint, palette, draw_area,
                 thread, ui, lost, early, owed>>

\* The display is made, or a whole paint asked of it, without the mutex.  One
\* that is there goes on showing what it shows.  The request to refresh is
\* written twice; the first write is of a request that counts as seen ...
ChangeDisplayMode ==
  /\ ui = "idle"
  /\ ui' = "mode"
  /\ sub' = TRUE
  /\ repaint' = (repaint \/ ~sub)
  /\ draw_all' = TRUE
  /\ refresh' = 1
  /\ stale' = IF sub THEN stale ELSE Bands
  /\ owed' = "no"
  /\ UNCHANGED <<emulation, active, palette, handover, thread, lost, early>>

\* ... and the second asks for a refresh that nobody has seen yet.
RequestRefresh ==
  /\ ui = "mode"
  /\ ui' = "idle"
  /\ refresh' = 2
  /\ owed' = IF hand = "drop" THEN "raced" ELSE "new"
  /\ UNCHANGED <<emulation, sub, active, repaint, palette, draw_all, handover, thread,
                 stale, lost, early>>

\* The window changes its size: the display asks for a refresh of its own.
Resize ==
  /\ ui = "idle"
  /\ sub
  /\ mtx = "free"
  /\ repaint' = TRUE
  /\ UNCHANGED <<emulation, sub, active, refresh, palette, draw_all, handover,
                 thread, ui, history>>

Activate(b) ==
  /\ ui = "idle"
  /\ active' = b
  /\ UNCHANGED <<emulation, sub, refresh, repaint, palette, draw_all, handover,
                 thread, ui, history>>

Next ==
  \/ EmuStep
  \/ PaintStep
  \/ RequestPaint
  \/ ChangeDisplayMode
  \/ RequestRefresh
  \/ Resize
  \/ \E b \in BOOLEAN : Activate(b)

Spec == Init /\ [][Next]_vars

\* The emulation goes on updating the screen, the draw thread runs, and the UI
\* thread does not stop in the middle of a change of mode.
FairSpec ==
  /\ Spec
  /\ WF_vars(EmuStep) /\ WF_vars(PaintStep) /\ WF_vars(RequestRefresh)
  /\ SF_vars(Lock) /\ SF_vars(BeginPaint)
----------------------------------------------------------------------------
(* Properties                                                              *)

TypeOK ==
  /\ hand \in {"out", "status", "lock", "image", "unlocked", "drop", "updated", "ready",
               "check", "area", "signal", "reset"}
  /\ saw \in BOOLEAN /\ redo \in BOOLEAN /\ handing \in BOOLEAN /\ updated \in BOOLEAN
  /\ region \subseteq Bands /\ draw_area \subseteq Bands /\ rect \subseteq Bands
  /\ sub \in BOOLEAN /\ active \in BOOLEAN /\ repaint \in BOOLEAN
  /\ refresh \in 0 .. 2
  /\ palette \in BOOLEAN /\ draw_all \in BOOLEAN /\ drawing \in BOOLEAN
  /\ hevredraw \in BOOLEAN
  /\ painter \in {"starting", "wait", "paint", "painting"}
  /\ whole \in BOOLEAN
  /\ mtx \in {"free", "emu", "painter"}
  /\ mtx = "emu" <=> hand = "image"
  /\ mtx = "painter" <=> painter = "painting"
  /\ stale \subseteq Bands /\ lost \subseteq Bands
  /\ early \in BOOLEAN
  /\ ui \in {"idle", "mode"}
  /\ owed \in {"no", "new", "seen", "raced"}

\* A whole paint is asked for, or under way.
AllOwed == draw_all \/ palette \/ whole

\* Bands the threads still mean to paint.
Pending ==
  IF AllOwed THEN Bands ELSE region \union (IF drawing THEN draw_area ELSE {})

\* A band the window shows wrongly is always still to be painted, but for a
\* region handed over while a paint was beginning.
NothingForgotten == stale \subseteq Pending \union lost

\* A change of the display mode is not taken for seen before a refresh of the
\* whole image has begun after it.  The code does lose one: a request written
\* between the test and the write of Unlock, which is not "new" but "raced".
RefreshKept == owed = "new" => refresh > 0

\* What must still be painted is not forgotten, neither a band nor, but for that
\* race of Unlock with ChangeDisplayMode, the whole image.
RepaintKept == NothingForgotten /\ RefreshKept

\* A band shown wrongly is painted in the end, if the window is there to be
\* painted and the band was not lost.
Painted ==
  \A b \in Bands : b \in stale ~> (b \notin stale \/ b \in lost \/ ~sub \/ ~active)
====

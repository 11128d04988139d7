---- MODULE DirectSound ----
(***************************************************************************)
(* The two DirectSound drivers.  The device plays a ring of Frames frames  *)
(* over and over; Send fills what it has played since the last time.  A    *)
(* periodic timer calls Send of soundds.cpp, possibly before the last call *)
(* is through; soundds2.cpp has a thread, which the device wakes as it     *)
(* passes the quarters of the ring.  The UI thread closes the driver at    *)
(* any moment, and another program may take the memory of the ring away.   *)
(* A driver is made, opened, closed and deleted; this is one of them.      *)
(*                                                                         *)
(* Positions count frames.  A frame is a number, the order it was taken    *)
(* from the source in; 0 is the silence of a new ring, Lost stands for     *)
(* what nobody has written.                                                *)
(***************************************************************************)
EXTENDS Integers

CONSTANTS
  Frames,     \* frames of the ring
  Quarters,   \* notifications in a turn of the ring, nblocks in the code
  Callbacks,  \* calls of the timer that may overlap
  MaxGot      \* bound on the frames taken from the source

ASSUME DsAssumption == /\ Frames \in Nat /\ Frames > 1
                       /\ Quarters \in 1 .. Frames /\ Callbacks \in Nat \ {0} /\ MaxGot \in Nat

VARIABLES ds, frames
dsvars == <<ds, frames>>

Lost == -1
Positions == 0 .. Frames - 1
Outside == [at |-> "out", len |-> 0, restored |-> FALSE]

\* One thread calls Send of soundds2, any of the callbacks that of soundds.
Caller == IF ds.kind = "notify" THEN {1} ELSE 1 .. Callbacks

DsInit ==
  /\ \E kind \in {"timer", "notify"} :
       ds = [kind |-> kind, ui |-> "off", playing |-> FALSE, sending |-> FALSE, runs |-> FALSE, lost |-> FALSE,
             event |-> FALSE, pos |-> 0, next |-> 0, got |-> 0, fresh |-> 0, last |-> 0,
             caller |-> [c \in 1 .. Callbacks |-> Outside]]
  /\ frames = [i \in Positions |-> 0]

-----------------------------------------------------------------------------
(* Opening and closing, in the UI thread.                                    *)

\* The device of soundds plays before playing_ is set, the timer calls Send from then
\* on; the thread of soundds2 starts before its device plays.
OpenDs ==
  /\ ds.ui = "off"
  /\ ds' = IF ds.kind = "timer" THEN [ds EXCEPT !.ui = "starting", !.runs = TRUE]
           ELSE [ds EXCEPT !.ui = "starting", !.playing = TRUE, !.next = 1, !.event = TRUE]
  /\ UNCHANGED frames
StartPlaying ==
  /\ ds.ui = "starting"
  /\ ds' = IF ds.kind = "timer" THEN [ds EXCEPT !.ui = "on", !.playing = TRUE, !.next = 1]
           ELSE [ds EXCEPT !.ui = "on", !.runs = ~ds.lost]
  /\ UNCHANGED frames

CloseDs ==
  /\ ds.ui = "on" /\ ds' = [ds EXCEPT !.ui = "closing", !.playing = FALSE]
  /\ UNCHANGED frames

\* CleanUp of soundds waits for the end of Send, that of soundds2 for its thread,
\* which it ends by force; either gives up after three seconds.
StopDs ==
  /\ ds.ui = "closing"
  /\ ds' = [ds EXCEPT !.ui = "stopped", !.runs = FALSE,
                      !.caller = IF ds.kind = "notify" THEN [c \in 1 .. Callbacks |-> Outside] ELSE @]
  /\ UNCHANGED frames

-----------------------------------------------------------------------------
(* Send.                                                                     *)

Leave(d, c) == [d EXCEPT !.sending = FALSE, !.caller[c] = Outside]

\* playing_ is read before sending_ is exchanged: CleanUp may come in between.
TimerCalls(c) ==
  /\ ds.kind = "timer" /\ ds.playing /\ ds.caller[c].at = "out"
  /\ ds' = [ds EXCEPT !.caller[c].at = "asked"]
  /\ UNCHANGED frames
\* Mutant: the exchange is left out.
EnterAlways(c) ==
  /\ ds.caller[c].at = "asked"
  /\ ds' = [ds EXCEPT !.sending = TRUE, !.caller[c].at = "in"]
  /\ UNCHANGED frames
Enter(c) ==
  /\ ds.caller[c].at = "asked"
  /\ ds' = IF ds.sending THEN [ds EXCEPT !.caller[c] = Outside] ELSE [ds EXCEPT !.sending = TRUE, !.caller[c].at = "in"]
  /\ UNCHANGED frames

\* The event resets itself; the first call waits for none.
ThreadWakes ==
  /\ ds.kind = "notify" /\ ds.playing /\ ds.event /\ ds.caller[1].at = "out"
  /\ ds' = [ds EXCEPT !.event = FALSE, !.caller[1].at = "in"]
  /\ UNCHANGED frames

Length(play, next) == IF play < next THEN play + Frames - next ELSE play - next

\* A ring that was lost is restored, empty; soundds begins anew at its start,
\* soundds2 goes on where it was.  The device stands where it was or at the start.
Restored(d, pos) == [d EXCEPT !.lost = FALSE, !.pos = pos, !.next = IF d.kind = "timer" THEN 0 ELSE @]
Find(d, c, restored) ==
  LET len == Length(d.pos, d.next)
  IN IF len = 0 THEN Leave(d, c)
     ELSE [d EXCEPT !.caller[c] = [at |-> "found", len |-> len, restored |-> restored]]
Locate(c) ==
  /\ ds.caller[c].at = "in"
  /\ IF ~ds.lost THEN ds' = Find(ds, c, FALSE)
     ELSE \/ ds' = Leave(ds, c)
          \/ \E pos \in {0, ds.pos} : ds' = Find(Restored(ds, pos), c, TRUE)
  /\ UNCHANGED frames

\* Lock fails at the device's will, and while the memory is lost.
Filling(len) ==
  [i \in Positions |->
     LET o == IF i >= ds.next THEN i - ds.next ELSE i + Frames - ds.next
     IN IF o < len THEN ds.got + o + 1 ELSE frames[i]]
Past(next, len) == IF next + len >= Frames THEN next + len - Frames ELSE next + len
WriteFrames(c) ==
  LET len == ds.caller[c].len
  IN /\ ds.caller[c].at = "found" /\ ~ds.lost /\ ds.got + len <= MaxGot
     /\ frames' = Filling(len)
     /\ ds' = Leave([ds EXCEPT !.next = Past(@, len), !.got = @ + len, !.fresh = @ + len,
                               !.runs = @ \/ ds.caller[c].restored], c)
LockFails(c) ==
  /\ ds.caller[c].at = "found" /\ ds' = Leave(ds, c)
  /\ UNCHANGED frames

-----------------------------------------------------------------------------
(* The device.                                                               *)

\* Send is called often enough: the device does not come round to what was
\* written last before the next frames are written.
InTime == ds.fresh = 0 \/ (ds.pos + 1) % Frames # ds.next

DevicePlays ==
  /\ ds.runs /\ InTime
  /\ LET pos == (ds.pos + 1) % Frames
     IN ds' = [ds EXCEPT !.last = frames[ds.pos], !.pos = pos,
                         !.event = @ \/ \E q \in 0 .. Quarters - 1 : pos = (Frames * q) \div Quarters]
  /\ UNCHANGED frames

LoseRing ==
  /\ ds.ui # "off" /\ ~ds.lost
  /\ ds' = [ds EXCEPT !.lost = TRUE, !.runs = FALSE, !.fresh = 0, !.last = Lost]
  /\ frames' = [i \in Positions |-> Lost]

DsNext ==
  \/ OpenDs \/ StartPlaying \/ CloseDs \/ StopDs \/ ThreadWakes \/ DevicePlays \/ LoseRing
  \/ \E c \in Caller : TimerCalls(c) \/ Enter(c) \/ Locate(c) \/ WriteFrames(c) \/ LockFails(c)

DsSpec == DsInit /\ [][DsNext]_dsvars

-----------------------------------------------------------------------------
\* Once the device has played a frame of the source it plays the one after it next:
\* nothing is left out, repeated or overwritten unheard, around the end of the ring,
\* with overlapping calls, after Lock has failed and after the ring was lost, as long
\* as Send is called in time.
HeardInOrder == ds.last >= 1 => frames[ds.pos] = ds.last + 1
====

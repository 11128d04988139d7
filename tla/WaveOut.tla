---- MODULE WaveOut ----
(***************************************************************************)
(* The waveOut driver, soundwo.cpp.  Blocks of sound go round: the device  *)
(* plays them in the order they were written and posts a message for each  *)
(* that is through, the thread of the driver takes the message, fills the  *)
(* block and writes it again.  The UI thread opens the driver, writes the  *)
(* first blocks, and closes it.  A driver is made, opened, closed and      *)
(* deleted; this is one of them.                                           *)
(*                                                                         *)
(* What a block holds is a number, the order it was taken from the source  *)
(* in; 0 is silence.                                                       *)
(***************************************************************************)
EXTENDS Integers, Sequences

CONSTANTS
  Blocks,     \* num_blocks_
  MaxTaken    \* bound on the blocks taken from the source

ASSUME WoAssumption == Blocks \in Nat \ {0} /\ MaxTaken \in Nat

VARIABLES wo, device, inbox
wovars == <<wo, device, inbox>>

Quit == 0   \* WM_QUIT; the other messages are the block that is through
Idle == [at |-> "waiting", block |-> Quit, tries |-> 0]

\* hand: what the thread is at; device: the blocks written, of which the first plays.
WoInit ==
  /\ wo = [ui |-> "off", sent |-> 0, buffers |-> FALSE, open |-> FALSE, silent |-> FALSE,
           hand |-> [Idle EXCEPT !.at = "none"], taken |-> 0]
  /\ device = <<>> /\ inbox = <<>>

Alive == wo.hand.at \notin {"none", "ended"}

\* A message to a thread that has no queue yet, or has none any more, is lost.
Posted(messages) == IF wo.hand.at \in {"none", "starting", "ended"} THEN inbox ELSE inbox \o messages

-----------------------------------------------------------------------------
(* Init, in the UI thread.                                                   *)

MakeBuffers ==
  /\ wo.ui = "off"
  /\ \/ wo' = [wo EXCEPT !.ui = "opening", !.buffers = TRUE, !.hand.at = "starting"]
     \/ wo' = [wo EXCEPT !.ui = "failed"]    \* no thread
  /\ UNCHANGED <<device, inbox>>

OpenDevice ==
  /\ wo.ui = "opening"
  /\ \/ wo' = [wo EXCEPT !.ui = "sending", !.open = TRUE, !.silent = TRUE]
     \/ wo' = [wo EXCEPT !.ui = "failed", !.buffers = FALSE]
  /\ UNCHANGED <<device, inbox>>

\* SendBlock for each block; one the device refuses is not tried again.
SendFirst ==
  /\ wo.ui = "sending" /\ UNCHANGED inbox
  /\ IF wo.sent = Blocks THEN wo' = [wo EXCEPT !.ui = "on", !.silent = FALSE] /\ UNCHANGED device
     ELSE /\ wo' = [wo EXCEPT !.sent = @ + 1]
          /\ \/ device' = Append(device, [block |-> wo.sent + 1, holds |-> 0])
             \/ UNCHANGED device

-----------------------------------------------------------------------------
(* The device and the thread.                                                *)

BlockPlayed ==
  /\ device # <<>> /\ device' = Tail(device) /\ inbox' = Posted(<<Head(device).block>>)
  /\ UNCHANGED wo

ThreadStarts ==
  /\ wo.hand.at = "starting" /\ wo' = [wo EXCEPT !.hand = Idle]
  /\ UNCHANGED <<device, inbox>>

\* GetMessage, and BlockDone unprepares the block.
ThreadTakes ==
  /\ wo.hand.at = "waiting" /\ inbox # <<>> /\ inbox' = Tail(inbox)
  /\ wo' = [wo EXCEPT !.hand = IF Head(inbox) = Quit THEN [Idle EXCEPT !.at = "ended"]
                               ELSE [at |-> "filling", block |-> Head(inbox), tries |-> 2]]
  /\ UNCHANGED device

\* SendBlock fills the block, from the source unless the driver is silent, and writes
\* it; what a block refused held is lost, and after two tries the block itself.
ThreadSends ==
  /\ wo.hand.at = "filling" /\ wo.taken < MaxTaken
  /\ LET taken == IF wo.silent THEN wo.taken ELSE wo.taken + 1
     IN \/ /\ device' = Append(device, [block |-> wo.hand.block, holds |-> IF wo.silent THEN 0 ELSE taken])
           /\ wo' = [wo EXCEPT !.taken = taken, !.hand = Idle]
        \/ /\ wo' = [wo EXCEPT !.taken = taken, !.hand = IF @.tries = 1 THEN Idle ELSE [@ EXCEPT !.tries = 1]]
           /\ UNCHANGED device
  /\ UNCHANGED inbox

-----------------------------------------------------------------------------
(* CleanUp, in the UI thread.                                                *)

CloseWo ==
  /\ wo.ui \in {"on", "failed"}
  /\ wo' = [wo EXCEPT !.ui = "closing"] /\ inbox' = Posted(<<Quit>>)
  /\ UNCHANGED device

\* The thread has ended, or after three seconds is ended wherever it stands.
\* Mutant: it is left alone then.
LeaveThread ==
  /\ wo.ui = "closing" /\ wo' = [wo EXCEPT !.ui = "resetting"]
  /\ UNCHANGED <<device, inbox>>
EndThread ==
  /\ wo.ui = "closing" /\ wo' = [wo EXCEPT !.ui = "resetting", !.hand = [Idle EXCEPT !.at = "ended"]]
  /\ UNCHANGED <<device, inbox>>

\* waveOutReset gives all blocks back.
CloseDevice ==
  /\ wo.ui = "resetting" /\ wo' = [wo EXCEPT !.ui = "freeing", !.open = FALSE]
  /\ device' = <<>> /\ inbox' = Posted([i \in 1 .. Len(device) |-> device[i].block])
FreeBuffers ==
  /\ wo.ui = "freeing" /\ wo' = [wo EXCEPT !.ui = "closed", !.buffers = FALSE]
  /\ UNCHANGED <<device, inbox>>

WoNext ==
  \/ MakeBuffers \/ OpenDevice \/ SendFirst
  \/ BlockPlayed \/ ThreadStarts \/ ThreadTakes \/ ThreadSends
  \/ CloseWo \/ EndThread \/ CloseDevice \/ FreeBuffers

WoSpec == WoInit /\ [][WoNext]_wovars

-----------------------------------------------------------------------------
\* Whoever is slow, refused or ended, a block is in one place at a time, with the UI
\* thread, the device, the messages or the thread, what the device plays comes in the
\* order it was taken from the source, and when the blocks are freed neither the device
\* nor a thread still has one.
Nowhere(b) == (\A i \in 1 .. Len(device) : device[i].block # b) /\ (\A i \in 1 .. Len(inbox) : inbox[i] # b)
OncePlaced ==
  /\ \A i, j \in 1 .. Len(device) : i # j => device[i].block # device[j].block
  /\ \A i, j \in 1 .. Len(inbox) : i # j /\ inbox[i] # Quit => inbox[i] # inbox[j]
  /\ \A i \in 1 .. Len(device), j \in 1 .. Len(inbox) : device[i].block # inbox[j]
  /\ wo.hand.at = "filling" => wo.hand.block <= wo.sent /\ Nowhere(wo.hand.block)
  /\ \A b \in wo.sent + 1 .. Blocks : Nowhere(b)
BlocksInOrder ==
  /\ Alive => OncePlaced
  /\ \A i, j \in 1 .. Len(device) : i < j => device[i].holds = 0 \/ device[i].holds < device[j].holds
  /\ (device # <<>> \/ wo.hand.at = "filling") => wo.buffers /\ wo.open
====

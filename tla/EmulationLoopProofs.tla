---- MODULE EmulationLoopProofs ----
(***************************************************************************)
(* Proofs about the emulation loop, for every limit of skipped frames,     *)
(* every number of messages and of disk operations: the frames are drawn   *)
(* in time, no frame runs on the keys of an earlier one, the loop runs in  *)
(* the mode that is configured, and each mutex is held by the thread that  *)
(* works under it and given back.                                          *)
(***************************************************************************)
EXTENDS EmulationLoop, TLAPS

\* A command of the UI thread goes through its places in order; a snapshot that is
\* being loaded has room for the message it will post.
CommandsInOrder ==
  /\ ui = "loop" => op = "none"
  /\ ui = "config" => op \in {"none", "reset"}
  /\ ui = "want_core" => op \in {"reset", "save", "load"}
  /\ ui = "in_core" => op \in {"reset", "save", "load", "restore", "restored"}
  /\ ui \in {"want_disks", "in_disks"} => op \in {"mount", "restored", "close"} /\ left > 0
  /\ ui \in {"stopping", "gone"} => op = "close"
  /\ op \in {"load", "restore", "restored"} => applies < MaxPosts

\* The mode of the loop differs from the configured one only while a message that
\* tells the new one is waiting or a command that will settle it is under way.
SettingsFollow ==
  applies = 0 /\ ui # "config" /\ op \notin {"restore", "restored"} => legacy = config

\* Each frame since the last screen was skipped, except one that ended in time and
\* had the next one drawn.  A frame that reaches the limit goes to the screen.
FramesCounted ==
  /\ emu = "timed" => mode = "normal"
  /\ emu \notin {"screen", "killed"} \/ (emu = "screen" /\ mode = "burst") => skipped < SkipLimit
  /\ emu \notin {"screen", "killed"} => undrawn <= skipped + (IF draw_next THEN 1 ELSE 0)
  /\ emu = "pace" /\ draw_next => undrawn = 0
  /\ undrawn <= SkipLimit

\* Before a wait has timed out there is one message or one answer, and only while the
\* thread waits for it.
KeysAnswered ==
  ~late /\ emu # "killed" =>
    IF emu = "vsync" THEN \/ posts = 1 /\ ~hevent
                          \/ posts = 0 /\ hevent
    ELSE posts = 0 /\ ~hevent

\* Where each thread works under the mutex of the loop.
EmuHoldsCore == emu \in {"exec", "vsync", "want_disk", "transfer"}
UiHoldsCore == ui = "in_core" \/ (ui \in {"want_disks", "in_disks"} /\ op = "restored")

\* Each mutex has the owner that works under it, until the thread is terminated.
LocksHeld ==
  /\ core = "ui" <=> UiHoldsCore
  /\ emu # "killed" => (core = "emu" <=> EmuHoldsCore)
  /\ disks = "ui" <=> ui = "in_disks"
  /\ emu # "killed" => (disks = "emu" <=> emu = "transfer")

IInv == TypeOK /\ CommandsInOrder /\ SettingsFollow /\ FramesCounted /\ KeysAnswered /\ LocksHeld

LEMMA InitIInv == Init => IInv
<1> SUFFICES ASSUME Init PROVE IInv
  OBVIOUS
<1>1. TypeOK
  <2>1. fast \in BOOLEAN /\ draw_next \in BOOLEAN
    BY DEF Init
  <2>2. active \in BOOLEAN /\ stop_request \in BOOLEAN /\ stopped \in BOOLEAN
    BY DEF Init
  <2>3. hevent \in BOOLEAN /\ late \in BOOLEAN
    BY DEF Init
  <2>4. skipped = 0 /\ undrawn = 0 /\ left = 0 /\ applies = 0 /\ posts = 0
    BY DEF Init
  <2>5. /\ emu = "head" /\ ui = "loop" /\ op = "none" /\ core = "none" /\ disks = "none"
        /\ mode = "normal" /\ legacy = "normal" /\ config = "normal" /\ new_config = "normal"
    BY DEF Init
  <2> QED BY <2>1, <2>2, <2>3, <2>4, <2>5, LoopAssumption DEF TypeOK, Modes
<1>2. CommandsInOrder /\ SettingsFollow /\ FramesCounted
  BY LoopAssumption DEF Init, CommandsInOrder, SettingsFollow, FramesCounted
<1>3. KeysAnswered /\ LocksHeld
  BY DEF Init, KeysAnswered, LocksHeld, EmuHoldsCore, UiHoldsCore
<1> QED BY <1>1, <1>2, <1>3 DEF IInv

\* The steps of the emulation thread.
LEMMA EmuStepKept == ASSUME IInv, EmuStep PROVE IInv'
<1> USE LoopAssumption DEF IInv, TypeOK, CommandsInOrder, SettingsFollow, FramesCounted, KeysAnswered, LocksHeld,
       EmuHoldsCore, UiHoldsCore, frames, commands, settings, keys, thread, Modes
<1>1. CASE Head
  <2>1. /\ emu' \in {"ended", "sync", "nap"} /\ mode' \in Modes /\ stopped' \in BOOLEAN
        /\ UNCHANGED <<fast, draw_next, skipped, undrawn, commands, core, disks, active, stop_request, settings, keys>>
    BY <1>1 DEF Head
  <2>2. TypeOK'
    BY <2>1
  <2>3. CommandsInOrder' /\ SettingsFollow' /\ FramesCounted' /\ KeysAnswered' /\ LocksHeld'
    BY <1>1 DEF Head
  <2> QED BY <2>2, <2>3
<1>2. CASE Nap
  BY <1>2 DEF Nap
<1>3. CASE TimeSync
  BY <1>3 DEF TimeSync
<1>4. CASE LockCore
  BY <1>4 DEF LockCore
<1>5. CASE VSync
  BY <1>5 DEF VSync
<1>6. CASE KeysIn
  <2>1. /\ emu' = "exec" /\ hevent' \in BOOLEAN
        /\ UNCHANGED <<frames, commands, core, disks, thread, settings, posts, late>>
    BY <1>6 DEF KeysIn, EventAfterWait
  <2>2. TypeOK'
    BY <2>1
  <2>3. CommandsInOrder' /\ SettingsFollow' /\ FramesCounted' /\ KeysAnswered' /\ LocksHeld'
    BY <1>6 DEF KeysIn, EventAfterWait
  <2> QED BY <2>2, <2>3
<1>7. CASE KeysTimeout
  BY <1>7 DEF KeysTimeout
<1>8. CASE WantDisk
  BY <1>8 DEF WantDisk
<1>9. CASE LockDisk
  BY <1>9 DEF LockDisk
<1>10. CASE TransferDone
  BY <1>10 DEF TransferDone
<1>11. CASE ExecReturns
  BY <1>11 DEF ExecReturns
<1>12. CASE BurstAgain
  BY <1>12 DEF BurstAgain
<1>13. CASE BurstOver
  BY <1>13 DEF BurstOver
<1>14. CASE Faster
  BY <1>14 DEF Faster
<1>15. CASE Slower
  BY <1>15 DEF Slower, EnoughSkipped
<1>16. CASE ScreenDone
  <2>1. /\ emu' \in {"head", "pace"} /\ undrawn' = 0 /\ skipped' \in {0, skipped} /\ fast' \in BOOLEAN
        /\ UNCHANGED <<mode, draw_next, commands, core, disks, thread, settings, keys>>
    BY <1>16 DEF ScreenDone
  <2>2. TypeOK'
    BY <2>1
  <2>3. CommandsInOrder' /\ SettingsFollow' /\ FramesCounted' /\ KeysAnswered' /\ LocksHeld'
    BY <1>16 DEF ScreenDone
  <2> QED BY <2>2, <2>3
<1>17. ASSUME NEW in_time \in BOOLEAN, Pace(in_time) PROVE IInv'
  BY <1>17 DEF Pace
<1> QED
  BY <1>1, <1>2, <1>3, <1>4, <1>5, <1>6, <1>7, <1>8, <1>9, <1>10, <1>11, <1>12, <1>13, <1>14, <1>15, <1>16, <1>17 DEF EmuStep

\* The commands the UI thread begins.
LEMMA UiCommandKept == ASSUME IInv, UiCommand PROVE IInv'
<1> USE LoopAssumption DEF IInv, TypeOK, CommandsInOrder, SettingsFollow, FramesCounted, KeysAnswered, LocksHeld,
       EmuHoldsCore, UiHoldsCore, frames, commands, settings, keys, thread, Modes
<1>1. CASE SendKeyState
  BY <1>1 DEF SendKeyState
<1>2. CASE Reset
  BY <1>2 DEF Reset
<1>3. CASE M88ApplyConfig
  BY <1>3 DEF M88ApplyConfig
<1>4. CASE Mount
  BY <1>4 DEF Mount
<1>5. CASE Close
  BY <1>5 DEF Close, Asked
<1>6. ASSUME NEW b \in BOOLEAN, Wait(b) PROVE IInv'
  BY <1>6 DEF Wait
<1>7. ASSUME NEW c \in Modes, ChangeConfig(c) PROVE IInv'
  BY <1>7 DEF ChangeConfig
<1>8. ASSUME NEW o \in {"save", "load"}, Snapshot(o) PROVE IInv'
  BY <1>8 DEF Snapshot
<1> QED
  BY <1>1, <1>2, <1>3, <1>4, <1>5, <1>6, <1>7, <1>8 DEF UiCommand

\* The steps of a command under way.
LEMMA UiStepKept == ASSUME IInv, UiStep PROVE IInv'
<1> USE LoopAssumption DEF IInv, TypeOK, CommandsInOrder, SettingsFollow, FramesCounted, KeysAnswered, LocksHeld,
       EmuHoldsCore, UiHoldsCore, frames, commands, settings, keys, thread, Modes
<1>1. CASE ApplyConfig
  BY <1>1 DEF ApplyConfig
<1>2. CASE UiLockCore
  BY <1>2 DEF UiLockCore
<1>3. CASE CommandDone
  BY <1>3 DEF CommandDone, GiveUp, LeaveCore
<1>4. CASE RestoreDisks
  BY <1>4 DEF RestoreDisks
<1>5. CASE RestoreEnds
  BY <1>5 DEF RestoreEnds, LeaveCore, Post
<1>6. CASE UiLockDisk
  BY <1>6 DEF UiLockDisk
<1>7. CASE DiskOpDone
  BY <1>7 DEF DiskOpDone
<1>8. CASE Stopped
  BY <1>8 DEF Stopped
<1>9. ASSUME NEW c \in Modes, RestoreBegins(c) PROVE IInv'
  BY <1>9 DEF RestoreBegins
<1> QED
  BY <1>1, <1>2, <1>3, <1>4, <1>5, <1>6, <1>7, <1>8, <1>9 DEF UiStep

LEMMA NextKept == IInv /\ [Next]_vars => IInv'
<1> SUFFICES ASSUME IInv, [Next]_vars PROVE IInv'
  OBVIOUS
<1>1. CASE StopTimeout
  BY <1>1, LoopAssumption DEF StopTimeout, IInv, TypeOK, CommandsInOrder, SettingsFollow, FramesCounted, KeysAnswered,
     LocksHeld, EmuHoldsCore, UiHoldsCore, frames, settings, keys, thread
<1>2. CASE UNCHANGED vars
  BY <1>2 DEF vars, IInv, TypeOK, CommandsInOrder, SettingsFollow, FramesCounted, KeysAnswered, LocksHeld,
     EmuHoldsCore, UiHoldsCore, frames, commands, settings, keys, thread
<1> QED BY <1>1, <1>2, EmuStepKept, UiCommandKept, UiStepKept DEF Next

\* Every step of either thread keeps the invariant.
THEOREM Inductive == Spec => []IInv
  BY InitIInv, NextKept, PTL DEF Spec

\* No more than SkipLimit frames pass undrawn, however fast and slow ones, burst mode,
\* pauses and the stop of the thread alternate (ExecuteNormal, ExecuteBurst).
THEOREM ScreenIsDrawn == Spec => []DrawnInTime
<1>1. IInv => DrawnInTime
  BY DEF IInv, FramesCounted, DrawnInTime
<1> QED BY <1>1, Inductive, PTL

\* No frame runs on the keys that an earlier one asked for, unless a wait timed out
\* (WinKeyIF::VSync and the answer of the window procedure).
THEOREM KeysAreFresh == Spec => []NoStaleKeys
<1>1. IInv => NoStaleKeys
  BY DEF IInv, TypeOK, KeysAnswered, NoStaleKeys
<1> QED BY <1>1, Inductive, PTL

\* With no command under way and no message waiting the loop runs in the mode that is
\* configured, whatever settings were changed, posted or restored, in any order.
THEOREM ModeIsConfigured == Spec => []ConfigSettled
<1>1. IInv => ConfigSettled
  BY DEF IInv, CommandsInOrder, SettingsFollow, ConfigSettled
<1> QED BY <1>1, Inductive, PTL

\* What the two mutexes do give: until the thread is terminated no slice of the machine
\* runs while the UI thread resets, saves or loads, and no disk is used by both.
Exclusive ==
  emu # "killed" => /\ ~(EmuHoldsCore /\ UiHoldsCore)
                    /\ ~(emu = "transfer" /\ ui = "in_disks")
THEOREM SlicesExclusive == Spec => []Exclusive
<1>1. IInv => Exclusive
  BY DEF IInv, LocksHeld, Exclusive
<1> QED BY <1>1, Inductive, PTL
====

---- MODULE EmulationLoop ----
(***************************************************************************)
(* The emulation thread (EmulationLoop on Threadable) and what the UI      *)
(* thread does to it through WinCore, DiskManager and WinKeyIF: run and    *)
(* pause, configure, reset, save and load a snapshot, mount disks, answer  *)
(* for the keyboard and stop the thread.  Two mutexes are involved: that   *)
(* of the loop (core) and that of the disk manager (disks).                *)
(*                                                                         *)
(* Time is abstracted: where the code compares clocks either outcome may   *)
(* happen.                                                                 *)
(***************************************************************************)
EXTENDS Naturals

CONSTANTS
  SkipLimit,   \* skipped frames after which a slow machine draws, 20 in the code
  MaxPosts,    \* bound on the messages waiting for the UI thread, per kind
  DiskLocks    \* times Unmount and Mount of one command take the disk mutex

ASSUME LoopAssumption ==
  /\ SkipLimit \in Nat \ {0}
  /\ MaxPosts \in Nat \ {0}
  /\ DiskLocks \in Nat \ {0}

VARIABLES
  emu,           \* where the emulation thread stands
  mode,          \* local of ThreadLoop: the speed mode read at the head
  fast,          \* the screen is updated by a frame faster than real time
  draw_next,     \* draw_next_frame_
  skipped,       \* skipped_frames_
  undrawn,       \* history: normal frames since the last UpdateScreen
  ui,            \* where the UI thread stands
  op,            \* the command the UI thread is about
  left,          \* disk operations left of that command
  core,          \* owner of the mutex of the loop
  disks,         \* owner of the mutex of the disk manager
  active,        \* active_
  stop_request,  \* stop_request_
  stopped,       \* stopped_
  legacy,        \* the mode legacy_clocks_per_tick_ asks for
  config,        \* config_ of ConfigService, as far as the mode goes
  new_config,    \* new_config_
  applies,       \* WM_M88_APPLYCONFIG messages posted
  posts,         \* WM_M88_SENDKEYSTATE messages posted
  hevent,        \* the event of WinKeyIF is signalled
  late           \* history: a wait for the keys timed out

frames == <<mode, fast, draw_next, skipped, undrawn>>
commands == <<ui, op, left>>
settings == <<legacy, config, new_config, applies>>
keys == <<posts, hevent, late>>
thread == <<active, stop_request, stopped>>
vars == <<emu, frames, commands, core, disks, thread, settings, keys>>

Modes == {"normal", "burst"}

\* As Init and StartThread leave it; the first ThreadLoop is about to start.
Init ==
  /\ emu = "head"
  /\ mode = "normal"
  /\ fast = FALSE
  /\ draw_next = FALSE
  /\ skipped = 0
  /\ undrawn = 0
  /\ ui = "loop"
  /\ op = "none"
  /\ left = 0
  /\ core = "none"
  /\ disks = "none"
  /\ active = FALSE
  /\ stop_request = FALSE
  /\ stopped = FALSE
  /\ legacy = "normal"
  /\ config = "normal"
  /\ new_config = "normal"
  /\ applies = 0
  /\ posts = 0
  /\ hevent = FALSE
  /\ late = FALSE

----------------------------------------------------------------------------
(* The emulation thread: ThreadMain, ThreadLoop, ExecuteNS                 *)

\* ThreadMain looks for a stop request, ThreadLoop whether it is to run.
Head ==
  /\ emu = "head"
  /\ IF stop_request
       THEN emu' = "ended" /\ stopped' = TRUE /\ UNCHANGED mode
       ELSE /\ emu' = IF active THEN "sync" ELSE "nap"
            /\ mode' = legacy
            /\ UNCHANGED stopped
  /\ UNCHANGED <<fast, draw_next, skipped, undrawn, commands, core, disks,
                 active, stop_request, settings, keys>>

\* The inactive loop sleeps and tries again.
Nap ==
  /\ emu = "nap"
  /\ emu' = "head"
  /\ UNCHANGED <<frames, commands, core, disks, thread, settings, keys>>

\* TimeSync runs on the devices without the mutex.
TimeSync ==
  /\ emu = "sync"
  /\ emu' = "want_core"
  /\ UNCHANGED <<frames, commands, core, disks, thread, settings, keys>>

LockCore ==
  /\ emu = "want_core"
  /\ core = "none"
  /\ core' = "emu"
  /\ emu' = "exec"
  /\ UNCHANGED <<frames, commands, disks, thread, settings, keys>>

\* A vertical retrace inside ProceedNS asks the UI thread for the keys.
VSync ==
  /\ emu = "exec"
  /\ posts < MaxPosts
  /\ posts' = posts + 1
  /\ emu' = "vsync"
  /\ UNCHANGED <<frames, commands, core, disks, thread, settings, hevent, late>>

\* Mutant: the event is not reset by the wait.
EventKept == hevent

EventAfterWait == FALSE

KeysIn ==
  /\ emu = "vsync"
  /\ hevent
  /\ hevent' = EventAfterWait
  /\ emu' = "exec"
  /\ UNCHANGED <<frames, commands, core, disks, thread, settings, posts, late>>

\* Ten milliseconds pass without an answer; the frame goes on with old keys.
KeysTimeout ==
  /\ emu = "vsync"
  /\ ~hevent
  /\ late' = TRUE
  /\ emu' = "exec"
  /\ UNCHANGED <<frames, commands, core, disks, thread, settings, posts, hevent>>

\* The FDC works on a disk under the mutex of the disk manager.
WantDisk ==
  /\ emu = "exec"
  /\ emu' = "want_disk"
  /\ UNCHANGED <<frames, commands, core, disks, thread, settings, keys>>

LockDisk ==
  /\ emu = "want_disk"
  /\ disks = "none"
  /\ disks' = "emu"
  /\ emu' = "transfer"
  /\ UNCHANGED <<frames, commands, core, thread, settings, keys>>

TransferDone ==
  /\ emu = "transfer"
  /\ disks' = "none"
  /\ emu' = "exec"
  /\ UNCHANGED <<frames, commands, core, thread, settings, keys>>

\* ExecuteNS returns.
ExecReturns ==
  /\ emu = "exec"
  /\ core' = "none"
  /\ emu' = IF mode = "burst" THEN "tried" ELSE "timed"
  /\ UNCHANGED <<frames, commands, disks, thread, settings, keys>>

\* ExecuteBurst tries again until a sixtieth of a second has passed ...
BurstAgain ==
  /\ emu = "tried"
  /\ emu' = "want_core"
  /\ UNCHANGED <<frames, commands, core, disks, thread, settings, keys>>

\* ... and then updates the screen.
BurstOver ==
  /\ emu = "tried"
  /\ emu' = "screen"
  /\ UNCHANGED <<frames, commands, core, disks, thread, settings, keys>>

\* ExecuteNormal was faster than real time.
Faster ==
  /\ emu = "timed"
  /\ fast' = draw_next
  /\ emu' = IF draw_next THEN "screen" ELSE "pace"
  /\ UNCHANGED <<mode, draw_next, skipped, undrawn, commands, core, disks, thread, settings, keys>>

\* Mutant: the frame that reaches the limit is skipped as well.
EnoughSkippedLate == skipped + 1 > SkipLimit

EnoughSkipped == skipped + 1 >= SkipLimit

\* ExecuteNormal was slower than real time.
Slower ==
  /\ emu = "timed"
  /\ skipped' = skipped + 1
  /\ IF EnoughSkipped THEN emu' = "screen" /\ UNCHANGED undrawn
     ELSE emu' = "head" /\ undrawn' = undrawn + 1
  /\ UNCHANGED <<mode, fast, draw_next, commands, core, disks, thread, settings, keys>>

\* UpdateScreen runs on the devices without the mutex of the loop.
ScreenDone ==
  /\ emu = "screen"
  /\ undrawn' = 0
  /\ skipped' = IF mode = "burst" THEN skipped ELSE 0
  /\ emu' = IF fast THEN "pace" ELSE "head"
  /\ fast' = FALSE
  /\ UNCHANGED <<mode, draw_next, commands, core, disks, thread, settings, keys>>

\* A fast frame ends: there is time left to sleep and the next frame is drawn,
\* or drawing took too long and it is not.
Pace(in_time) ==
  /\ emu = "pace"
  /\ draw_next' = in_time
  /\ undrawn' = IF ~draw_next /\ in_time THEN undrawn + 1 ELSE undrawn
  /\ emu' = "head"
  /\ UNCHANGED <<mode, fast, skipped, commands, core, disks, thread, settings, keys>>

EmuStep ==
  \/ Head \/ Nap \/ TimeSync \/ LockCore
  \/ VSync \/ KeysIn \/ KeysTimeout
  \/ WantDisk \/ LockDisk \/ TransferDone \/ ExecReturns
  \/ BurstAgain \/ BurstOver \/ Faster \/ Slower \/ ScreenDone
  \/ \E in_time \in BOOLEAN : Pace(in_time)

----------------------------------------------------------------------------
(* The UI thread                                                           *)

\* Wait: the loop is paused or activated.
Wait(b) ==
  /\ ui = "loop"
  /\ active' = b
  /\ UNCHANGED <<emu, frames, commands, core, disks, stop_request, stopped, settings, keys>>

\* The UI answers for the keyboard.
SendKeyState ==
  /\ ui = "loop"
  /\ posts > 0
  /\ posts' = posts - 1
  /\ hevent' = TRUE
  /\ UNCHANGED <<emu, frames, commands, core, disks, thread, settings, late>>

\* A setting is changed from the menu and applied; Reset applies the settings
\* first as well.
ChangeConfig(c) ==
  /\ ui = "loop"
  /\ config' = c
  /\ ui' = "config"
  /\ UNCHANGED <<emu, frames, op, left, core, disks, thread, legacy, new_config, applies, keys>>

Reset ==
  /\ ui = "loop"
  /\ ui' = "config"
  /\ op' = "reset"
  /\ UNCHANGED <<emu, frames, left, core, disks, thread, settings, keys>>

\* The posted configuration is taken over and applied.
M88ApplyConfig ==
  /\ ui = "loop"
  /\ applies > 0
  /\ applies' = applies - 1
  /\ config' = new_config
  /\ ui' = "config"
  /\ UNCHANGED <<emu, frames, op, left, core, disks, thread, legacy, new_config, keys>>

\* WinCore::ApplyConfig runs on the loop and the devices without the mutex.
ApplyConfig ==
  /\ ui = "config"
  /\ legacy' = config
  /\ ui' = IF op = "reset" THEN "want_core" ELSE "loop"
  /\ UNCHANGED <<emu, frames, op, left, core, disks, thread, config, new_config, applies, keys>>

Snapshot(o) ==
  /\ ui = "loop"
  /\ o = "load" => applies < MaxPosts
  /\ ui' = "want_core"
  /\ op' = o
  /\ UNCHANGED <<emu, frames, left, core, disks, thread, settings, keys>>

UiLockCore ==
  /\ ui = "want_core"
  /\ core = "none"
  /\ core' = "ui"
  /\ ui' = "in_core"
  /\ UNCHANGED <<emu, frames, op, left, disks, thread, settings, keys>>

\* LockObj goes out of scope.
LeaveCore ==
  /\ core' = "none"
  /\ ui' = "loop"
  /\ op' = "none"

\* Mutant: a snapshot that cannot be opened leaves the mutex locked.
StillInside == ui' = "loop" /\ op' = "none" /\ UNCHANGED core

GiveUp == LeaveCore

\* Reset and SaveSnapshot are done, or LoadSnapshot finds no usable file.
CommandDone ==
  /\ ui = "in_core"
  /\ op \in {"reset", "save", "load"}
  /\ GiveUp
  /\ UNCHANGED <<emu, frames, left, disks, thread, settings, keys>>

\* LoadSnapshot applies the configuration of the snapshot and resets.
RestoreBegins(c) ==
  /\ ui = "in_core"
  /\ op = "load"
  /\ legacy' = c
  /\ new_config' = c
  /\ op' = "restore"
  /\ UNCHANGED <<emu, frames, ui, left, core, disks, thread, config, applies, keys>>

\* The state was read, and the disks of the snapshot are mounted.
RestoreDisks ==
  /\ ui = "in_core"
  /\ op = "restore"
  /\ ui' = "want_disks"
  /\ left' = DiskLocks
  /\ op' = "restored"
  /\ UNCHANGED <<emu, frames, core, disks, thread, settings, keys>>

\* Mutant: the configuration of the snapshot is not posted.
PostNone(n) == n

Post(n) == n + 1

\* LoadSnapshot ends: restored, or reset once more because the state did not
\* fit; it posts the configuration.
RestoreEnds ==
  /\ ui = "in_core"
  /\ op \in {"restore", "restored"}
  /\ applies' = Post(applies)
  /\ LeaveCore
  /\ UNCHANGED <<emu, frames, left, disks, thread, legacy, config, new_config, keys>>

\* A disk is mounted or taken out from the menu.
Mount ==
  /\ ui = "loop"
  /\ ui' = "want_disks"
  /\ left' = DiskLocks
  /\ op' = "mount"
  /\ UNCHANGED <<emu, frames, core, disks, thread, settings, keys>>

UiLockDisk ==
  /\ ui = "want_disks"
  /\ disks = "none"
  /\ disks' = "ui"
  /\ ui' = "in_disks"
  /\ UNCHANGED <<emu, frames, op, left, core, thread, settings, keys>>

\* One of Unmount and Mount is done with the disk manager.
DiskOpDone ==
  /\ ui = "in_disks"
  /\ disks' = "none"
  /\ left' = left - 1
  /\ IF left > 1 THEN ui' = "want_disks" /\ UNCHANGED op
     ELSE IF op = "restored" THEN ui' = "in_core" /\ UNCHANGED op
     ELSE IF op = "close" THEN ui' = "gone" /\ UNCHANGED op
     ELSE ui' = "loop" /\ op' = "none"
  /\ UNCHANGED <<emu, frames, core, thread, settings, keys>>

Asked == TRUE

\* CleanUpM88: RequestThreadStop asks the thread to stop ...
Close ==
  /\ ui = "loop"
  /\ stop_request' = Asked
  /\ ui' = "stopping"
  /\ op' = "close"
  /\ UNCHANGED <<emu, frames, left, core, disks, active, stopped, settings, keys>>

\* ... waits for it to end, and the destructor of the disk manager unmounts.
Stopped ==
  /\ ui = "stopping"
  /\ emu = "ended"
  /\ ui' = "want_disks"
  /\ left' = DiskLocks
  /\ UNCHANGED <<emu, frames, op, core, disks, thread, settings, keys>>

\* After three seconds the thread is terminated wherever it is, with the
\* mutexes it holds.
StopTimeout ==
  /\ ui = "stopping"
  /\ emu # "ended"
  /\ emu' = "killed"
  /\ ui' = "want_disks"
  /\ left' = DiskLocks
  /\ UNCHANGED <<frames, op, core, disks, thread, settings, keys>>

UiCommand ==
  \/ \E b \in BOOLEAN : Wait(b)
  \/ SendKeyState
  \/ \E c \in Modes : ChangeConfig(c)
  \/ Reset
  \/ M88ApplyConfig
  \/ \E o \in {"save", "load"} : Snapshot(o)
  \/ Mount
  \/ Close

UiStep ==
  \/ ApplyConfig \/ UiLockCore \/ CommandDone
  \/ \E c \in Modes : RestoreBegins(c)
  \/ RestoreDisks \/ RestoreEnds
  \/ UiLockDisk \/ DiskOpDone \/ Stopped

Next == EmuStep \/ UiCommand \/ UiStep \/ StopTimeout

Spec == Init /\ [][Next]_vars

\* Both threads run on.  What is asked for again and again happens at last: a
\* mutex is got that is released again and again, a slice returns and the
\* sixtieth of a second of a burst is over.
Fairness ==
  /\ WF_vars(EmuStep)
  /\ WF_vars(UiStep)
  /\ SF_vars(LockCore \/ LockDisk)
  /\ SF_vars(UiLockCore \/ UiLockDisk)
  /\ SF_vars(ExecReturns)
  /\ SF_vars(BurstOver)

FairSpec == Spec /\ Fairness
----------------------------------------------------------------------------
(* Properties                                                              *)

TypeOK ==
  /\ emu \in {"head", "nap", "sync", "want_core", "exec", "vsync", "want_disk",
              "transfer", "tried", "timed", "screen", "pace", "ended", "killed"}
  /\ mode \in Modes /\ legacy \in Modes /\ config \in Modes /\ new_config \in Modes
  /\ fast \in BOOLEAN /\ draw_next \in BOOLEAN
  /\ skipped \in 0 .. SkipLimit
  /\ undrawn \in Nat
  /\ ui \in {"loop", "config", "want_core", "in_core", "want_disks", "in_disks",
             "stopping", "gone"}
  /\ op \in {"none", "reset", "save", "load", "restore", "restored", "mount", "close"}
  /\ left \in 0 .. DiskLocks
  /\ core \in {"none", "emu", "ui"}
  /\ disks \in {"none", "emu", "ui"}
  /\ active \in BOOLEAN /\ stop_request \in BOOLEAN /\ stopped \in BOOLEAN
  /\ applies \in 0 .. MaxPosts
  /\ posts \in 0 .. MaxPosts
  /\ hevent \in BOOLEAN /\ late \in BOOLEAN

\* An answer of the UI outlives the frame that asked for it only after a wait
\* timed out; until then no frame runs on the keys of the one before.
NoStaleKeys == hevent /\ emu \notin {"vsync", "killed"} => late

\* Once no configuration is waiting in the message queue and no command is
\* under way, the loop runs in the mode the configuration service holds, a
\* loaded snapshot included.
ConfigSettled == ui = "loop" /\ applies = 0 => legacy = config

\* However the frames alternate between fast and slow, no more than SkipLimit
\* of them pass without UpdateScreen, those not counted that overran while
\* nothing was drawn.
DrawnInTime == TypeOK /\ undrawn <= SkipLimit

\* Every frame that was begun ends, whatever the UI thread holds or waits for,
\* unless the thread is terminated.
FrameEnds == emu = "sync" ~> emu \in {"head", "killed"}

\* Every command of the UI thread is carried out.
CommandEnds == ui \in {"config", "want_core"} ~> ui = "loop"

\* The program ends after it was closed, unless the thread was terminated
\* inside the disk manager: its mutex then stays locked.
CloseEnds ==
  ui = "stopping" ~> (ui = "gone" \/ (emu = "killed" /\ disks = "emu"))

\* Neither thread stays in the way of the other for ever: frames end, commands are
\* carried out, the program ends.
NobodyStuck == FrameEnds /\ CommandEnds /\ CloseEnds

\* The comment of LockObj: one of the two threads at a time works on the core.
LoopInCore ==
  emu \in {"sync", "exec", "vsync", "want_disk", "transfer", "screen"}
UiInCore ==
  \/ ui \in {"config", "in_core"}
  \/ ui \in {"want_disks", "in_disks"} /\ op = "restored"
CoreUsedByOne == ~(LoopInCore /\ UiInCore)
====

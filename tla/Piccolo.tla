---- MODULE Piccolo ----
(***************************************************************************)
(* A sound chip in the computer, win32/romeo: the machine writes its       *)
(* registers through OPNIF with the time they are due, Piccolo keeps them  *)
(* in a ring, and a thread of its own passes each to the chip in time.     *)
(* One of three drivers has the chip: ROMEO, a card, where a write is an   *)
(* address and then data; SCCI; and G.I.M.I.C, which is written directly.  *)
(*                                                                         *)
(* Whether a register is due, or too far ahead, is a choice: both threads  *)
(* ask one clock for the time, the machine without the lock.  What a       *)
(* register is set to is left out.  The machine is whoever holds the lock  *)
(* of the core; the settings are applied by the UI thread without it.      *)
(***************************************************************************)
EXTENDS Naturals, Sequences

CONSTANTS
  RingEntries, \* ev_entries_, 16384
  Told,        \* registers the machine writes
  MuteRegs,    \* the registers Mute writes, in order
  NoRegister

Muted == {MuteRegs[i] : i \in 1 .. Len(MuteRegs)}
ASSUME PicAssumption ==
  /\ RingEntries \in Nat \ {0} /\ MuteRegs \in Seq(Muted) /\ MuteRegs # <<>>
  /\ NoRegister \notin Told \union Muted

VARIABLES
  opnif,   \* what OPNIF has, and what the machine is at
  setter,  \* what the UI thread is at
  pic,     \* the driver that was found; avail: avail_; taken: its chip was given away; stop: of its thread
  evring,  \* events_: registers, and where it is read and written
  sender,  \* where the thread of Piccolo stands; it holds mtx_ as it looks and writes
  card     \* the address latched, and the register written last
picvars == <<opnif, setter, pic, evring, sender, card>>

Begin == [i |-> 1, half |-> FALSE]
NoPiccolo == [made |-> FALSE, kind |-> "none", avail |-> 0, taken |-> FALSE, entries |-> 0, stop |-> FALSE]

PicInit ==
  /\ opnif = [use |-> FALSE, piccolo |-> FALSE, chip |-> FALSE, masks |-> [opn |-> "none", ym |-> "none"],
              at |-> "idle", reg |-> NoRegister, mute |-> Begin]
  /\ setter = [at |-> "idle", mute |-> Begin] /\ pic = NoPiccolo
  /\ evring = [cells |-> [k \in 0 .. RingEntries - 1 |-> NoRegister], read |-> 0, write |-> 0]
  /\ sender = "none" /\ card = [latch |-> NoRegister, last |-> NoRegister]

Held == sender \in {"looking", "writing"}
Top == evring.cells[evring.read]
After(k) == (k + 1) % RingEntries
Full == After(evring.write) = evring.read
Popped == [evring EXCEPT !.read = After(@)]
Emptied == [evring EXCEPT !.read = 0, !.write = 0]

\* Mute, a register at a time; on ROMEO each is an address, then data for what is latched.
MutedCard(m) ==
  IF pic.kind # "romeo" THEN [card EXCEPT !.last = MuteRegs[m.i]]
  ELSE IF m.half THEN [card EXCEPT !.last = card.latch]
  ELSE [card EXCEPT !.latch = MuteRegs[m.i]]
MoreMuted(m) == IF pic.kind = "romeo" /\ ~m.half THEN [m EXCEPT !.half = TRUE] ELSE [i |-> m.i + 1, half |-> FALSE]
AllMuted(m) == m.i > Len(MuteRegs)

-----------------------------------------------------------------------------
(* OPNIF::ApplyConfig, in the UI thread.                                     *)

\* A chip that is got plays instead of the emulated ones, of which a YM2608 masks all.
Drivers == {[kind |-> "romeo", avail |-> 1], [kind |-> "gimic", avail |-> 1],
            [kind |-> "gimic", avail |-> 2], [kind |-> "scci", avail |-> 3]}
Got(driver, chip) ==
  [opnif EXCEPT !.use = TRUE, !.piccolo = driver.kind # "none", !.chip = chip,
     !.masks = LET mask == IF driver.avail \in {2, 3} THEN "all" ELSE "most"
               IN IF chip THEN [opn |-> mask, ym |-> mask] ELSE @]

\* The first time the drivers are tried in turn.  One that is found is kept even when its
\* thread cannot be made, and then has no ring.  ROMEO is muted and reset at once.
InitHardware(driver, thread) ==
  /\ ~pic.made
  /\ pic' = [pic EXCEPT !.made = TRUE, !.kind = driver.kind, !.avail = driver.avail,
                        !.taken = driver.kind \in {"romeo", "gimic"}, !.entries = IF thread THEN RingEntries ELSE 0]
  /\ sender' = IF thread THEN "away" ELSE "none"
  /\ card' = IF driver.kind = "romeo" THEN [card EXCEPT !.latch = MuteRegs[Len(MuteRegs)]] ELSE card
  /\ opnif' = Got(driver, driver.kind # "none")

\* Later the same driver is asked for its chip; ROMEO and G.I.M.I.C never give it twice.
AskAgain ==
  /\ pic.made /\ opnif' = Got(pic, pic.kind # "none" /\ ~pic.taken)
  /\ UNCHANGED <<pic, sender, card>>

TurnOn ==
  /\ setter.at = "idle" /\ UNCHANGED <<setter, evring>>
  /\ \/ /\ ~opnif.piccolo
        /\ \/ \E driver \in Drivers, thread \in BOOLEAN : InitHardware(driver, thread)
           \/ InitHardware([kind |-> "none", avail |-> 0], FALSE)
           \/ AskAgain
     \/ opnif.piccolo /\ opnif' = [opnif EXCEPT !.use = TRUE] /\ UNCHANGED <<pic, sender, card>>

\* The chip is muted as it is deleted, while the machine and the ring go on.  Of the two
\* emulated chips the one that is not heard plays again, ymfm's mask stays.
TurnOff ==
  /\ setter.at = "idle" /\ opnif.use
  /\ IF opnif.chip
     THEN opnif' = [opnif EXCEPT !.use = FALSE] /\ setter' = [at |-> "muting", mute |-> Begin]
     ELSE opnif' = [opnif EXCEPT !.use = FALSE, !.piccolo = FALSE] /\ UNCHANGED setter
  /\ UNCHANGED <<pic, evring, sender, card>>
DeleteMutes ==
  /\ setter.at = "muting" /\ ~AllMuted(setter.mute)
  /\ card' = MutedCard(setter.mute) /\ setter' = [setter EXCEPT !.mute = MoreMuted(@)]
  /\ UNCHANGED <<opnif, pic, evring, sender>>
DeleteChip ==
  /\ setter.at = "muting" /\ AllMuted(setter.mute)
  /\ setter' = [setter EXCEPT !.at = "idle"] /\ opnif' = [opnif EXCEPT !.piccolo = FALSE, !.chip = FALSE, !.masks.opn = "none"]
  /\ UNCHANGED <<pic, evring, sender, card>>

-----------------------------------------------------------------------------
(* The machine.                                                              *)

\* WriteData0 and WriteData1 come to a chip that is there.
WriteData(r) ==
  /\ opnif.at = "idle" /\ opnif.use /\ opnif.chip /\ opnif' = [opnif EXCEPT !.at = "writing", !.reg = r]
  /\ UNCHANGED <<setter, pic, evring, sender, card>>

WriteDone == opnif' = [opnif EXCEPT !.at = "idle"]

\* DrvSetReg refuses what is too far ahead, Push what the ring has no room for; nobody
\* hears of either.  Without a ring the place in it is a remainder by zero.
SetReg ==
  /\ opnif.at = "writing" /\ UNCHANGED <<setter, pic, sender>>
  /\ \/ pic.kind = "gimic" /\ WriteDone /\ card' = [card EXCEPT !.last = opnif.reg] /\ UNCHANGED evring
     \/ pic.kind # "gimic" /\ WriteDone /\ UNCHANGED <<evring, card>>
     \/ /\ pic.kind # "gimic" /\ ~Held /\ UNCHANGED card
        /\ IF pic.entries = 0 THEN opnif' = [opnif EXCEPT !.at = "crashed"] /\ UNCHANGED evring
           ELSE /\ WriteDone
                /\ evring' = IF Full THEN evring
                             ELSE [evring EXCEPT !.cells[evring.write] = opnif.reg, !.write = After(@)]

\* The chip was deleted between the look at chip_ and the call.
SetRegOfDeleted ==
  /\ opnif.at = "writing" /\ ~opnif.chip /\ opnif' = [opnif EXCEPT !.at = "crashed"]
  /\ UNCHANGED <<setter, pic, evring, sender, card>>

\* OPNIF::Reset resets a chip that is there, used or not.  ROMEO and G.I.M.I.C give up what
\* the ring holds, and only then ROMEO is muted.  Mutant: the ring is kept.
ResetKeepsRing ==
  /\ opnif.at = "idle" /\ opnif.chip /\ UNCHANGED <<setter, pic, sender, evring>>
  /\ IF pic.kind = "romeo" THEN opnif' = [opnif EXCEPT !.at = "muting", !.mute = Begin] /\ UNCHANGED card
     ELSE card' = [card EXCEPT !.last = NoRegister] /\ UNCHANGED opnif
ResetChip ==
  /\ opnif.at = "idle" /\ opnif.chip /\ UNCHANGED <<setter, pic, sender>>
  /\ IF pic.kind = "scci" THEN UNCHANGED evring ELSE ~Held /\ evring' = Emptied
  /\ IF pic.kind = "romeo" THEN opnif' = [opnif EXCEPT !.at = "muting", !.mute = Begin] /\ UNCHANGED card
     ELSE card' = [card EXCEPT !.last = NoRegister] /\ UNCHANGED opnif
ResetMutes ==
  /\ opnif.at = "muting" /\ ~AllMuted(opnif.mute)
  /\ card' = MutedCard(opnif.mute) /\ opnif' = [opnif EXCEPT !.mute = MoreMuted(@)]
  /\ UNCHANGED <<setter, pic, evring, sender>>
ResetCard ==
  /\ opnif.at = "muting" /\ AllMuted(opnif.mute)
  /\ card' = [card EXCEPT !.last = NoRegister] /\ WriteDone
  /\ UNCHANGED <<setter, pic, evring, sender>>

-----------------------------------------------------------------------------
(* The thread of Piccolo.                                                    *)

\* Look again after a millisecond, unless it is to stop.
SenderLooks ==
  /\ sender = "away" /\ sender' = IF pic.stop THEN "ended" ELSE "looking"
  /\ UNCHANGED <<opnif, setter, pic, evring, card>>

\* A register that is due is written, and only then leaves the ring.
SendDue ==
  /\ sender = "looking" /\ evring.read # evring.write /\ ~pic.stop
  /\ IF pic.kind = "romeo" THEN sender' = "writing" /\ card' = [card EXCEPT !.latch = Top] /\ UNCHANGED evring
     ELSE card' = [card EXCEPT !.last = Top] /\ evring' = Popped /\ UNCHANGED sender
  /\ UNCHANGED <<opnif, setter, pic>>
SendData ==
  /\ sender = "writing" /\ sender' = "looking"
  /\ card' = [card EXCEPT !.last = card.latch] /\ evring' = Popped
  /\ UNCHANGED <<opnif, setter, pic>>
SenderWaits ==
  /\ sender = "looking" /\ sender' = "away"
  /\ UNCHANGED <<opnif, setter, pic, evring, card>>

-----------------------------------------------------------------------------
(* The end: the machine has stopped, and OPNIF::CleanUp deletes the driver,  *)
(* not the chip, which is not muted.                                         *)

MachineEnds ==
  /\ opnif.at = "idle" /\ opnif' = [opnif EXCEPT !.at = "ended"]
  /\ UNCHANGED <<setter, pic, evring, sender, card>>
DeleteInstance ==
  /\ setter.at = "idle" /\ opnif.at = "ended"
  /\ setter' = [setter EXCEPT !.at = "ending"] /\ pic' = [pic EXCEPT !.stop = TRUE]
  /\ UNCHANGED <<opnif, evring, sender, card>>
\* The thread has stopped, or after three seconds is ended wherever it stands.
SenderStopped ==
  /\ setter.at = "ending" /\ setter' = [setter EXCEPT !.at = "gone"] /\ sender' = IF sender = "none" THEN "none" ELSE "ended"
  /\ UNCHANGED <<opnif, pic, evring, card>>

PicNext ==
  \/ TurnOn \/ TurnOff \/ DeleteMutes \/ DeleteChip
  \/ \E r \in Told : WriteData(r)
  \/ SetReg \/ SetRegOfDeleted \/ ResetChip \/ ResetMutes \/ ResetCard
  \/ SenderLooks \/ SendDue \/ SendData \/ SenderWaits
  \/ MachineEnds \/ DeleteInstance \/ SenderStopped

PicSpec == PicInit /\ [][PicNext]_picvars

-----------------------------------------------------------------------------
(* What the chip is promised: see RegisterLine.                              *)

Waiting(e) == IF e.write >= e.read THEN e.write - e.read ELSE e.write + RingEntries - e.read
Place(e, k) == IF e.read + k < RingEntries THEN e.read + k ELSE e.read + k - RingEntries
Contents(e) == [k \in 1 .. Waiting(e) |-> e.cells[Place(e, k - 1)]]

\* Nothing is promised while the chip is muted for its deletion, and on ROMEO afterwards:
\* the ring is not emptied, and address and data of two threads may mix.
LetGo == setter.at = "muting" \/ (pic.kind = "romeo" /\ ~opnif.chip)
Way == IF pic.kind = "gimic" THEN "direct" ELSE IF LetGo THEN "mixed" ELSE "queued"

Line == INSTANCE RegisterLine WITH line <- Contents(evring), last <- card.last, way <- Way, Capacity <- RingEntries - 1

\* However the machine, the settings and the thread interleave, what is told comes to the
\* chip in order, once and to its own register, and a mute never between.
HeardAsTold == Line!RlSpec
====

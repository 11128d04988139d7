---- MODULE SoundDrivers ----
(***************************************************************************)
(* The choice of the sound driver, winsound.cpp, with what the ASIO driver *)
(* keeps outside of its objects, sound_asio.cpp, and the recording to a    *)
(* file.  The UI thread changes the settings and starts and ends a         *)
(* recording, the thread of the driver that sounds takes samples through   *)
(* SoundDumpPipe, which copies them to the file.  What a driver does with  *)
(* them is in DirectSound and WaveOut, the ring they come from in          *)
(* SoundBuffer.                                                            *)
(***************************************************************************)
EXTENDS Integers, Sequences

CONSTANTS
  SoundRates,   \* sound_output_hz with sound_buffer_ms
  OffRates,     \* those below 8000 of them
  MaxDrivers,   \* bound: drivers made
  MaxRecordings \* bound: recordings started

ASSUME SdAssumption == /\ SoundRates \subseteq Nat \ {0} /\ OffRates \subseteq SoundRates
                       /\ MaxDrivers \in Nat /\ MaxRecordings \in Nat

VARIABLES ws,    \* WinSound: what the UI thread is at, the settings and the driver
          out,   \* devices: ids of the drivers whose device plays; asio: the device of ASIO
          rec    \* the recording, and where the thread of the driver is in Get
sdvars == <<ws, out, rec>>

\* The order they are tried in; "auto" stands for the first, and for none after the last.
Fallback == [auto |-> "asio", asio |-> "notify", notify |-> "timer", timer |-> "wave", wave |-> "auto"]
Kinds == {"asio", "notify", "timer", "wave"}
NoDriver == [kind |-> "none", id |-> 0]

SdInit ==
  /\ ws = [at |-> "idle", rate |-> 0, type |-> "auto", next |-> "auto", ring |-> 0, enabled |-> FALSE,
           driver |-> NoDriver, made |-> 0]
  /\ out = [devices |-> {}, asio |-> [self |-> 0, runs |-> FALSE]]
  /\ rec = [state |-> "IDLE", open |-> FALSE, rate |-> 0, started |-> 0, at |-> "out"]

-----------------------------------------------------------------------------
(* The drivers.                                                              *)

\* DriverASIO::CleanUp stops nothing, its destructor does.
CleanUpDriver(o, d) == IF d.kind = "asio" THEN o ELSE [o EXCEPT !.devices = @ \ {d.id}]
DeleteDriver(o, d) == IF d.kind = "asio" THEN [o EXCEPT !.asio.runs = FALSE] ELSE CleanUpDriver(o, d)

\* Init: the device plays, or not.  ASIO fails before or after it has named its object.
Started(o, d) ==
  IF d.kind = "asio" THEN [o EXCEPT !.asio = [self |-> d.id, runs |-> TRUE]] ELSE [o EXCEPT !.devices = @ \union {d.id}]
Refused(o, d) == {o} \union (IF d.kind = "asio" THEN {[o EXCEPT !.asio.self = d.id]} ELSE {})

\* The new driver is made, and the old one is deleted as it takes its place.
\* Mutant: the old one is deleted when the new one is open.
DeletedLate(o, old, d) == DeleteDriver(Started(o, d), old)
Replaced(o, old, d) == Started(DeleteDriver(o, old), d)

-----------------------------------------------------------------------------
(* ChangeRate, in the UI thread.                                             *)

Recording == rec.state # "IDLE"

\* The same settings change nothing, and none change while a recording is on.  The ring
\* is replaced, and stays when sound is off; then the driver may stay as well, at rest.
ChangeDriver(rate, type) ==
  /\ ws.at = "idle" /\ ~(ws.rate = rate /\ ws.type = type) /\ ~Recording
  /\ out' = CleanUpDriver(out, ws.driver)
  /\ LET off == rate \in OffRates
         stays == off /\ ws.driver # NoDriver /\ ws.type = type
     IN ws' = [ws EXCEPT !.rate = rate, !.ring = IF off THEN @ ELSE rate, !.enabled = ~off,
                         !.next = IF type = "auto" THEN Fallback["auto"] ELSE type, !.at = IF stays THEN "idle" ELSE "trying"]
  /\ UNCHANGED rec

TryDriver ==
  /\ ws.at = "trying" /\ ws.next # "auto" /\ ws.made < MaxDrivers
  /\ LET d == [kind |-> ws.next, id |-> ws.made + 1]
         new == [ws EXCEPT !.made = @ + 1]
     IN \/ /\ out' = Replaced(out, ws.driver, d)
           /\ ws' = [new EXCEPT !.driver = d, !.type = d.kind, !.at = "idle"]
        \/ /\ \E o \in Refused(DeleteDriver(out, ws.driver), d) : out' = DeleteDriver(o, d)
           /\ ws' = [new EXCEPT !.driver = NoDriver, !.next = Fallback[d.kind]]
  /\ UNCHANGED rec

GiveUp ==
  /\ ws.at = "trying" /\ ws.next = "auto" /\ ws' = [ws EXCEPT !.enabled = FALSE, !.at = "idle"]
  /\ UNCHANGED <<out, rec>>

-----------------------------------------------------------------------------
(* SoundDumpPipe: the recording.                                             *)

DumpStart ==
  /\ ws.at = "idle" /\ ~Recording /\ rec.started < MaxRecordings
  /\ rec' = [rec EXCEPT !.state = "STANDBY", !.open = TRUE, !.rate = ws.ring, !.started = @ + 1]
  /\ UNCHANGED <<ws, out>>

\* The state is set before the lock is taken, so that the thread may be in Dump.  The
\* length of the recording is divided by its rate, 0 if there has never been a ring.
DumpStop ==
  /\ ws.at = "idle" /\ Recording
  /\ ws' = [ws EXCEPT !.at = "stopping"] /\ rec' = [rec EXCEPT !.state = "IDLE"]
  /\ UNCHANGED out
CloseFile ==
  /\ ws.at = "stopping" /\ rec.at \notin {"silent", "sound"}
  /\ ws' = [ws EXCEPT !.at = IF rec.rate = 0 THEN "crashed" ELSE "idle"] /\ rec' = [rec EXCEPT !.open = FALSE]
  /\ UNCHANGED out

\* Get, of the thread of a device that plays: samples are taken, then the lock.
Sounds == out.devices # {} \/ out.asio.runs
TakeSamples ==
  /\ Sounds /\ rec.at = "out" /\ Recording /\ rec' = [rec EXCEPT !.at = "taken"]
  /\ UNCHANGED <<ws, out>>
EnterDump ==
  /\ rec.at = "taken"
  /\ rec' = [rec EXCEPT !.at = CASE rec.state = "IDLE" -> "out" [] rec.state = "STANDBY" -> "silent" [] OTHER -> "sound"]
  /\ UNCHANGED <<ws, out>>
\* The silence before the first sound is left out.
LeaveDump ==
  /\ rec.at \in {"silent", "sound"}
  /\ \/ rec' = [rec EXCEPT !.at = "out"]
     \/ rec.at = "silent" /\ rec' = [rec EXCEPT !.at = "out", !.state = "DUMPING"]
  /\ UNCHANGED <<ws, out>>

SdNext ==
  \/ \E rate \in SoundRates, type \in Kinds \union {"auto"} : ChangeDriver(rate, type)
  \/ TryDriver \/ GiveUp \/ DumpStart \/ DumpStop \/ CloseFile
  \/ TakeSamples \/ EnterDump \/ LeaveDump

SdSpec == SdInit /\ [][SdNext]_sdvars

-----------------------------------------------------------------------------
\* Whatever was tried, refused, kept or switched off before, no device plays but that of
\* the driver there is, ASIO calls no driver that is gone, the driver is of the kind that
\* later changes are compared with, it plays if sound is on, and what is recorded is at
\* the rate its file says.
DriverAsTold ==
  /\ out.devices \subseteq {ws.driver.id}
  /\ out.asio.runs => ws.driver = [kind |-> "asio", id |-> out.asio.self]
  /\ ws.driver # NoDriver => ws.driver.kind = ws.type
  /\ (ws.at = "idle" /\ ws.enabled) => ws.driver # NoDriver /\ (ws.driver.id \in out.devices \/ out.asio.runs)
  /\ (Recording /\ rec.open) => rec.rate = ws.ring
====

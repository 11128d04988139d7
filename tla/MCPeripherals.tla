---- MODULE MCPeripherals ----
(***************************************************************************)
(* The two CPUs under the scheduler, the CD-ROM interface with the thread  *)
(* of its drive, the sound drivers and the sound chip in the computer      *)
(* share a run: each stands for itself, so a behaviour is one of what part *)
(* names, and the others rest in an initial state of their own.            *)
(***************************************************************************)
EXTENDS MCExecution, CDIF, DirectSound, WaveOut, SoundDrivers, Piccolo

VARIABLE part

MCMuteRegs == <<3, 4>>

XRests == cpu_clock = 1 /\ cpu_mode = [ms21 |-> FALSE, stopwhenidle |-> FALSE]
DsRests == ds.kind = "timer"

MCInit ==
  /\ XInit /\ CdInit /\ DsInit /\ WoInit /\ SdInit /\ PicInit
  /\ \/ part = "cpus" /\ DsRests
     \/ part \in {"cd", "waveOut", "drivers", "piccolo"} /\ XRests /\ DsRests
     \/ part = "directSound" /\ XRests

MCNext ==
  \/ part = "cpus" /\ XNext /\ UNCHANGED <<part, cdvars, dsvars, wovars, sdvars, picvars>>
  \/ part = "cd" /\ CdNext /\ UNCHANGED <<part, xvars, dsvars, wovars, sdvars, picvars>>
  \/ part = "directSound" /\ DsNext /\ UNCHANGED <<part, xvars, cdvars, wovars, sdvars, picvars>>
  \/ part = "waveOut" /\ WoNext /\ UNCHANGED <<part, xvars, cdvars, dsvars, sdvars, picvars>>
  \/ part = "drivers" /\ SdNext /\ UNCHANGED <<part, xvars, cdvars, dsvars, wovars, picvars>>
  \/ part = "piccolo" /\ PicNext /\ UNCHANGED <<part, xvars, cdvars, dsvars, wovars, sdvars>>

MCSpec == MCInit /\ [][MCNext]_<<part, xvars, cdvars, dsvars, wovars, sdvars, picvars>>
====

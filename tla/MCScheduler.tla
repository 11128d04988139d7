---- MODULE MCScheduler ----
(* Scheduler with two devices on a table of three slots.  Stop can make the
   reading of GetNS negative by more than the shortest delay. *)
EXTENDS Scheduler

CONSTANTS d1, d2

MCDevices == {d1, d2}
MCReadings == {-3, 0}
====

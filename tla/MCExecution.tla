---- MODULE MCExecution ----
(* Execution with one device, one slot and a clock that does not divide the
   second: 2 clocks in 5 units of time. *)
EXTENDS Execution

CONSTANTS d1

MCDevices == {d1}
MCReadings == -100 .. 100
AllModes == [ms21 : BOOLEAN, stopwhenidle : BOOLEAN]
Mode21Idle == {[ms21 |-> TRUE, stopwhenidle |-> TRUE]}
Mode11 == {[ms21 |-> FALSE, stopwhenidle |-> FALSE]}
====

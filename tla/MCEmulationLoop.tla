---- MODULE MCEmulationLoop ----
(* Every second slow frame is drawn; one message of a kind waits at a time. *)
EXTENDS EmulationLoop
====

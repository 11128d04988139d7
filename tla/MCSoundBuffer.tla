---- MODULE MCSoundBuffer ----
(* A filter of three taps on rings of five and six cells. *)
EXTENDS SoundBuffer

MCRatios == {[ic |-> 2, oc |-> 3], [ic |-> 3, oc |-> 2]}
====

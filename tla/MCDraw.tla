---- MODULE MCDraw ----
(* A screen of two bands. *)
EXTENDS Draw
====

---- MODULE RegisterLine ----
(***************************************************************************)
(* What a sound chip in the computer is promised by its driver: the        *)
(* registers the machine writes stand in line, and the chip hears them in  *)
(* that order, each once.  The chip is muted only when nobody stands in    *)
(* line.  The line may be full, may refuse, and may be given up as a       *)
(* whole.  Once the chip is being let go nothing is promised any more.     *)
(***************************************************************************)
EXTENDS Naturals, Sequences

CONSTANTS Told,       \* the registers the machine writes
          Muted,      \* those a mute writes
          NoRegister, \* none since the chip was reset
          Capacity    \* how many may stand in line

VARIABLES line, \* the registers written and not yet heard
          last, \* the register the chip heard last
          way   \* "queued", "direct" past the line, or "mixed" from when the chip is let go
rlvars == <<line, last, way>>

RlInit == line = <<>> /\ last = NoRegister /\ way = "queued"

Tell(r) ==
  /\ way = "queued" /\ Len(line) < Capacity /\ line' = Append(line, r)
  /\ UNCHANGED <<last, way>>

Hear ==
  /\ way = "queued" /\ line # <<>> /\ last' = Head(line) /\ line' = Tail(line)
  /\ UNCHANGED way

TellDirectly(r) ==
  /\ way = "direct" /\ line = <<>> /\ last' = r
  /\ UNCHANGED <<line, way>>

Mute(r) ==
  /\ way # "mixed" /\ line = <<>> /\ last' = r
  /\ UNCHANGED <<line, way>>

Forget == line' = <<>> /\ UNCHANGED <<last, way>>
Restart == last' = NoRegister /\ UNCHANGED <<line, way>>

\* The line still loses nobody but the first, or all.
Mix ==
  /\ way = "mixed" /\ last' \in Told \union Muted \union {NoRegister}
  /\ \/ UNCHANGED line
     \/ line # <<>> /\ line' = Tail(line)
     \/ Len(line) < Capacity /\ \E r \in Told : line' = Append(line, r)
  /\ UNCHANGED way

ChangeWay == way' \in {"queued", "direct", "mixed"} /\ UNCHANGED <<line, last>>

RlNext ==
  \/ \E r \in Told : Tell(r) \/ TellDirectly(r)
  \/ \E r \in Muted : Mute(r)
  \/ Hear \/ Forget \/ Restart \/ Mix \/ ChangeWay

RlSpec == RlInit /\ [][RlNext]_rlvars
====

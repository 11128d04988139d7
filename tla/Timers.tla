---- MODULE Timers ----
(***************************************************************************)
(* What the scheduler of M88 promises the devices that use it, without     *)
(* slots, slices or scanning order.  A device that arms a timer is given a *)
(* handle to it.  When time advances, the timers that have come due become *)
(* owed, and time does not advance again until every owed timer has fired, *)
(* has been re-armed or has been cancelled.  Nothing else fires.           *)
(*                                                                         *)
(* A handle is good for ever and for whatever timer has its identity: the  *)
(* device that keeps it can re-arm or cancel what belongs to another one   *)
(* by now, and a timer re-armed by the handle of one that is gone may be   *)
(* lost.  It can do no more than that: to any timer it has no handle of,   *)
(* and when it cancels all of its own, a device does nothing to others.    *)
(***************************************************************************)
EXTENDS Integers

CONSTANTS
  Ids,        \* identities of timers
  Owners,     \* the devices
  NoOwner     \* marks a timer that is not armed

VARIABLES
  now,        \* virtual time
  pending,    \* [Ids -> [owner, due, period]]; period 0 is a one-shot timer
  owed,       \* timers that must fire before time advances again
  held,       \* the handle each device keeps, if any: the last it was given
  lost        \* timers that never fire

tvars == <<now, pending, owed, held, lost>>

Armed(id) == pending[id].owner # NoOwner

TimersInit ==
  /\ now = 0
  /\ \A id \in Ids : ~Armed(id)
  /\ owed = {}
  /\ \A d \in Owners : held[d] \notin Ids
  /\ lost = {}

OthersKept(ids) == \A o \in Ids \ ids : pending'[o] = pending[o]

\* A device arms a timer nobody uses, or one that is lost, and holds it.
Arm(d, id) ==
  /\ ~Armed(id) \/ id \in lost
  /\ pending'[id].owner = d
  /\ OthersKept({id})
  /\ owed' = owed \ {id}
  /\ held' = [held EXCEPT ![d] = id]
  /\ lost' = lost \ {id}
  /\ UNCHANGED now

\* A device arms a timer by its handle; only one that was not armed can get lost.
Rearm(d, id) ==
  /\ id = held[d]
  /\ pending'[id].owner = d
  /\ OthersKept({id})
  /\ owed' = owed \ {id}
  /\ lost' = lost \/ (~Armed(id) /\ lost' = lost \union {id})
  /\ UNCHANGED <<now, held>>

\* A device cancels a timer by its handle.
Discard(d, id) ==
  /\ id = held[d]
  /\ pending'[id].owner = NoOwner
  /\ OthersKept({id})
  /\ owed' = owed \ {id}
  /\ lost' = lost \ {id}
  /\ UNCHANGED <<now, held>>

Own(d) == {id \in Ids : pending[id].owner = d /\ id \notin lost}

\* A device cancels all of its timers, and nobody else's.
CancelAll(d) ==
  /\ \A id \in Own(d) : pending'[id].owner = NoOwner
  /\ OthersKept(Own(d))
  /\ owed' = owed \ Own(d)
  /\ UNCHANGED <<now, held, lost>>

\* Time advances once nothing is owed; what has come due is owed from then on.
Advance ==
  /\ owed = {}
  /\ now' > now
  /\ owed' = {id \in Ids : Armed(id) /\ pending[id].due <= now' /\ id \notin lost}
  /\ UNCHANGED <<pending, held, lost>>

\* An owed timer fires: a one-shot is disarmed, a repeating one moves on by
\* its period.
Fire(id) ==
  /\ id \in owed
  /\ IF pending[id].period = 0
       THEN pending'[id].owner = NoOwner
       ELSE pending'[id] = [pending[id] EXCEPT !.due = @ + pending[id].period]
  /\ OthersKept({id})
  /\ owed' = owed \ {id}
  /\ UNCHANGED <<now, held, lost>>

TimersNext ==
  \/ \E d \in Owners, id \in Ids : Arm(d, id) \/ Rearm(d, id) \/ Discard(d, id)
  \/ \E d \in Owners : CancelAll(d)
  \/ Advance
  \/ \E id \in Ids : Fire(id)

TimersSpec == TimersInit /\ [][TimersNext]_tvars
====

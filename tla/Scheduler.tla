---- MODULE Scheduler ----
(***************************************************************************)
(* The virtual-time scheduler of the emulator: a table of kMaxEvents event *)
(* slots, the highest used index evlast, and ProceedNS, which runs the     *)
(* CPUs slice by slice up to the earliest event and then fires the events  *)
(* that have come due.                                                     *)
(*                                                                         *)
(* The class is abstract in the code: ExecuteNS, ShortenNS and GetNS are   *)
(* pure virtual.  Here the running CPU is an environment that executes for *)
(* some time, lets devices call the scheduler, and shows some reading of   *)
(* GetNS; module Execution supplies the two Z80s.                          *)
(***************************************************************************)
EXTENDS Integers

CONSTANTS
  MaxEvents,     \* kMaxEvents, size of the slot table
  Devices,       \* the IDevice instances that own events
  NoDevice,      \* the null inst of a free slot
  Delays,        \* delays a device may ask for, ns
  Lengths,       \* lengths ProceedNS is called with, ns
  CpuReadings,   \* values GetNS may show while the CPUs execute
  Overrun,       \* how far ExecuteNS may run past what it was asked, ns
  TickNS,        \* kNanoSecsPerTick
  MaxTime        \* bound on virtual time

ASSUME SchedulerAssumption ==
  /\ MaxEvents \in Nat \ {0}
  /\ NoDevice \notin Devices
  /\ Delays \subseteq Nat \ {0}
  /\ Lengths \subseteq Nat \ {0}
  /\ CpuReadings \subseteq Int
  /\ Overrun \in Nat
  /\ TickNS \in Nat \ {0}
  /\ MaxTime \in Nat

Slots == 0 .. MaxEvents - 1

VARIABLES
  events,        \* [Slots -> event]
  evlast,        \* evlast_, the highest slot in use, or -1
  time_ns,       \* time_ns_, the virtual time at the start of the slice
  endtime_ns,    \* endtime_ns_, where the current slice is due to end
  pc,            \* where ProceedNS stands
  t_ns,          \* time ProceedNS still has to run
  ptime_ns,      \* length asked of ExecuteNS for the current slice
  i,             \* the slots 0..i are still to be looked at by the firing loop
  cpu_ns,        \* GetNS(): progress of the current CPU within the slice
  handle,        \* the Event* each device keeps: its last one, or -1 for none
  strayed        \* history: slots armed by an old handle above evlast

table == <<events, evlast, handle, strayed>>
vars == <<table, time_ns, endtime_ns, pc, t_ns, ptime_ns, i, cpu_ns>>

FreeEvent == [inst |-> NoDevice, count_ns |-> 0, time_ns |-> 0, time |-> 0]

Event == [inst : Devices \union {NoDevice}, count_ns : Int, time_ns : Int,
          time : Nat]

Live(s) == events[s].inst # NoDevice

Init ==
  /\ events = [s \in Slots |-> FreeEvent]
  /\ evlast = -1
  /\ time_ns = 0
  /\ endtime_ns = 0
  /\ pc = "idle"
  /\ t_ns = 0
  /\ ptime_ns = 0
  /\ i = -1
  /\ cpu_ns = 0
  /\ handle = [d \in Devices |-> -1]
  /\ strayed = {}

----------------------------------------------------------------------------
(* Calls a device makes: from an I/O instruction of a CPU during a slice,  *)
(* from the callback of the device whose event has fired, and from the     *)
(* user interface, which waits for the end of ProceedNS in some menus and  *)
(* does not in others (a tape is opened without the lock of the core).     *)

GetTimeNS == time_ns + cpu_ns

\* The interval of a repeating event, as SetEventNS stores it.
StoredInterval(due, ns) == due

\* The interval in ticks kept beside it.
Ticks(ns) == IF ns < TickNS THEN 1 ELSE ns \div TickNS

\* SetEventNS on slot s; an event before the end of the slice asks the CPUs
\* to stop early, which changes the reading of GetNS.
Store(s, d, ns, repeat) ==
  LET due == GetTimeNS + ns IN
  /\ events' = [events EXCEPT ![s] =
        [inst |-> d, count_ns |-> due,
         time_ns |-> IF repeat THEN StoredInterval(due, ns) ELSE 0,
         time |-> IF repeat THEN Ticks(ns) ELSE 0]]
  /\ IF endtime_ns > due
       THEN /\ endtime_ns' = due
            /\ cpu_ns' \in CpuReadings
       ELSE UNCHANGED <<endtime_ns, cpu_ns>>

\* The first free slot up to evlast, or the one after it.
IsFirstFree(s) ==
  /\ s \in 0 .. evlast + 1
  /\ s <= evlast => ~Live(s)
  /\ \A x \in 0 .. s - 1 : Live(x)

\* Mutant: a new slot is not counted in.
EvlastNotRaised(s) == evlast

RaisedEvlast(s) == IF s > evlast THEN s ELSE evlast

\* With all slots taken AddEventNS returns nullptr and changes nothing, so
\* that case is a stuttering step.
AddEventNS(s, d, ns, repeat) ==
  /\ IsFirstFree(s)
  /\ evlast' = RaisedEvlast(s)
  /\ Store(s, d, ns, repeat)
  /\ handle' = [handle EXCEPT ![d] = s]
  /\ strayed' = strayed \ {s}

\* Nothing tells whether the slot still belongs to the device, nor whether it
\* is in use: an old handle takes over the event of another device, and above
\* evlast it makes an event no scan comes to.
SetEventNS(s, d, ns, repeat) ==
  /\ Store(s, d, ns, repeat)
  /\ strayed' = IF s > evlast THEN strayed \union {s} ELSE strayed
  /\ UNCHANGED <<evlast, handle>>

\* What evlast becomes when slot s is freed; a hole below it is left alone.
LoweredEvlast(s) == IF s = evlast THEN evlast - 1 ELSE evlast

\* DelEvent(Event*), whoever the slot belongs to by now
DelEventAt(s) ==
  /\ events' = [events EXCEPT ![s] = FreeEvent]
  /\ evlast' = LoweredEvlast(s)
  /\ strayed' = strayed \ {s}
  /\ UNCHANGED <<endtime_ns, cpu_ns, handle>>

\* Mutant: the owner of a slot is not compared.
OwnedUnchecked(d, s) == s <= evlast

OwnedBy(d, s) == s <= evlast /\ events[s].inst = d

\* DelEvent(IDevice*): scanning down, evlast drops past the run of the
\* device's own slots at the top and stays at the first other one.
DelEventOf(d) ==
  /\ events' = [s \in Slots |-> IF OwnedBy(d, s) THEN FreeEvent ELSE events[s]]
  /\ \E e \in -1 .. evlast :
       /\ e >= 0 => ~OwnedBy(d, e)
       /\ \A s \in e + 1 .. evlast : OwnedBy(d, s)
       /\ evlast' = e
  /\ UNCHANGED <<endtime_ns, cpu_ns, handle, strayed>>

\* A device keeps the handle it was given last.  After its event has fired or
\* was deleted the handle dangles, and the slot may be free or another's.
DeviceCall(d) ==
  /\ \/ \E s \in Slots, ns \in Delays, repeat \in BOOLEAN : AddEventNS(s, d, ns, repeat)
     \/ \E s \in Slots \intersect {handle[d]} :
          \/ \E ns \in Delays, repeat \in BOOLEAN : SetEventNS(s, d, ns, repeat)
          \/ DelEventAt(s)
     \/ DelEventOf(d)
  /\ UNCHANGED <<time_ns, pc, t_ns, ptime_ns, i>>

----------------------------------------------------------------------------
(* ProceedNS.  Its locals t_ns, ptime_ns and i are cleared where they go   *)
(* out of scope.                                                           *)

Proceed(ns) ==
  /\ pc = "idle"
  /\ time_ns + ns <= MaxTime
  /\ t_ns' = ns
  /\ pc' = "round"
  /\ UNCHANGED <<table, time_ns, endtime_ns, ptime_ns, i, cpu_ns>>

\* Mutant: the time left to run does not limit the slice.
EventsOnly ==
  LET live == {x \in 0 .. evlast : Live(x)}
  IN IF live = {} THEN {t_ns} ELSE {events[s].count_ns - time_ns : s \in live}

\* Where the slice could end: what is left to run, or an event.
Ends == {t_ns} \union {events[s].count_ns - time_ns : s \in {x \in 0 .. evlast : Live(x)}}

\* Mutant: an event in the past makes a slice of no length.
NotClamped(p) == p

\* A slice has some length even when an event is overdue.
Clamped(p) == IF p < 1 THEN 1 ELSE p

BeginSlice ==
  /\ pc = "round"
  /\ t_ns > 0
  /\ \E p \in Ends :
       /\ \A q \in Ends : p <= q
       /\ ptime_ns' = Clamped(p)
       /\ endtime_ns' = time_ns + Clamped(p)
  /\ pc' = "execute"
  /\ UNCHANGED <<table, time_ns, t_ns, i, cpu_ns>>

\* The CPUs run on inside ExecuteNS, or the other CPU becomes the current one.
CpuRuns ==
  /\ pc = "execute"
  /\ cpu_ns' \in CpuReadings
  /\ UNCHANGED <<table, time_ns, endtime_ns, pc, t_ns, ptime_ns, i>>

EndAfterRun(xtime_ns) == time_ns + xtime_ns

\* ExecuteNS returns the time it has executed: less than asked when a new
\* event stopped it early, more when the last instruction ran over.
ExecuteReturns(xtime_ns) ==
  /\ pc = "execute"
  /\ time_ns' = time_ns + xtime_ns
  /\ endtime_ns' = EndAfterRun(xtime_ns)
  /\ t_ns' = t_ns - xtime_ns
  /\ cpu_ns' = 0
  /\ i' = evlast
  /\ ptime_ns' = 0
  /\ pc' = "fire"
  /\ UNCHANGED table

Due(s) == Live(s) /\ events[s].count_ns - time_ns <= 0

\* Mutant: the firing loop stops one slot short.
ScanAbove0 == {s \in 1 .. i : Due(s)}

\* The due slots the firing loop has still to come to.
ToFire == {s \in 0 .. i : Due(s)}

\* The loop comes down to the next due slot: a repeating event is re-armed, a
\* one-shot is freed before its callback runs.
FireEvent(s) ==
  /\ pc = "fire"
  /\ s \in ToFire
  /\ \A x \in ToFire : x <= s
  /\ i' = s - 1
  /\ IF events[s].time_ns # 0
       THEN /\ events' = [events EXCEPT ![s].count_ns = @ + events[s].time_ns]
            /\ UNCHANGED evlast
       ELSE /\ events' = [events EXCEPT ![s] = FreeEvent]
            /\ evlast' = LoweredEvlast(s)
  /\ pc' = "callback"
  /\ UNCHANGED <<time_ns, endtime_ns, t_ns, ptime_ns, cpu_ns, handle, strayed>>

CallbackReturns ==
  /\ pc = "callback"
  /\ pc' = "fire"
  /\ UNCHANGED <<table, time_ns, endtime_ns, t_ns, ptime_ns, i, cpu_ns>>

FiringDone ==
  /\ pc = "fire"
  /\ ToFire = {}
  /\ i' = -1
  /\ pc' = "round"
  /\ UNCHANGED <<table, time_ns, endtime_ns, t_ns, ptime_ns, cpu_ns>>

ProceedReturns ==
  /\ pc = "round"
  /\ t_ns <= 0
  /\ t_ns' = 0
  /\ pc' = "idle"
  /\ UNCHANGED <<table, time_ns, endtime_ns, ptime_ns, i, cpu_ns>>

ProceedStep ==
  \/ BeginSlice
  \/ \E xtime_ns \in 1 .. ptime_ns + Overrun : ExecuteReturns(xtime_ns)
  \/ \E s \in Slots : FireEvent(s)
  \/ CallbackReturns
  \/ FiringDone
  \/ ProceedReturns

Next ==
  \/ \E d \in Devices : DeviceCall(d)
  \/ \E ns \in Lengths : Proceed(ns)
  \/ CpuRuns
  \/ ProceedStep

Spec == Init /\ [][Next]_vars

\* ExecuteNS and every callback return, and the emulation thread keeps running
\* inside ProceedNS; nothing is assumed of the devices or of the callers.
FairSpec == Spec /\ WF_vars(ProceedStep)
----------------------------------------------------------------------------
(* Properties                                                              *)

TypeOK ==
  /\ events \in [Slots -> Event]
  /\ evlast \in -1 .. MaxEvents - 1
  /\ time_ns \in Nat
  /\ endtime_ns \in Int
  /\ pc \in {"idle", "round", "execute", "fire", "callback"}
  /\ t_ns \in Int
  /\ ptime_ns \in Nat
  /\ i \in -1 .. MaxEvents - 1
  /\ cpu_ns \in Int
  /\ handle \in [Devices -> -1 .. MaxEvents - 1]
  /\ strayed \subseteq Slots

\* No live event lies above evlast, where the scans of ProceedNS and AddEventNS
\* stop and it would never fire, but one a device has armed there itself by the
\* handle of an event that is gone; and that one is out of reach, wherever
\* evlast goes, until AddEventNS gives its slot away.
LiveBelowEvlast ==
  \A s \in Slots :
    /\ Live(s) /\ s \notin strayed => s <= evlast
    /\ s \in strayed => s > evlast

OneShotDue(s) == Due(s) /\ events[s].time_ns = 0

\* When a slice begins and when ProceedNS has returned, no one-shot event in
\* reach is overdue: whatever the callbacks of a round armed, moved or deleted,
\* their own or another's, the single downward scan missed none.
NoneOverdue ==
  pc \in {"round", "idle"} => \A s \in Slots : OneShotDue(s) => s \in strayed

\* Only a call made while the CPUs execute can shorten the slice: outside it
\* endtime is the present and every deadline lies after it.
ShortenOnlyInSlice == pc # "execute" => endtime_ns = time_ns /\ cpu_ns = 0

\* A call of ProceedNS runs past what it was asked by one overrun at most, not
\* by one for each slice.
OvershootBounded == t_ns >= -Overrun

\* ProceedNS returns, whatever the devices do in their callbacks.
ProceedEnds == (pc = "round") ~> (pc = "idle")

\* Repeating events keep the interval they were armed with.
PeriodKept ==
  [][\A s \in Slots :
       FireEvent(s) /\ events[s].time # 0 =>
         events'[s].count_ns = events[s].count_ns + events[s].time * TickNS]_vars

\* The slot table implements the timers the devices are promised.
Implements == INSTANCE Timers WITH
  Ids <- Slots, Owners <- Devices, NoOwner <- NoDevice,
  now <- time_ns,
  pending <- [s \in Slots |-> [owner |-> events[s].inst, due |-> events[s].count_ns,
                               period |-> events[s].time_ns]],
  owed <- IF pc \in {"fire", "callback"} THEN ToFire ELSE {},
  held <- handle, lost <- strayed

TimersSpec == Implements!TimersSpec
====

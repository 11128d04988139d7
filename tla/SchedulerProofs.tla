---- MODULE SchedulerProofs ----
(***************************************************************************)
(* Safety of the scheduler for every size of the slot table, every set of  *)
(* devices and delays, and CPUs that show any reading of GetNS.            *)
(*                                                                         *)
(* The inductive invariant adds three facts to the invariants the runs     *)
(* check: while the firing loop is at work, every one-shot event in reach  *)
(* that has come due lies in the slots still to be scanned; while a slice  *)
(* runs, it is no longer than what ProceedNS has left; and between         *)
(* ExecuteNS calls the end of the slice is the present.                    *)
(*                                                                         *)
(* The second half shows that the slot table implements the timers of      *)
(* module Timers: every step of the scheduler arms, cancels, fires or      *)
(* advances time as promised there, or changes nothing a device can see.   *)
(* What a dangling handle can do is part of that promise: no more than to  *)
(* the timer that is in its slot by then.                                  *)
(***************************************************************************)
EXTENDS Scheduler, TLAPS

DueAhead ==
  pc \in {"fire", "callback"} =>
    \A s \in Slots : OneShotDue(s) => s <= i \/ s \in strayed

SliceFits == pc = "execute" => ptime_ns <= t_ns /\ t_ns > 0

IInv ==
  /\ TypeOK
  /\ LiveBelowEvlast
  /\ NoneOverdue
  /\ ShortenOnlyInSlice
  /\ OvershootBounded
  /\ DueAhead
  /\ SliceFits

\* The interval in ticks of a positive delay is a natural number.
LEMMA TicksType == ASSUME NEW ns \in Delays PROVE Ticks(ns) \in Nat
BY SchedulerAssumption DEF Ticks

\* The scheduler starts with an empty table and at rest.
LEMMA InitEstablishes == Init => IInv
BY SchedulerAssumption
DEF Init, IInv, TypeOK, LiveBelowEvlast, NoneOverdue, ShortenOnlyInSlice,
    OvershootBounded, DueAhead, SliceFits, Live, Due, OneShotDue, Slots, FreeEvent, Event

\* Storing an event, whatever was in the slot, keeps the invariant as long as
\* evlast covers it or it is known to be out of reach: outside a slice the
\* deadline lies in the future.
LEMMA StoreKeeps ==
  ASSUME IInv,
         NEW s \in Slots, NEW d \in Devices, NEW ns \in Delays, NEW repeat \in BOOLEAN,
         Store(s, d, ns, repeat),
         evlast' \in -1 .. MaxEvents - 1, handle' \in [Devices -> -1 .. MaxEvents - 1],
         strayed' \subseteq Slots, strayed \ {s} \subseteq strayed',
         LiveBelowEvlast',
         UNCHANGED <<time_ns, pc, t_ns, ptime_ns, i>>
  PROVE  IInv'
<1> DEFINE due == GetTimeNS + ns
           new == [inst |-> d, count_ns |-> due,
                   time_ns |-> IF repeat THEN StoredInterval(due, ns) ELSE 0,
                   time |-> IF repeat THEN Ticks(ns) ELSE 0]
<1>1. ns \in Nat /\ ns > 0 /\ cpu_ns \in Int /\ time_ns \in Nat /\ endtime_ns \in Int
  BY SchedulerAssumption DEF IInv, TypeOK
<1>2. due \in Int /\ new \in Event
  BY <1>1, TicksType DEF GetTimeNS, StoredInterval, Event
<1>3. events' = [events EXCEPT ![s] = new] /\ events \in [Slots -> Event]
  BY DEF Store, IInv, TypeOK
<1>4. events' \in [Slots -> Event]
  BY <1>2, <1>3
<1>5. endtime_ns' \in Int /\ cpu_ns' \in Int
  BY <1>1, <1>2, SchedulerAssumption DEF Store
<1>6. TypeOK'
  BY <1>4, <1>5 DEF IInv, TypeOK
<1>8. ASSUME pc # "execute"
      PROVE  due > time_ns /\ endtime_ns' = time_ns' /\ cpu_ns' = 0
  BY <1>1, <1>8 DEF Store, GetTimeNS, IInv, ShortenOnlyInSlice
<1>9. ASSUME pc # "execute", NEW x \in Slots, OneShotDue(x)'
      PROVE  OneShotDue(x) /\ x # s
  <2>1. CASE x = s
    <3>1. events'[x].count_ns = due /\ time_ns' = time_ns
      BY <1>3, <2>1
    <3>2. due - time_ns <= 0
      BY <1>9, <3>1 DEF OneShotDue, Due
    <3> QED BY <1>1, <1>2, <1>8, <1>9, <3>2
  <2>2. CASE x # s
    BY <1>3, <1>9, <2>2 DEF OneShotDue, Due, Live
  <2> QED BY <2>1, <2>2
<1>10. NoneOverdue'
  BY <1>9 DEF IInv, NoneOverdue
<1>11. DueAhead'
  BY <1>9 DEF IInv, DueAhead
<1>12. ShortenOnlyInSlice'
  BY <1>8 DEF ShortenOnlyInSlice
<1>13. OvershootBounded' /\ SliceFits'
  BY DEF IInv, OvershootBounded, SliceFits
<1> QED BY <1>6, <1>10, <1>11, <1>12, <1>13 DEF IInv

\* Freeing a set of slots keeps the invariant as long as evlast still covers
\* the live ones.
LEMMA FreeKeeps ==
  ASSUME IInv, NEW S \in SUBSET Slots,
         events' = [x \in Slots |-> IF x \in S THEN FreeEvent ELSE events[x]],
         evlast' \in -1 .. MaxEvents - 1, LiveBelowEvlast',
         strayed' \subseteq Slots, strayed \ S \subseteq strayed',
         UNCHANGED <<time_ns, endtime_ns, pc, t_ns, ptime_ns, i, cpu_ns, handle>>
  PROVE  IInv'
<1>1. events' \in [Slots -> Event]
  BY DEF IInv, TypeOK, Event, FreeEvent
<1>2. TypeOK'
  BY <1>1 DEF IInv, TypeOK
<1>3. ASSUME NEW x \in Slots, OneShotDue(x)' PROVE OneShotDue(x) /\ x \notin S
  BY <1>3 DEF OneShotDue, Due, Live, FreeEvent
<1>4. NoneOverdue' /\ DueAhead'
  BY <1>3 DEF IInv, NoneOverdue, DueAhead
<1>5. ShortenOnlyInSlice' /\ OvershootBounded' /\ SliceFits'
  BY DEF IInv, ShortenOnlyInSlice, OvershootBounded, SliceFits
<1> QED BY <1>2, <1>4, <1>5 DEF IInv

\* Whatever call a device makes, and whenever it may make it.
LEMMA DeviceCallKeeps ==
  ASSUME IInv, NEW d \in Devices, DeviceCall(d)
  PROVE  IInv'
<1> USE SchedulerAssumption
<1>1. UNCHANGED <<time_ns, pc, t_ns, ptime_ns, i>>
  BY DEF DeviceCall
<1>2. /\ evlast \in -1 .. MaxEvents - 1 /\ events \in [Slots -> Event]
      /\ handle \in [Devices -> -1 .. MaxEvents - 1] /\ strayed \subseteq Slots
  BY DEF IInv, TypeOK
<1>3. ASSUME NEW s \in Slots, NEW ns \in Delays, NEW repeat \in BOOLEAN,
             AddEventNS(s, d, ns, repeat)
      PROVE  IInv'
  <2>1. /\ s \in 0 .. evlast + 1 /\ evlast' = RaisedEvlast(s) /\ strayed' = strayed \ {s}
        /\ handle' = [handle EXCEPT ![d] = s]
        /\ \A x \in Slots \ {s} : events'[x] = events[x]
    BY <1>2, <1>3 DEF AddEventNS, IsFirstFree, Store
  <2>2. /\ evlast' \in -1 .. MaxEvents - 1 /\ s <= evlast'
        /\ evlast' = evlast \/ (evlast' = s /\ s = evlast + 1)
    BY <1>2, <2>1 DEF RaisedEvlast, Slots
  <2>3. s \in -1 .. MaxEvents - 1
    BY DEF Slots
  <2>4. ASSUME NEW x \in Slots
        PROVE  (Live(x)' /\ x \notin strayed' => x <= evlast') /\ (x \in strayed' => x > evlast')
    <3>1. x \in Int /\ s \in Int /\ evlast \in Int
      BY <1>2 DEF Slots
    <3>2. CASE x = s
      BY <2>1, <2>2, <3>2
    <3>3. CASE x # s
      <4>1. (Live(x)' <=> Live(x)) /\ (x \in strayed' <=> x \in strayed)
        BY <2>1, <3>3 DEF Live
      <4>2. (Live(x) /\ x \notin strayed => x <= evlast) /\ (x \in strayed => x > evlast)
        BY DEF IInv, LiveBelowEvlast
      <4> QED BY <2>2, <3>1, <3>3, <4>1, <4>2
    <3> QED BY <3>2, <3>3
  <2>5. handle' \in [Devices -> -1 .. MaxEvents - 1]
    BY <1>2, <2>1, <2>3
  <2>6. strayed' \subseteq Slots /\ strayed \ {s} \subseteq strayed' /\ LiveBelowEvlast'
    BY <1>2, <2>1, <2>4 DEF LiveBelowEvlast
  <2> QED BY <1>1, <1>3, <2>2, <2>5, <2>6, StoreKeeps DEF AddEventNS
<1>4. ASSUME NEW s \in Slots, NEW ns \in Delays, NEW repeat \in BOOLEAN,
             SetEventNS(s, d, ns, repeat)
      PROVE  IInv'
  <2>1. /\ evlast' = evlast /\ handle' = handle
        /\ strayed' = IF s > evlast THEN strayed \union {s} ELSE strayed
        /\ \A x \in Slots \ {s} : events'[x] = events[x]
    BY <1>2, <1>4 DEF SetEventNS, Store
  <2>2. ASSUME NEW x \in Slots
        PROVE  (Live(x)' /\ x \notin strayed' => x <= evlast') /\ (x \in strayed' => x > evlast')
    <3>1. (Live(x) /\ x \notin strayed => x <= evlast) /\ (x \in strayed => x > evlast)
      BY DEF IInv, LiveBelowEvlast
    <3>2. x \in Int /\ evlast \in Int
      BY <1>2 DEF Slots
    <3>3. CASE x = s
      BY <2>1, <3>1, <3>2, <3>3
    <3>4. CASE x # s
      <4>1. (Live(x)' <=> Live(x)) /\ (x \in strayed' <=> x \in strayed)
        BY <2>1, <3>4 DEF Live
      <4> QED BY <2>1, <3>1, <4>1
    <3> QED BY <3>3, <3>4
  <2>3. strayed' \subseteq Slots /\ strayed \ {s} \subseteq strayed' /\ LiveBelowEvlast'
    BY <1>2, <2>1, <2>2 DEF LiveBelowEvlast
  <2> QED BY <1>1, <1>2, <1>4, <2>1, <2>3, StoreKeeps DEF SetEventNS
<1>5. ASSUME NEW s \in Slots, DelEventAt(s)
      PROVE  IInv'
  <2>1. events' = [x \in Slots |-> IF x \in {s} THEN FreeEvent ELSE events[x]]
    BY <1>2, <1>5 DEF DelEventAt
  <2>2. evlast' \in -1 .. MaxEvents - 1
    BY <1>2, <1>5 DEF DelEventAt, LoweredEvlast, Slots
  <2>3. LiveBelowEvlast'
    BY <1>2, <1>5, <2>1 DEF DelEventAt, LoweredEvlast, IInv, LiveBelowEvlast, Live,
       FreeEvent, Slots
  <2>4. {s} \in SUBSET Slots /\ strayed' = strayed \ {s}
    BY <1>5 DEF DelEventAt
  <2>5. strayed' \subseteq Slots /\ strayed \ {s} \subseteq strayed'
    BY <1>2, <2>4
  <2> QED BY <1>1, <1>5, <2>1, <2>2, <2>3, <2>4, <2>5, FreeKeeps DEF DelEventAt
<1>6. ASSUME DelEventOf(d)
      PROVE  IInv'
  <2> DEFINE S == {x \in Slots : OwnedBy(d, x)}
  <2>1. events' = [x \in Slots |-> IF x \in S THEN FreeEvent ELSE events[x]]
    BY <1>6 DEF DelEventOf
  <2>2. PICK e \in -1 .. evlast :
          /\ \A s \in e + 1 .. evlast : OwnedBy(d, s)
          /\ evlast' = e
    BY <1>6 DEF DelEventOf
  <2>3. evlast' \in -1 .. MaxEvents - 1
    BY <1>2, <2>2
  <2>4. ASSUME NEW x \in Slots, Live(x)', x \notin strayed PROVE x <= evlast'
    <3>1. ~OwnedBy(d, x) /\ Live(x)
      BY <2>1, <2>4 DEF Live, FreeEvent
    <3>2. x <= evlast
      BY <2>4, <3>1 DEF IInv, LiveBelowEvlast
    <3> QED BY <1>2, <2>2, <3>1, <3>2 DEF Slots
  <2>5. ASSUME NEW x \in strayed PROVE x > evlast'
    <3>1. x \in Slots /\ x > evlast
      BY <1>2 DEF IInv, LiveBelowEvlast
    <3> QED BY <1>2, <2>2, <3>1 DEF Slots
  <2>6. LiveBelowEvlast' /\ strayed' = strayed
    BY <1>6, <2>4, <2>5 DEF DelEventOf, LiveBelowEvlast
  <2>7. S \in SUBSET Slots /\ handle' = handle /\ UNCHANGED <<endtime_ns, cpu_ns>>
    BY <1>6 DEF DelEventOf
  <2> HIDE DEF S
  <2> QED BY <1>1, <1>2, <2>1, <2>3, <2>6, <2>7, FreeKeeps
<1> QED BY <1>3, <1>4, <1>5, <1>6 DEF DeviceCall

\* A slice is at least one unit long and never longer than what is left.
LEMMA BeginSliceKeeps == ASSUME IInv, BeginSlice PROVE IInv'
<1> DEFINE live == {x \in 0 .. evlast : Live(x)}
<1>1. t_ns \in Int /\ t_ns > 0 /\ time_ns \in Nat /\ events \in [Slots -> Event]
      /\ evlast \in -1 .. MaxEvents - 1
  BY DEF BeginSlice, IInv, TypeOK
<1>2. PICK p \in Ends :
        (\A q \in Ends : p <= q) /\ ptime_ns' = Clamped(p) /\ endtime_ns' = time_ns + Clamped(p)
  BY DEF BeginSlice
<1>3. t_ns \in Ends
  BY DEF Ends
<1>4. p <= t_ns
  BY <1>2, <1>3
<1>5. p \in Int
  <2>1. CASE p = t_ns
    BY <1>1, <2>1
  <2>2. ASSUME NEW s \in live, p = events[s].count_ns - time_ns PROVE p \in Int
    <3>1. s \in Slots
      BY <1>1, <2>2, SchedulerAssumption DEF Slots
    <3> QED BY <1>1, <2>2, <3>1 DEF Event
  <2> QED BY <1>2, <2>1, <2>2 DEF Ends
<1>6. ptime_ns' \in Nat /\ ptime_ns' <= t_ns /\ endtime_ns' \in Int
  BY <1>1, <1>2, <1>4, <1>5 DEF Clamped
<1>7. pc' = "execute" /\ UNCHANGED <<events, evlast, handle, strayed, time_ns, t_ns, i, cpu_ns>>
  BY DEF BeginSlice, table
<1>8. TypeOK' /\ SliceFits'
  BY <1>1, <1>6, <1>7 DEF IInv, TypeOK, SliceFits
<1> QED BY <1>7, <1>8 DEF IInv, LiveBelowEvlast, Live, NoneOverdue, ShortenOnlyInSlice,
           OvershootBounded, DueAhead

\* After a slice all live events are ahead of the firing loop, which starts at
\* evlast.
LEMMA ExecuteReturnsKeeps ==
  ASSUME IInv, NEW xtime_ns \in 1 .. ptime_ns + Overrun, ExecuteReturns(xtime_ns)
  PROVE  IInv'
<1>1. pc = "execute" /\ time_ns \in Nat /\ t_ns \in Int /\ ptime_ns \in Nat /\ xtime_ns \in Nat
      /\ Overrun \in Nat
  BY SchedulerAssumption DEF ExecuteReturns, IInv, TypeOK
<1>2. pc' = "fire" /\ i' = evlast /\ UNCHANGED <<events, evlast, handle, strayed>>
  BY DEF ExecuteReturns, table
<1>3. TypeOK'
  BY <1>1, <1>2 DEF ExecuteReturns, EndAfterRun, IInv, TypeOK
<1>4. LiveBelowEvlast'
  BY <1>2 DEF IInv, LiveBelowEvlast, Live
<1>5. DueAhead'
  BY <1>2, <1>4 DEF DueAhead, OneShotDue, Due, LiveBelowEvlast
<1>6. OvershootBounded'
  BY <1>1 DEF ExecuteReturns, OvershootBounded, IInv, SliceFits
<1>7. ShortenOnlyInSlice' /\ NoneOverdue' /\ SliceFits'
  BY <1>2 DEF ExecuteReturns, EndAfterRun, ShortenOnlyInSlice, NoneOverdue, SliceFits
<1> QED BY <1>3, <1>4, <1>5, <1>6, <1>7 DEF IInv

\* Firing the highest due slot leaves the due one-shots below it.
LEMMA FireEventKeeps == ASSUME IInv, NEW s \in Slots, FireEvent(s) PROVE IInv'
<1>1. /\ pc = "fire" /\ pc' = "callback" /\ i' = s - 1
      /\ s \in ToFire /\ \A x \in ToFire : x <= s
      /\ UNCHANGED <<time_ns, endtime_ns, t_ns, ptime_ns, cpu_ns, handle, strayed>>
  BY DEF FireEvent
<1>2. events \in [Slots -> Event] /\ evlast \in -1 .. MaxEvents - 1 /\ i \in -1 .. MaxEvents - 1
      /\ MaxEvents \in Nat
  BY SchedulerAssumption DEF IInv, TypeOK
<1>3. events' \in [Slots -> Event] /\ evlast' \in -1 .. MaxEvents - 1
  <2>1. CASE events[s].time_ns # 0
    <3>1. events[s].count_ns + events[s].time_ns \in Int
      BY <1>2 DEF Event
    <3>2. [events[s] EXCEPT !.count_ns = @ + events[s].time_ns] \in Event
      BY <1>2, <3>1 DEF Event
    <3> QED BY <1>2, <2>1, <3>2 DEF FireEvent
  <2>2. CASE events[s].time_ns = 0
    <3>1. events' = [events EXCEPT ![s] = FreeEvent] /\ evlast' = LoweredEvlast(s)
      BY <2>2 DEF FireEvent
    <3>2. FreeEvent \in Event
      BY DEF FreeEvent, Event
    <3>3. LoweredEvlast(s) \in -1 .. MaxEvents - 1
      BY <1>2 DEF LoweredEvlast, Slots
    <3> QED BY <1>2, <3>1, <3>2, <3>3
  <2> QED BY <2>1, <2>2
<1>4. TypeOK'
  BY <1>1, <1>2, <1>3 DEF IInv, TypeOK, Slots
<1>5. LiveBelowEvlast'
  <2>0. ASSUME NEW x \in Slots, x \in strayed PROVE x > evlast'
    BY <1>2, <2>0 DEF FireEvent, LoweredEvlast, IInv, LiveBelowEvlast, Slots
  <2> SUFFICES ASSUME NEW x \in Slots, Live(x)', x \notin strayed PROVE x <= evlast'
    BY <1>1, <2>0 DEF LiveBelowEvlast
  <2>1. CASE events[s].time_ns # 0
    <3> DEFINE moved == [events[s] EXCEPT !.count_ns = @ + events[s].time_ns]
    <3>1. events' = [events EXCEPT ![s] = moved] /\ evlast' = evlast
      BY <2>1 DEF FireEvent
    <3>2. moved.inst = events[s].inst
      BY <1>2 DEF Event
    <3> HIDE DEF moved
    <3>3. events'[x].inst = events[x].inst
      BY <1>2, <3>1, <3>2
    <3> QED BY <3>1, <3>3 DEF IInv, LiveBelowEvlast, Live
  <2>2. CASE events[s].time_ns = 0
    <3>1. events' = [events EXCEPT ![s] = FreeEvent] /\ evlast' = LoweredEvlast(s)
      BY <2>2 DEF FireEvent
    <3>2. x # s /\ Live(x)
      BY <1>2, <3>1 DEF Live, FreeEvent
    <3>3. x <= evlast
      BY <3>2 DEF IInv, LiveBelowEvlast
    <3> QED BY <1>2, <3>1, <3>2, <3>3 DEF LoweredEvlast, Slots
  <2> QED BY <2>1, <2>2
<1>6. ASSUME NEW x \in Slots, OneShotDue(x)', x \notin strayed PROVE x <= i'
  <2>1. x # s
    BY <1>2, <1>6 DEF FireEvent, OneShotDue, Due, Live, FreeEvent, Event
  <2>2. OneShotDue(x)
    BY <1>1, <1>2, <1>6, <2>1 DEF FireEvent, OneShotDue, Due, Live
  <2>3. x <= i
    BY <1>1, <1>6, <2>2 DEF IInv, DueAhead
  <2>4. x \in ToFire
    BY <1>2, <2>2, <2>3 DEF ToFire, OneShotDue, Slots
  <2>5. x <= s
    BY <1>1, <2>4
  <2> QED BY <1>1, <1>2, <2>1, <2>5 DEF Slots
<1>7. DueAhead'
  BY <1>1, <1>6 DEF DueAhead
<1> QED BY <1>1, <1>4, <1>5, <1>7 DEF IInv, NoneOverdue, ShortenOnlyInSlice,
           OvershootBounded, SliceFits

\* When the scan has come to its end no one-shot is due any more.
LEMMA FiringDoneKeeps == ASSUME IInv, FiringDone PROVE IInv'
<1>1. pc = "fire" /\ ToFire = {} /\ pc' = "round" /\ i' = -1
      /\ UNCHANGED <<events, evlast, handle, strayed, time_ns, endtime_ns, t_ns, ptime_ns, cpu_ns>>
  BY DEF FiringDone, table
<1>2. i \in -1 .. MaxEvents - 1 /\ MaxEvents \in Nat
  BY SchedulerAssumption DEF IInv, TypeOK
<1>3. ASSUME NEW x \in Slots, OneShotDue(x)', x \notin strayed PROVE FALSE
  <2>1. OneShotDue(x)
    BY <1>1, <1>3 DEF OneShotDue, Due, Live
  <2>2. x <= i
    BY <1>1, <1>3, <2>1 DEF IInv, DueAhead
  <2>3. x \in ToFire
    BY <1>2, <2>1, <2>2 DEF ToFire, OneShotDue, Slots
  <2> QED BY <1>1, <2>3
<1>4. NoneOverdue'
  BY <1>1, <1>3 DEF NoneOverdue
<1>5. TypeOK'
  BY <1>1, <1>2 DEF IInv, TypeOK
<1> QED BY <1>1, <1>4, <1>5 DEF IInv, LiveBelowEvlast, Live, ShortenOnlyInSlice,
           OvershootBounded, DueAhead, SliceFits

\* The invariant is inductive: one case for each action.
LEMMA StepKeeps == ASSUME IInv, [Next]_vars PROVE IInv'
<1>1. CASE \E d \in Devices : DeviceCall(d)
  BY <1>1, DeviceCallKeeps
<1>2. ASSUME NEW ns \in Lengths, Proceed(ns) PROVE IInv'
  <2>1. ns \in Nat /\ Overrun \in Nat
    BY SchedulerAssumption
  <2> QED BY <1>2, <2>1 DEF Proceed, table, IInv, TypeOK, LiveBelowEvlast, Live, NoneOverdue,
             OneShotDue, Due, ShortenOnlyInSlice, OvershootBounded, DueAhead, SliceFits
<1>3. CASE CpuRuns
  BY <1>3, SchedulerAssumption
  DEF CpuRuns, table, IInv, TypeOK, LiveBelowEvlast, Live, NoneOverdue, ShortenOnlyInSlice,
      OvershootBounded, DueAhead, SliceFits
<1>4. CASE BeginSlice
  BY <1>4, BeginSliceKeeps
<1>5. CASE \E xtime_ns \in 1 .. ptime_ns + Overrun : ExecuteReturns(xtime_ns)
  BY <1>5, ExecuteReturnsKeeps
<1>6. CASE \E s \in Slots : FireEvent(s)
  BY <1>6, FireEventKeeps
<1>7. CASE CallbackReturns
  BY <1>7 DEF CallbackReturns, table, IInv, TypeOK, LiveBelowEvlast, Live, NoneOverdue,
     OneShotDue, Due, ShortenOnlyInSlice, OvershootBounded, DueAhead, SliceFits
<1>8. CASE FiringDone
  BY <1>8, FiringDoneKeeps
<1>9. CASE ProceedReturns
  BY <1>9, SchedulerAssumption
  DEF ProceedReturns, table, IInv, TypeOK, LiveBelowEvlast, Live, NoneOverdue, OneShotDue, Due,
      ShortenOnlyInSlice, OvershootBounded, DueAhead, SliceFits
<1>10. CASE UNCHANGED vars
  BY <1>10 DEF vars, table, IInv, TypeOK, LiveBelowEvlast, Live, NoneOverdue, OneShotDue, Due,
     ShortenOnlyInSlice, OvershootBounded, DueAhead, SliceFits
<1> QED BY <1>1, <1>2, <1>3, <1>4, <1>5, <1>6, <1>7, <1>8, <1>9, <1>10 DEF Next, ProceedStep

\* Every call of a device and every step of ProceedNS keeps the invariant.
THEOREM Invariance == Spec => []IInv
BY InitEstablishes, StepKeeps, PTL DEF Spec

\* The slot table stays well formed (AddEventNS, SetEventNS, DelEvent, ProceedNS).
THEOREM TypeCorrect == Spec => []TypeOK
BY Invariance, PTL DEF IInv

\* No live event is out of reach of the scans, which stop at evlast, but one
\* that was armed up there by an old handle.
THEOREM NoEventOutOfReach == Spec => []LiveBelowEvlast
BY Invariance, PTL DEF IInv

\* The downward firing scan misses no one-shot event in reach that has come due,
\* whatever the callbacks do to the table meanwhile, by old handles too.
THEOREM NoEventMissed == Spec => []NoneOverdue
BY Invariance, PTL DEF IInv

\* Only calls made from inside ExecuteNS can cut the slice short.
THEOREM NoShortenOutsideSlice == Spec => []ShortenOnlyInSlice
BY Invariance, PTL DEF IInv

\* ProceedNS runs at most one overrun past what it was asked.
THEOREM OvershootIsBounded == Spec => []OvershootBounded
BY Invariance, PTL DEF IInv

----------------------------------------------------------------------------
(* The refinement of Timers                                                *)

\* What the slot table stands for.
Pending == [s \in Slots |-> [owner |-> events[s].inst, due |-> events[s].count_ns,
                             period |-> events[s].time_ns]]

Owed == IF pc \in {"fire", "callback"} THEN ToFire ELSE {}

\* Freeing slots takes them off the list of what is still to fire.
LEMMA OwedShrinks ==
  ASSUME TypeOK, NEW S \in SUBSET Slots,
         \A s \in S : ~Due(s)', \A x \in Slots \ S : events'[x] = events[x],
         UNCHANGED <<time_ns, pc, i>>
  PROVE  Owed' = Owed \ S
<1>1. 0 .. i \subseteq Slots
  BY SchedulerAssumption DEF TypeOK, Slots
<1>2. \A x \in Slots \ S : Due(x)' <=> Due(x)
  BY DEF Due, Live
<1> QED BY <1>1, <1>2 DEF Owed, ToFire

\* Whatever call a device makes, it arms a timer, arms or cancels the one it
\* has the handle of, or cancels all of its own.
LEMMA DeviceCallImplements ==
  ASSUME IInv, NEW d \in Devices, DeviceCall(d)
  PROVE  Implements!TimersNext
<1>1. /\ UNCHANGED <<time_ns, pc, t_ns, ptime_ns, i>>
      /\ TypeOK /\ events \in [Slots -> Event] /\ NoDevice \notin Devices
      /\ evlast \in -1 .. MaxEvents - 1 /\ i \in -1 .. MaxEvents - 1
  BY SchedulerAssumption DEF DeviceCall, IInv, TypeOK
<1>2. ASSUME NEW s \in Slots, NEW ns \in Delays, NEW repeat \in BOOLEAN, Store(s, d, ns, repeat)
      PROVE  /\ Pending'[s].owner = d
             /\ \A x \in Slots \ {s} : Pending'[x] = Pending[x]
             /\ Owed' = Owed \ {s}
  <2>1. /\ events'[s].inst = d /\ events'[s].count_ns = GetTimeNS + ns
        /\ \A x \in Slots \ {s} : events'[x] = events[x]
    BY <1>1, <1>2 DEF Store
  <2>2. Owed' = Owed \ {s}
    <3>1. CASE pc \in {"fire", "callback"}
      <4>1. ns \in Nat /\ ns > 0 /\ time_ns \in Nat /\ cpu_ns = 0
        BY <3>1, SchedulerAssumption DEF IInv, ShortenOnlyInSlice, TypeOK
      <4>2. ~Due(s)'
        BY <1>1, <2>1, <4>1 DEF Due, GetTimeNS
      <4> QED BY <1>1, <2>1, <4>2, OwedShrinks
    <3>2. CASE pc \notin {"fire", "callback"}
      BY <1>1, <3>2 DEF Owed
    <3> QED BY <3>1, <3>2
  <2> QED BY <2>1, <2>2 DEF Pending
<1>3. ASSUME NEW s \in Slots, NEW ns \in Delays, NEW repeat \in BOOLEAN,
             AddEventNS(s, d, ns, repeat)
      PROVE  Implements!Arm(d, s)
  <2>1. ~Live(s) \/ s \in strayed
    BY <1>1, <1>3 DEF AddEventNS, IsFirstFree, IInv, LiveBelowEvlast, Slots
  <2> QED BY <1>1, <1>2, <1>3, <2>1
          DEF AddEventNS, Live, Pending, Owed, Implements!Arm, Implements!Armed,
              Implements!OthersKept
<1>4. ASSUME NEW s \in Slots, s = handle[d], NEW ns \in Delays, NEW repeat \in BOOLEAN,
             SetEventNS(s, d, ns, repeat)
      PROVE  Implements!Rearm(d, s)
  <2>1. strayed' = strayed \/ (~Live(s) /\ strayed' = strayed \union {s})
    <3>1. CASE s > evlast
      <4>1. Live(s) => s \in strayed
        BY <1>1, <3>1 DEF IInv, LiveBelowEvlast, Slots
      <4>2. strayed' = strayed \union {s}
        BY <1>4, <3>1 DEF SetEventNS
      <4> QED BY <4>1, <4>2
    <3>2. CASE ~(s > evlast)
      BY <1>4, <3>2 DEF SetEventNS
    <3> QED BY <3>1, <3>2
  <2>2. handle' = handle
    BY <1>4 DEF SetEventNS
  <2> QED BY <1>1, <1>2, <1>4, <2>1, <2>2
          DEF SetEventNS, Live, Pending, Owed, Implements!Rearm, Implements!Armed,
              Implements!OthersKept
<1>5. ASSUME NEW s \in Slots, s = handle[d], DelEventAt(s)
      PROVE  Implements!Discard(d, s)
  <2>1. /\ events'[s] = FreeEvent /\ \A x \in Slots \ {s} : events'[x] = events[x]
        /\ strayed' = strayed \ {s} /\ handle' = handle
    BY <1>1, <1>5 DEF DelEventAt
  <2>2. ~Due(s)' /\ events'[s].inst = NoDevice
    BY <2>1 DEF Due, Live, FreeEvent
  <2>3. Owed' = Owed \ {s}
    BY <1>1, <2>1, <2>2, OwedShrinks
  <2> QED BY <1>1, <1>5, <2>1, <2>2, <2>3
          DEF Pending, Owed, Implements!Discard, Implements!OthersKept
<1>6. ASSUME DelEventOf(d)
      PROVE  Implements!CancelAll(d)
  <2> DEFINE S == {x \in Slots : OwnedBy(d, x)}
  <2>1. /\ \A s \in S : events'[s] = FreeEvent
        /\ \A x \in Slots \ S : events'[x] = events[x]
        /\ handle' = handle /\ strayed' = strayed
    BY <1>6 DEF DelEventOf
  <2>2. \A s \in S : ~Due(s)' /\ events'[s].inst = NoDevice
    BY <2>1 DEF Due, Live, FreeEvent
  <2>3. S = {x \in Slots : events[x].inst = d /\ x \notin strayed}
    <3> SUFFICES ASSUME NEW x \in Slots, events[x].inst = d
                 PROVE  x <= evlast <=> x \notin strayed
      BY DEF OwnedBy, IInv, LiveBelowEvlast
    <3>1. Live(x)
      BY <1>1 DEF Live
    <3> QED BY <1>1, <3>1 DEF IInv, LiveBelowEvlast, Slots
  <2>4. S \in SUBSET Slots
    OBVIOUS
  <2> HIDE DEF S
  <2>5. Owed' = Owed \ S
    BY <1>1, <2>1, <2>2, <2>4, OwedShrinks
  <2>6. Implements!Own(d) = S
    BY <2>3 DEF Implements!Own
  <2> QED BY <1>1, <2>1, <2>2, <2>4, <2>5, <2>6
          DEF Owed, Implements!CancelAll, Implements!OthersKept
<1>7. \/ \E s \in Slots : Implements!Arm(d, s) \/ Implements!Rearm(d, s) \/ Implements!Discard(d, s)
      \/ Implements!CancelAll(d)
  BY <1>3, <1>4, <1>5, <1>6 DEF DeviceCall
<1> QED BY <1>7 DEF Implements!TimersNext

\* The end of ExecuteNS is where time advances: everything that has come due
\* is owed but for what is out of reach, because no other live event lies above
\* evlast.
LEMMA ExecuteReturnsImplements ==
  ASSUME IInv, NEW xtime_ns \in 1 .. ptime_ns + Overrun, ExecuteReturns(xtime_ns)
  PROVE  Implements!Advance
<1>1. /\ pc = "execute" /\ pc' = "fire" /\ i' = evlast /\ UNCHANGED <<events, handle, strayed>>
      /\ time_ns' = time_ns + xtime_ns
  BY DEF ExecuteReturns, table
<1>2. time_ns \in Nat /\ xtime_ns \in Int /\ xtime_ns >= 1 /\ evlast \in -1 .. MaxEvents - 1
      /\ events \in [Slots -> Event]
  BY SchedulerAssumption DEF IInv, TypeOK
<1>3. time_ns' > time_ns /\ time_ns' \in Int
  BY <1>1, <1>2
<1>4. Owed = {}
  BY <1>1 DEF Owed
<1>5. \A s \in Slots : Due(s)' <=> events[s].inst # NoDevice /\ events[s].count_ns <= time_ns'
  <2> TAKE s \in Slots
  <2>1. events[s].count_ns \in Int
    BY <1>2 DEF Event
  <2> QED BY <1>1, <1>3, <2>1 DEF Due, Live
<1>6. Owed' = {s \in Slots : Due(s)' /\ s \notin strayed}
  <2>1. Owed' = {s \in 0 .. evlast : Due(s)'}
    BY <1>1 DEF Owed, ToFire
  <2>2. 0 .. evlast \subseteq Slots
    BY <1>2, SchedulerAssumption DEF Slots
  <2>3. \A s \in Slots : Due(s)' => (s \in 0 .. evlast <=> s \notin strayed)
    BY <1>1, <1>2 DEF IInv, LiveBelowEvlast, Live, Due, Slots
  <2> QED BY <2>1, <2>2, <2>3
<1>7. Owed' = {s \in Slots : events[s].inst # NoDevice /\ events[s].count_ns <= time_ns' /\ s \notin strayed}
  BY <1>5, <1>6
<1> QED BY <1>1, <1>3, <1>4, <1>7 DEF Implements!Advance, Implements!Armed, Owed

\* What the loop fires was owed, and only that is settled.
LEMMA FireEventImplements ==
  ASSUME IInv, NEW s \in Slots, FireEvent(s)
  PROVE  Implements!Fire(s)
<1>1. /\ pc = "fire" /\ pc' = "callback" /\ i' = s - 1 /\ UNCHANGED <<time_ns, handle, strayed>>
      /\ s \in ToFire /\ \A x \in ToFire : x <= s
  BY DEF FireEvent
<1>2. events \in [Slots -> Event] /\ i \in -1 .. MaxEvents - 1 /\ MaxEvents \in Nat
  BY SchedulerAssumption DEF IInv, TypeOK
<1>3. \A x \in Slots \ {s} : events'[x] = events[x]
  BY <1>2 DEF FireEvent
<1>4. Owed' = Owed \ {s}
  <2>1. ASSUME NEW x \in Slots, x # s PROVE Due(x)' <=> Due(x)
    BY <1>1, <1>3, <2>1 DEF Due, Live
  <2>2. Owed = ToFire /\ Owed' = {x \in 0 .. s - 1 : Due(x)'}
    BY <1>1 DEF Owed, ToFire
  <2>3. 0 .. i \subseteq Slots /\ 0 .. s - 1 \subseteq 0 .. i /\ s \in 0 .. i
    BY <1>1, <1>2 DEF Slots, ToFire
  <2>4. ASSUME NEW x \in Owed' PROVE x \in Owed \ {s}
    BY <2>1, <2>2, <2>3, <2>4 DEF ToFire, Slots
  <2>5. ASSUME NEW x \in Owed \ {s} PROVE x \in Owed'
    <3>1. x \in 0 .. i /\ Due(x) /\ x <= s /\ x # s
      BY <1>1, <2>2, <2>5 DEF ToFire
    <3>2. x \in Slots /\ x \in 0 .. s - 1
      BY <2>3, <3>1 DEF Slots
    <3> QED BY <2>1, <2>2, <3>1, <3>2
  <2> QED BY <2>4, <2>5
<1>5. IF events[s].time_ns = 0
        THEN events'[s].inst = NoDevice
        ELSE Pending'[s] = [Pending[s] EXCEPT !.due = @ + Pending[s].period]
  <2>1. CASE events[s].time_ns = 0
    BY <1>2, <2>1 DEF FireEvent, FreeEvent
  <2>2. CASE events[s].time_ns # 0
    <3>1. events'[s] = [events[s] EXCEPT !.count_ns = @ + events[s].time_ns]
      BY <1>2, <2>2 DEF FireEvent
    <3>2. /\ events'[s].inst = events[s].inst /\ events'[s].time_ns = events[s].time_ns
          /\ events'[s].count_ns = events[s].count_ns + events[s].time_ns
      BY <1>2, <3>1 DEF Event
    <3> QED BY <2>2, <3>2 DEF Pending
  <2> QED BY <2>1, <2>2
<1> QED BY <1>1, <1>3, <1>4, <1>5 DEF Implements!Fire, Implements!OthersKept, Owed, Pending

\* The other steps leave what a device can see as it was.
LEMMA QuietStep ==
  ASSUME UNCHANGED <<events, time_ns, handle, strayed>>, Owed' = Owed
  PROVE  UNCHANGED Implements!tvars
BY DEF Implements!tvars, Owed

\* The initial table stands for no timers.
LEMMA InitImplements == Init => Implements!TimersInit
BY DEF Init, Slots, FreeEvent, Implements!TimersInit, Implements!Armed

\* Every step of the scheduler is a step of Timers or a stutter.
LEMMA StepImplements ==
  ASSUME IInv, [Next]_vars
  PROVE  [Implements!TimersNext]_(Implements!tvars)
<1>1. CASE \E d \in Devices : DeviceCall(d)
  BY <1>1, DeviceCallImplements
<1>2. CASE \E xtime_ns \in 1 .. ptime_ns + Overrun : ExecuteReturns(xtime_ns)
  BY <1>2, ExecuteReturnsImplements DEF Implements!TimersNext
<1>3. CASE \E s \in Slots : FireEvent(s)
  BY <1>3, FireEventImplements DEF Implements!TimersNext
<1>4. CASE \/ \E ns \in Lengths : Proceed(ns)
           \/ BeginSlice \/ CpuRuns \/ ProceedReturns \/ UNCHANGED vars
  <2>1. UNCHANGED <<events, time_ns, handle, strayed>> /\ Owed' = Owed
    BY <1>4 DEF Proceed, BeginSlice, CpuRuns, ProceedReturns, vars, table, Owed, ToFire, Due, Live
  <2> QED BY <2>1, QuietStep
<1>5. CASE CallbackReturns
  <2>1. UNCHANGED <<events, time_ns, handle, strayed>> /\ Owed' = Owed
    BY <1>5 DEF CallbackReturns, table, Owed, ToFire, Due, Live
  <2> QED BY <2>1, QuietStep
<1>6. CASE FiringDone
  <2>1. UNCHANGED <<events, time_ns, handle, strayed>> /\ Owed' = Owed
    BY <1>6 DEF FiringDone, table, Owed
  <2> QED BY <2>1, QuietStep
<1> QED BY <1>1, <1>2, <1>3, <1>4, <1>5, <1>6 DEF Next, ProceedStep

\* The scheduler (AddEventNS, SetEventNS, DelEvent, ProceedNS) keeps every
\* promise of Timers: what comes due fires before time goes on, unless it was
\* made by an old handle where nothing looks, and a device reaches the timers of
\* others by its handle only.
THEOREM ImplementsTimers == Spec => TimersSpec
BY Invariance, InitImplements, StepImplements, PTL DEF Spec, TimersSpec, Implements!TimersSpec
====

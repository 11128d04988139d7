---- MODULE SoundBuffer ----
(***************************************************************************)
(* The sound path between three threads.  The emulation thread lets Sound  *)
(* turn the clocks of the main CPU into samples and put them into the ring *)
(* of SamplingRateConverter; the thread of the sound driver takes          *)
(* resampled output from the ring, filling it itself when it runs low; the *)
(* UI thread replaces the ring when the configuration changes.             *)
(*                                                                         *)
(* A sample is a number, the order it was synthesised in; the ring starts  *)
(* out with silence, numbered as if it had been synthesised before.        *)
(***************************************************************************)
EXTENDS Integers

CONSTANTS
  M,             \* half the number of taps of the filter
  Sizes,         \* ring sizes the configuration may ask for; 0 turns sound off
  Ratios,        \* resampling ratios, [ic, oc]
  MaxSamples,    \* largest request of the driver
  MixRate,       \* mix_rate_, samples per second
  Speeds,        \* values of GetEffectiveSpeed, clocks per second
  Thresholds,    \* values of mix_threshold_, clocks
  Bursts,        \* clocks the CPU may take between two calls of Update
  MaxClock       \* bound on the clock counter

\* Init of the ring asserts that it holds more than the taps of the filter.
ASSUME SoundAssumption ==
  /\ M \in Nat
  /\ Sizes \subseteq {n \in Nat : n = 0 \/ n > 2 * M + 1}
  /\ \A r \in Ratios : r.ic \in Nat \ {0} /\ r.oc \in Nat \ {0}
  /\ MaxSamples \in Nat \ {0}
  /\ MixRate \in Nat \ {0}
  /\ Speeds \subseteq Nat \ {0} /\ Speeds # {}
  /\ Thresholds \subseteq Nat \ {0}
  /\ Bursts \subseteq Nat
  /\ MaxClock \in Nat

VARIABLES
  size,          \* buffer_size_ of the ring, 0 while it has never been made
  read_ptr,      \* read_ptr_
  write_ptr,     \* write_ptr_
  label,         \* history: the number of the sample in each cell
  next,          \* history: number of the next sample, modulo 2 * size
  ratio,         \* [ic_, oc_]
  oo,            \* oo_, the phase of the resampler
  driver,        \* where the driver thread stands
  ss,            \* local of Get: samples asked for, 0 once the ring was filled
  count,         \* local of Get: samples still to deliver
  enabled,       \* enabled_ of Sound
  clock,         \* GetCPUClocks64
  prev_clock,    \* prev_clock_
  remainder,     \* clock_remainder_
  threshold,     \* mix_threshold_
  to_fill        \* local of Update: samples to synthesise, 0 outside of it

ring == <<size, read_ptr, write_ptr, label, next, ratio>>
output == <<oo, driver, ss, count>>
mixer == <<enabled, clock, prev_clock, remainder, threshold, to_fill>>
vars == <<ring, output, mixer>>

Window == 2 * M + 1
Wrap == 2 * size

Lesser(a, b) == IF a < b THEN a ELSE b
Greater(a, b) == IF a > b THEN a ELSE b

\* Samples from r up to the write pointer.
AvailFrom(r) == IF write_ptr >= r THEN write_ptr - r ELSE size + write_ptr - r

Avail == AvailFrom(read_ptr)

\* The mutex of the ring is held by the driver thread inside Get.
RingLocked == driver \in {"filter", "advance"}

Init ==
  /\ size = 0
  /\ read_ptr = 0
  /\ write_ptr = 0
  /\ label = <<>>
  /\ next = 0
  /\ ratio \in Ratios
  /\ oo = 0
  /\ driver = "off"
  /\ ss = 0
  /\ count = 0
  /\ enabled = FALSE
  /\ clock = 0
  /\ prev_clock = 0
  /\ remainder = 0
  /\ threshold \in Thresholds
  /\ to_fill = 0

----------------------------------------------------------------------------
(* The ring                                                                *)

\* Mutant: the free space is not looked at.
FilledAll(n, r) == n

\* How many of n samples FillMain writes when reading stands at r: one cell
\* stays free.
Filled(n, r) == Greater(0, Lesser(n, size - AvailFrom(r) - 1))

\* The cells after n samples were written from write_ptr on, around the end.
Written(n) ==
  [c \in 0 .. size - 1 |->
     LET o == IF c >= write_ptr THEN c - write_ptr ELSE size + c - write_ptr
     IN IF o < n THEN (next + o) % Wrap ELSE label[c]]

Stepped(p, n) == IF p + n >= size THEN p + n - size ELSE p + n

\* FillMain.  The branch that skips samples is never taken: nothing calls
\* FillWhenEmpty, so fill_when_empty_ stays set.
FillMain(n, r) ==
  /\ label' = Written(Filled(n, r))
  /\ next' = (next + Filled(n, r)) % Wrap
  /\ write_ptr' = Stepped(write_ptr, Filled(n, r))

----------------------------------------------------------------------------
(* The driver thread                                                       *)

\* Get takes the mutex.
BeginGet(n) ==
  /\ driver = "idle"
  /\ ss' = n
  /\ count' = n
  /\ driver' = "filter"
  /\ UNCHANGED <<ring, oo, mixer>>

\* One output sample is computed from the Window samples at read_ptr.
Filter ==
  /\ driver = "filter"
  /\ oo' = oo - ratio.oc
  /\ driver' = "advance"
  /\ UNCHANGED <<ring, ss, count, mixer>>

\* Mutant: the ring is filled only once it has run empty.
LowWhenEmpty(r) == AvailFrom(r) < 1

\* Too little is left for the next window.
Low(r) == AvailFrom(r) < Window

\* Mutant: the phase is not brought back.
PhaseKept == oo

PhaseUp == oo + ratio.ic

\* The window moves on by one sample, and the ring is filled when it runs low.
Advance ==
  /\ driver = "advance"
  /\ oo < 0
  /\ read_ptr' = Stepped(read_ptr, 1)
  /\ IF Low(read_ptr') THEN FillMain(Greater(ss, count), read_ptr')
     ELSE UNCHANGED <<write_ptr, label, next>>
  /\ ss' = 0
  /\ oo' = PhaseUp
  /\ UNCHANGED <<size, ratio, driver, count, mixer>>

\* Get goes on to the next sample, or gives the mutex back.
SampleDone ==
  /\ driver = "advance"
  /\ oo >= 0
  /\ count' = count - 1
  /\ ss' = IF count = 1 THEN 0 ELSE ss
  /\ driver' = IF count = 1 THEN "idle" ELSE "filter"
  /\ UNCHANGED <<ring, oo, mixer>>

DriverStep == Filter \/ Advance \/ SampleDone

----------------------------------------------------------------------------
(* The emulation thread                                                    *)

\* The CPU runs, and a sound source or the timer calls Update.
CpuRuns(n) ==
  /\ to_fill = 0
  /\ clock + n <= MaxClock
  /\ clock' = clock + n
  /\ UNCHANGED <<ring, output, enabled, prev_clock, remainder, threshold, to_fill>>

\* PC88::Reset sets the clocks of the CPU back; Sound is not told.
ResetCpu ==
  /\ to_fill = 0
  /\ clock' = 0
  /\ UNCHANGED <<ring, output, enabled, prev_clock, remainder, threshold, to_fill>>

\* Clocks not turned into samples yet.
Elapsed == clock - prev_clock + remainder

\* Clocks left over once n samples were made of them.
Left(n, speed) == Elapsed - (speed * n) \div MixRate

\* Update finds out what to synthesise; a clock below the previous one gives a
\* negative number of clocks, which is below the threshold.
Update(speed) ==
  /\ to_fill = 0
  /\ enabled
  /\ Elapsed >= threshold
  /\ to_fill' = (MixRate * Elapsed) \div speed
  /\ to_fill' > 0
  /\ remainder' = Left(to_fill', speed)
  /\ UNCHANGED <<ring, output, enabled, clock, prev_clock, threshold>>

\* Update fills the ring, under its mutex, and returns.
Fill ==
  /\ to_fill > 0
  /\ ~RingLocked
  /\ FillMain(to_fill, read_ptr)
  /\ prev_clock' = clock
  /\ to_fill' = 0
  /\ UNCHANGED <<size, read_ptr, ratio, output, enabled, clock, remainder, threshold>>

----------------------------------------------------------------------------
(* The UI thread                                                           *)

\* Init of the ring: silence, read from the first full window on; MakeFilter sets
\* the ratio and the phase.
NewRing(n, r) ==
  /\ size' = n
  /\ read_ptr' = Window
  /\ write_ptr' = 0
  /\ label' = [c \in 0 .. n - 1 |-> n + c]
  /\ next' = 0
  /\ ratio' = r
  /\ oo' = 0

\* SetRate makes a new ring; asked for size 0 it only turns mixing off, and the
\* old ring stays.
SetRate(n, r) ==
  /\ enabled' = (n > 0)
  /\ IF n > 0 THEN NewRing(n, r) /\ remainder' = 0
     ELSE UNCHANGED <<ring, oo, remainder>>

\* ApplyConfig with another rate, length or driver: ChangeRate stops the driver,
\* sets the rate, and looks for a driver that starts (none accepts rate 0); when
\* there is none mixing is turned off again.  The lock of the emulation thread
\* is not held.
ChangeRate(n, r, limit, started) ==
  /\ ~RingLocked
  /\ threshold' = limit
  /\ IF started \/ n = 0
       THEN SetRate(n, r)
       ELSE enabled' = FALSE /\ NewRing(n, r) /\ remainder' = 0
  /\ driver' = IF started /\ n > 0 THEN "idle" ELSE "off"
  /\ UNCHANGED <<ss, count, clock, prev_clock, to_fill>>

\* With rate, buffer and driver as they were only the threshold is taken over.
ApplyConfig(limit) ==
  /\ threshold' = limit
  /\ UNCHANGED <<ring, output, enabled, clock, prev_clock, remainder, to_fill>>

Next ==
  \/ \E n \in 1 .. MaxSamples : BeginGet(n)
  \/ DriverStep
  \/ \E n \in Bursts : CpuRuns(n)
  \/ ResetCpu
  \/ \E speed \in Speeds : Update(speed)
  \/ Fill
  \/ \E n \in Sizes, r \in Ratios, limit \in Thresholds, started \in BOOLEAN :
       ChangeRate(n, r, limit, started)
  \/ \E limit \in Thresholds : ApplyConfig(limit)

Spec == Init /\ [][Next]_vars

\* The driver thread runs on inside Get; it waits for nothing there.
FairSpec == Spec /\ WF_vars(DriverStep)
----------------------------------------------------------------------------
(* Properties                                                              *)

TypeOK ==
  /\ size \in Sizes \union {0}
  /\ size > 0 => /\ read_ptr \in 0 .. size - 1
                 /\ write_ptr \in 0 .. size - 1
                 /\ label \in [0 .. size - 1 -> 0 .. Wrap - 1]
                 /\ next \in 0 .. Wrap - 1
  /\ ratio \in Ratios
  /\ oo \in Int
  /\ driver \in {"off", "idle", "filter", "advance"}
  /\ driver # "off" => size > 0
  /\ ss \in 0 .. MaxSamples
  /\ count \in 0 .. MaxSamples
  /\ enabled \in BOOLEAN
  /\ clock \in Nat
  /\ prev_clock \in Nat
  /\ remainder \in Int
  /\ threshold \in Thresholds
  /\ to_fill \in Nat
  /\ to_fill > 0 => size > 0

\* A ring of four half windows and two samples starts with a window to read.
Roomy == size >= 2 * Window

\* When a sample is computed its whole window has been written, and no cell of
\* it has been overtaken by the writer, whoever filled the ring.
WindowIsReal == driver = "filter" /\ Roomy => Avail >= Window

\* The window holds consecutive samples, across the end of the ring and across
\* fills of both threads.
WindowInOrder ==
  driver = "filter" /\ Roomy =>
    \A k \in 0 .. 2 * M :
      label[(read_ptr + k) % size] = (label[read_ptr] + k) % Wrap

\* The cells still to be read, without the one the driver is leaving.
Unread == {c \in 0 .. size - 1 : (c - read_ptr) % size \in 1 .. Avail - 1}

Remade ==
  \E n \in Sizes, r \in Ratios, limit \in Thresholds, started \in BOOLEAN :
    ChangeRate(n, r, limit, started)

\* No fill, of either thread, overwrites a sample that waits to be read.
NothingDropped == [][Remade \/ \A c \in Unread : label'[c] = label[c]]_vars

\* Less than one sample of time, plus one clock of rounding, is carried over
\* between updates, however the speed changed since.
RemainderUnderOneSample ==
  /\ remainder >= 0
  /\ \E speed \in Speeds : remainder * MixRate < speed + MixRate

\* The sound is what the machine made, at the rate it was made: the windows of the
\* filter are whole and in order, and no time is lost between updates.
SoundInOrder == TypeOK /\ WindowIsReal /\ WindowInOrder /\ RemainderUnderOneSample

\* The driver gets what it asked for and gives the mutex back.
GetReturns == (driver = "filter") ~> (driver = "idle")
====

---- MODULE Execution ----
(***************************************************************************)
(* SchedulerImpl and the two Z80s under the scheduler: ExecuteNS runs the  *)
(* main CPU alone, or both of them 1:1 or 2:1, instruction by instruction; *)
(* GetNS reads the cycle counter of the CPU that is executing; ShortenNS   *)
(* rewrites that counter.  Every step here is a step of Scheduler joined   *)
(* with what it does to the CPUs, so the scheduler's invariants carry      *)
(* over; what has to be shown is that the CPUs honour the contract the     *)
(* scheduler assumes of ExecuteNS.                                         *)
(***************************************************************************)
EXTENDS Scheduler

CONSTANTS
  MaxInsn,      \* clocks of the longest instruction
  ClockRates,   \* values of cpu_clock_, clocks per second
  PerSecond,    \* kNanoSecsPerSec, in units of model time
  Modes,        \* values of cpu_mode_: [ms21, stopwhenidle : BOOLEAN]
  MaxCalls,     \* bound on scheduler calls from I/O within one slice
  HalfInt       \* 2^31: the ints go from -HalfInt to HalfInt - 1

\* The overrun the scheduler allows is that of one instruction of the sub CPU,
\* whose clocks count twice in 2:1 mode.
ASSUME ExecutionAssumption ==
  /\ MaxInsn \in Nat \ {0} /\ PerSecond \in Nat \ {0} /\ MaxCalls \in Nat
  /\ HalfInt \in Nat \ {0}
  /\ ClockRates \subseteq 1 .. PerSecond
  /\ Modes \subseteq [ms21 : BOOLEAN, stopwhenidle : BOOLEAN]
  /\ \A r \in ClockRates : 2 * (MaxInsn * (PerSecond \div r)) <= Overrun + 1

Cpus == {"main", "sub"}

VARIABLES
  exec_cycles,   \* exec_cycles_ of each CPU, up to the last SyncCycles
  cycles,        \* cycles_ of each CPU, since then
  current,       \* currentcpu, or "none"
  cpu_clock,     \* cpu_clock_ of this call of ProceedNS
  cpu_mode,      \* cpu_mode_
  how,           \* the Exec function running the slice
  start,         \* its local start, in clocks
  clocks,        \* and the clocks it was asked for
  in_insn,       \* the current CPU is inside SingleStep
  calls,         \* scheduler calls made in this slice (bounded)
  saved,         \* the snapshot file: what it holds of the CPUs
  ratio_lost,    \* history: the clocks were not kept in the ratio now in force
  torn           \* history: a clock loaded from a snapshot had not fitted an int

cpus == <<exec_cycles, cycles, current, cpu_clock, cpu_mode, how, start, clocks,
          in_insn, calls, saved, ratio_lost, torn>>
xvars == <<vars, cpus>>

NsPerClock == PerSecond \div cpu_clock

GetClocks(c) == exec_cycles[c] + cycles[c]

\* The clocks of a CPU as ExecDual and ExecDual2 compare them.
SubFactor == IF how = "dual2" THEN 2 ELSE 1
Scaled(c) == IF c = "sub" THEN GetClocks(c) * SubFactor ELSE GetClocks(c)

Lesser(a, b) == IF a < b THEN a ELSE b

\* GetCCount in time units: the counter of whichever CPU is current.
GetNS == IF current = "none" THEN 0 ELSE cycles[current] * NsPerClock

XInit ==
  /\ Init
  /\ exec_cycles = [c \in Cpus |-> 0]
  /\ cycles = [c \in Cpus |-> 0]
  /\ current = "none"
  /\ cpu_clock \in ClockRates
  /\ cpu_mode \in Modes
  /\ how = "none"
  /\ start = 0
  /\ clocks = 0
  /\ in_insn = FALSE
  /\ calls = 0
  /\ saved = [clocks |-> exec_cycles, mode |-> cpu_mode, ratio_lost |-> FALSE, torn |-> FALSE]
  /\ ratio_lost = FALSE
  /\ torn = FALSE

\* A call of ProceedNS sets the clock of the machine first: a new configuration
\* leaves it with the emulation loop, which passes it on here.
XProceed(ns, rate) ==
  /\ Proceed(ns)
  /\ cpu_clock' = rate
  /\ UNCHANGED <<exec_cycles, cycles, current, cpu_mode, how, start, clocks, in_insn,
                 calls, saved, ratio_lost, torn>>

\* ApplyConfig takes no lock: the mode changes at any time, within a slice too.
\* (PC88::Execute looks at it twice and ApplyConfig writes it in two steps; a
\* mixture of the old and the new value runs both CPUs, as every mode may.)
ApplyConfig(mode) ==
  /\ cpu_mode' = mode
  /\ ratio_lost' = (ratio_lost \/ mode.ms21 # cpu_mode.ms21)
  /\ UNCHANGED <<vars, exec_cycles, cycles, current, cpu_clock, how, start, clocks,
                 in_insn, calls, saved, torn>>

\* Reset and the snapshots take the lock, which is free between two slices.
Reset ==
  /\ pc = "idle"
  /\ exec_cycles' = [c \in Cpus |-> 0]
  /\ ratio_lost' = FALSE
  /\ torn' = FALSE
  /\ UNCHANGED <<vars, cycles, current, cpu_clock, cpu_mode, how, start, clocks,
                 in_insn, calls, saved>>

RatioOf(mode) == IF mode.ms21 THEN 2 ELSE 1

\* The field execcount of a snapshot is an int.
AsInt(n) == ((n + HalfInt) % (2 * HalfInt)) - HalfInt

Skew(e, mode) == e["main"] - RatioOf(mode) * e["sub"]

\* SaveStatus of both CPUs, and the mode beside them.
SaveSnapshot ==
  /\ pc = "idle"
  /\ LET kept == [c \in Cpus |-> AsInt(exec_cycles[c])]
     IN saved' = [clocks |-> kept, mode |-> cpu_mode,
                  ratio_lost |-> ratio_lost \/ Skew(kept, cpu_mode) # Skew(exec_cycles, cpu_mode),
                  torn |-> torn \/ kept # exec_cycles]
  /\ UNCHANGED <<vars, exec_cycles, cycles, current, cpu_clock, cpu_mode, how, start,
                 clocks, in_insn, calls, ratio_lost, torn>>

\* WinCore::LoadSnapshot: the mode first, then LoadStatus of both CPUs.
LoadSnapshot ==
  /\ pc = "idle"
  /\ exec_cycles' = saved.clocks
  /\ cpu_mode' = saved.mode
  /\ ratio_lost' = saved.ratio_lost
  /\ torn' = saved.torn
  /\ UNCHANGED <<vars, cycles, current, cpu_clock, how, start, clocks, in_insn, calls, saved>>

----------------------------------------------------------------------------
(* ExecuteNS                                                               *)

ClocksFor(ns) == Clamped((cpu_clock * ns) \div PerSecond)

\* PC88::Execute: the sub CPU is left out while it polls and the FDC is idle.
Choices ==
  {IF cpu_mode.ms21 THEN "dual2" ELSE "dual"} \union
  (IF cpu_mode.stopwhenidle THEN {"single"} ELSE {})

XBeginSlice ==
  /\ BeginSlice
  /\ \E h \in Choices :
       /\ how' = h
       /\ current' = IF h = "dual2" THEN "main" ELSE current
       /\ start' = CASE h = "single" -> GetClocks("main")
                     [] h = "dual"   -> Lesser(GetClocks("main"), GetClocks("sub"))
                     [] h = "dual2"  -> Lesser(GetClocks("main"), 2 * GetClocks("sub"))
  /\ clocks' = ClocksFor(ptime_ns')
  /\ UNCHANGED <<exec_cycles, cycles, cpu_clock, cpu_mode, in_insn, calls, saved, ratio_lost,
                 torn>>

Running == IF how = "single" THEN {"main"} ELSE Cpus

\* Mutant: the slice ends as soon as one of the CPUs has done its share.
SomeCpuDone == \E c \in Running : Scaled(c) >= start + clocks

SliceDone == \A c \in Running : Scaled(c) >= start + clocks

\* The CPU that lags runs next; on a tie the sub CPU does.
NextCpu ==
  IF how = "single" \/ Scaled("main") < Scaled("sub") THEN "main" ELSE "sub"

\* SingleStep begins: from here on I/O of this instruction calls devices.
BeginInsn ==
  /\ pc = "execute"
  /\ ~in_insn
  /\ ~SliceDone
  /\ current' = NextCpu
  /\ in_insn' = TRUE
  /\ UNCHANGED <<exec_cycles, cycles, cpu_clock, cpu_mode, how, start, clocks, calls,
                 saved, ratio_lost, torn>>
  /\ CpuRuns
  /\ cpu_ns' = GetNS'

\* The instruction has taken n clocks; a Stop made inside it is kept.
EndInsn(n) ==
  /\ pc = "execute"
  /\ in_insn
  /\ cycles' = [cycles EXCEPT ![current] = @ + n]
  /\ in_insn' = FALSE
  /\ UNCHANGED <<exec_cycles, current, cpu_clock, cpu_mode, how, start, clocks, calls,
                 saved, ratio_lost, torn>>
  /\ CpuRuns
  /\ cpu_ns' = GetNS'

\* ShortenNS -> StopDual -> Stop: the counter of the current CPU is replaced
\* by the negated number of clocks the slice was to lose.
Stop(lost_ns) ==
  cycles' = [cycles EXCEPT ![current] = -((lost_ns * cpu_clock) \div PerSecond)]

\* A call that comes while the CPUs execute is made inside an instruction.
XDeviceCall(d) ==
  /\ pc = "execute" => in_insn /\ calls < MaxCalls
  /\ DeviceCall(d)
  /\ IF endtime_ns' < endtime_ns THEN Stop(endtime_ns - endtime_ns') ELSE UNCHANGED cycles
  /\ calls' = IF pc = "execute" THEN calls + 1 ELSE calls
  /\ UNCHANGED <<exec_cycles, current, cpu_clock, cpu_mode, how, start, clocks, in_insn,
                 saved, ratio_lost, torn>>
  /\ cpu_ns' = GetNS'

\* Clocks the slice has taken: those of the slower CPU.
Executed ==
  (IF how = "single" THEN GetClocks("main") ELSE Lesser(Scaled("main"), Scaled("sub"))) - start

\* Mutant: the sub CPU keeps its own clock while the main one runs alone.
SyncedEach == [c \in Cpus |-> GetClocks(c)]

\* SyncCycles on both; ExecSingle drags the clock of the sub CPU along.
Synced ==
  IF how = "single" THEN [c \in Cpus |-> GetClocks("main")]
  ELSE [c \in Cpus |-> GetClocks(c)]

Cleared == [c \in Cpus |-> 0]

XExecuteReturns ==
  /\ SliceDone
  /\ ~in_insn
  /\ ExecuteReturns(Executed * NsPerClock)
  /\ exec_cycles' = Synced
  /\ cycles' = Cleared
  /\ ratio_lost' = (ratio_lost \/ (how = "single" /\ cpu_mode.ms21))
  /\ how' = "none"
  /\ start' = 0
  /\ clocks' = 0
  /\ calls' = 0
  /\ UNCHANGED <<current, cpu_clock, cpu_mode, in_insn, saved, torn>>

\* The steps of the scheduler that leave the CPUs alone.
SchedulerOnly ==
  /\ \/ \E s \in Slots : FireEvent(s)
     \/ CallbackReturns
     \/ FiringDone
     \/ ProceedReturns
  /\ UNCHANGED cpus

XNext ==
  \/ \E ns \in Lengths, rate \in ClockRates : XProceed(ns, rate)
  \/ \E mode \in Modes : ApplyConfig(mode)
  \/ Reset
  \/ SaveSnapshot
  \/ LoadSnapshot
  \/ XBeginSlice
  \/ BeginInsn
  \/ \E n \in 1 .. MaxInsn : EndInsn(n)
  \/ \E d \in Devices : XDeviceCall(d)
  \/ XExecuteReturns
  \/ SchedulerOnly

XSpec == XInit /\ [][XNext]_xvars
----------------------------------------------------------------------------
(* Properties                                                              *)

XTypeOK ==
  /\ exec_cycles \in [Cpus -> Int]
  /\ cycles \in [Cpus -> Int]
  /\ current \in Cpus \union {"none"}
  /\ how \in {"none", "single", "dual", "dual2"}
  /\ calls \in 0 .. MaxCalls
  /\ in_insn => pc = "execute" /\ current # "none"

\* ExecuteNS keeps the contract of the scheduler in every mode, however the
\* counters were rewritten meanwhile: it returns at least one unit of time and
\* at most one overrun more than it was asked for.  It is that of a single
\* instruction unless the clocks were torn apart by a snapshot.
ContractKept ==
  pc = "execute" /\ SliceDone /\ ~in_insn =>
    /\ Executed * NsPerClock \in 1 .. ptime_ns + Overrun
    /\ ~torn => Executed < clocks + MaxInsn

\* Outside a slice GetNS shows nothing left over of the last one, so that
\* callbacks arm their timers from the time the slice ended at.
CountersSynced == pc # "execute" => cpu_ns = GetNS /\ GetNS = 0

\* Between slices the CPUs are less than one instruction apart, in the ratio
\* in force since the last reset, although a Stop inside a slice sets one of
\* them back, and after a snapshot as they were when it was taken: unless the
\* mode was changed, in a slice or between two, the sub CPU was left out, or
\* the snapshot did not keep the distance.
SkewBounded ==
  pc # "execute" /\ ~ratio_lost =>
    /\ Skew([c \in Cpus |-> GetClocks(c)], cpu_mode) < MaxInsn
    /\ -Skew([c \in Cpus |-> GetClocks(c)], cpu_mode) < RatioOf(cpu_mode) * MaxInsn

\* The two CPUs and the scheduler agree about the time, in a slice and between two.
CpusInStep == XTypeOK /\ ContractKept /\ CountersSynced /\ SkewBounded

\* In 2:1 mode both CPUs run: the sub CPU makes progress in every slice longer
\* than its longest instruction.
SubGetsItsShare ==
  [][XExecuteReturns /\ how = "dual2" /\ clocks > 2 * MaxInsn =>
       exec_cycles'["sub"] > exec_cycles["sub"]]_xvars

\* A new event ends the slice early: no one-shot event fires later than one
\* instruction after its time.
FiredOnTime ==
  [][\A s \in Slots :
       FireEvent(s) /\ events[s].time_ns = 0 =>
         time_ns - events[s].count_ns < MaxInsn * NsPerClock]_xvars
====

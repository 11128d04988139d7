---- MODULE ExecutionProofs ----
(***************************************************************************)
(* The two Z80s under the scheduler, for every clock rate, every mode and  *)
(* every length of instruction: ExecuteNS keeps the contract module        *)
(* Scheduler assumes of it, so that every behaviour of module Execution is *)
(* a behaviour of Scheduler and all that is proved there holds here; and   *)
(* between slices the CPUs are less than one instruction apart.            *)
(*                                                                         *)
(* The contract is not inductive: a Stop sets the counter of a CPU back    *)
(* inside an instruction, and a CPU may reach the end of the slice without *)
(* running at all when the other one lags.  What is kept is how far each   *)
(* of the two has come: a CPU that has run or runs began the slice before  *)
(* its end (Reached), and one that has not is less than an instruction     *)
(* ahead of the other from the slices before (Level), unless a snapshot    *)
(* has torn the clocks apart.  The same is kept of the snapshot itself.    *)
(***************************************************************************)
EXTENDS Execution, SchedulerProofs

Asked == start + clocks

\* n clocks of CPU c, as the loop of the slice compares them.
Of(c, n) == IF c = "sub" THEN n * SubFactor ELSE n

XTyped ==
  /\ XTypeOK
  /\ cpu_clock \in ClockRates /\ cpu_mode \in Modes
  /\ start \in Int /\ clocks \in Nat
  /\ in_insn \in BOOLEAN /\ ratio_lost \in BOOLEAN /\ torn \in BOOLEAN
  /\ saved \in [clocks : [Cpus -> Int], mode : Modes, ratio_lost : BOOLEAN, torn : BOOLEAN]

\* The slice that runs is the one that was asked for, in the mode in force
\* unless that was changed meanwhile.
HowRuns ==
  /\ pc = "execute" <=> how # "none"
  /\ how = "dual" => ~cpu_mode.ms21 \/ ratio_lost
  /\ how = "dual2" => cpu_mode.ms21 \/ ratio_lost
  /\ how # "none" =>
       /\ ptime_ns >= 1
       /\ clocks = ClocksFor(ptime_ns)
       /\ start = IF how = "single" THEN exec_cycles["main"]
                  ELSE Lesser(exec_cycles["main"], Of("sub", exec_cycles["sub"]))
  /\ how = "none" => \A c \in Cpus : cycles[c] = 0
  /\ in_insn => current \in Running

InInsn(c) == in_insn /\ c = current

\* How far a CPU has come in the slice.
ReachedBy(c) ==
  /\ InInsn(c) => Scaled(c) < Asked
  /\ Scaled(c) < Asked + Of(c, MaxInsn) \/ cycles[c] = 0
  /\ InInsn(c) \/ cycles[c] # 0 => Of(c, exec_cycles[c]) < Asked

Reached == how # "none" => \A c \in Running : ReachedBy(c)

\* How far apart the CPUs are with the clocks e: unless a snapshot cut a clock
\* off, and unless they were not kept in the ratio of the mode.
Whole(e) == e["main"] \in Nat /\ e["sub"] \in Nat /\ e["main"] - 2 * e["sub"] < MaxInsn
InRatio(e, mode) == Skew(e, mode) < MaxInsn /\ -Skew(e, mode) < RatioOf(mode) * MaxInsn
Level(e, mode, lost, cut) == (~cut => Whole(e)) /\ (~lost => InRatio(e, mode))

Levelled == Level(exec_cycles, cpu_mode, ratio_lost, torn)
SavedLevel == Level(saved.clocks, saved.mode, saved.ratio_lost, saved.torn)

XInv == IInv /\ XTyped /\ HowRuns /\ Reached /\ Levelled /\ SavedLevel

----------------------------------------------------------------------------
(* Clocks and time                                                         *)

LEMMA DivFacts ==
  ASSUME NEW a \in Nat, NEW w \in Nat \ {0}
  PROVE  w * (a \div w) <= a /\ a < w * (a \div w) + w /\ a \div w \in Nat
  OBVIOUS

LEMMA Difference == ASSUME NEW x \in Int, NEW y \in Int, y < x PROVE x - y \in Nat
  OBVIOUS

LEMMA CancelFactor ==
  ASSUME NEW x \in Nat, NEW y \in Nat, NEW w \in Nat \ {0}, w * x <= w * y
  PROVE  x <= y
  OBVIOUS

LEMMA TimesMonotone ==
  ASSUME NEW x \in Nat, NEW y \in Nat, NEW w \in Nat, x <= y
  PROVE  x * w <= y * w /\ x * w \in Nat
  OBVIOUS

\* A clock takes some time, and a whole instruction of the sub CPU in 2:1 mode
\* at most one overrun more than one unit.
LEMMA ClockFacts ==
  ASSUME cpu_clock \in ClockRates
  PROVE  /\ cpu_clock \in Nat \ {0} /\ NsPerClock \in Nat \ {0}
         /\ cpu_clock * NsPerClock <= PerSecond
         /\ 2 * (MaxInsn * NsPerClock) <= Overrun + 1
<1>1. cpu_clock \in Nat \ {0} /\ cpu_clock <= PerSecond /\ PerSecond \in Nat
  BY ExecutionAssumption
<1>2. /\ cpu_clock * NsPerClock <= PerSecond /\ NsPerClock \in Nat
      /\ PerSecond < cpu_clock * NsPerClock + cpu_clock
  BY <1>1, DivFacts DEF NsPerClock
<1>3. NsPerClock # 0
  BY <1>1, <1>2
<1>4. 2 * (MaxInsn * NsPerClock) <= Overrun + 1
  BY ExecutionAssumption DEF NsPerClock
<1> QED BY <1>1, <1>2, <1>3, <1>4

\* The clocks of a slice fit into its length, or there is just one.
LEMMA ClocksFit ==
  ASSUME cpu_clock \in ClockRates, NEW ns \in Nat
  PROVE  /\ ClocksFor(ns) \in Nat \ {0}
         /\ ClocksFor(ns) = 1 \/ ClocksFor(ns) * NsPerClock <= ns
<1> DEFINE r == cpu_clock
           p == NsPerClock
           q == (r * ns) \div PerSecond
<1>1. r \in Nat \ {0} /\ p \in Nat \ {0} /\ r * p <= PerSecond /\ PerSecond \in Nat \ {0}
  BY ClockFacts, ExecutionAssumption
<1>2. r * ns \in Nat
  BY <1>1
<1>3. PerSecond * q <= r * ns /\ q \in Nat
  BY <1>1, <1>2, DivFacts
<1>4. ClocksFor(ns) = IF q < 1 THEN 1 ELSE q
  BY DEF ClocksFor, Clamped
<1> HIDE DEF p, q, r
<1>5. r * (q * p) <= r * ns
  <2>1. (r * p) * q <= PerSecond * q
    <3>1. r * p \in Nat
      BY <1>1
    <3> QED BY <1>1, <1>3, <3>1, TimesMonotone
  <2>2. r * (q * p) = (r * p) * q
    BY <1>1, <1>3
  <2>3. r * (q * p) \in Nat /\ PerSecond * q \in Nat
    BY <1>1, <1>3
  <2> QED BY <1>2, <1>3, <2>1, <2>2, <2>3
<1>6. q * p <= ns
  <2>1. q * p \in Nat
    BY <1>1, <1>3
  <2> QED BY <1>1, <1>5, <2>1, CancelFactor
<1> QED BY <1>3, <1>4, <1>6 DEF p

----------------------------------------------------------------------------
(* The contract of ExecuteNS                                               *)

\* When both CPUs have done their share the slower one has run at least one
\* clock, and less than an instruction past the end: one of the sub CPU, twice
\* as long, where a snapshot has left the main one far ahead.
LEMMA ExecutedBounds ==
  ASSUME XInv, pc = "execute", SliceDone, ~in_insn
  PROVE  /\ clocks \in Nat \ {0}
         /\ Executed \in 1 .. clocks - 1 + 2 * MaxInsn
         /\ ~torn => Executed < clocks + MaxInsn
<1>1. /\ exec_cycles \in [Cpus -> Int] /\ cycles \in [Cpus -> Int]
      /\ start \in Int /\ MaxInsn \in Nat \ {0} /\ ptime_ns \in Nat
      /\ how \in {"single", "dual", "dual2"}
  BY ExecutionAssumption DEF XInv, XTyped, XTypeOK, HowRuns, IInv, TypeOK
<1>2. clocks \in Nat \ {0}
  BY <1>1, ClocksFit DEF XInv, HowRuns, XTyped
<1> DEFINE em == exec_cycles["main"]
           es == exec_cycles["sub"]
           cm == cycles["main"]
           cs == cycles["sub"]
<1>3. em \in Int /\ es \in Int /\ cm \in Int /\ cs \in Int
  BY <1>1 DEF Cpus
<1>4. ~torn => em \in Nat /\ es \in Nat /\ em - 2 * es < MaxInsn
  BY DEF XInv, Levelled, Level, Whole
<1>5. CASE how = "single"
  <2>1. em + cm >= start + clocks /\ start = em
    BY <1>5 DEF SliceDone, Running, Scaled, GetClocks, XInv, HowRuns
  <2>2. em + cm < start + clocks + MaxInsn \/ cm = 0
    BY <1>5 DEF XInv, Reached, ReachedBy, Running, Scaled, GetClocks, Of, Asked
  <2>3. Executed = em + cm - start
    BY <1>1, <1>3, <1>5 DEF Executed, GetClocks
  <2> HIDE DEF em, es, cm, cs
  <2> QED BY <1>1, <1>2, <1>3, <2>1, <2>2, <2>3
<1>6. CASE how = "dual"
  <2>1. /\ em + cm >= start + clocks /\ (es + cs) * 1 >= start + clocks
        /\ start = Lesser(em, es * 1)
    BY <1>6 DEF SliceDone, Running, Cpus, Scaled, GetClocks, SubFactor, XInv, HowRuns, Of
  <2>2. /\ em + cm < start + clocks + MaxInsn \/ cm = 0
        /\ (es + cs) * 1 < start + clocks + MaxInsn * 1 \/ cs = 0
    BY <1>6 DEF XInv, Reached, ReachedBy, Running, Cpus, Scaled, GetClocks, Of, SubFactor, Asked
  <2>3. Executed = Lesser(em + cm, (es + cs) * 1) - start
    BY <1>6 DEF Executed, GetClocks, Scaled, SubFactor
  <2> HIDE DEF em, es, cm, cs
  <2> QED BY <1>1, <1>2, <1>3, <2>1, <2>2, <2>3 DEF Lesser
<1>7. CASE how = "dual2"
  <2>1. /\ em + cm >= start + clocks /\ (es + cs) * 2 >= start + clocks
        /\ start = Lesser(em, es * 2)
    BY <1>7 DEF SliceDone, Running, Cpus, Scaled, GetClocks, SubFactor, XInv, HowRuns, Of
  <2>2. /\ em + cm < start + clocks + MaxInsn \/ cm = 0
        /\ (es + cs) * 2 < start + clocks + MaxInsn * 2 \/ cs = 0
    BY <1>7 DEF XInv, Reached, ReachedBy, Running, Cpus, Scaled, GetClocks, Of, SubFactor, Asked
  <2>3. Executed = Lesser(em + cm, (es + cs) * 2) - start
    BY <1>7 DEF Executed, GetClocks, Scaled, SubFactor
  <2> HIDE DEF em, es, cm, cs
  <2> QED BY <1>1, <1>2, <1>3, <1>4, <2>1, <2>2, <2>3 DEF Lesser
<1> QED BY <1>1, <1>2, <1>5, <1>6, <1>7

\* In time: at least one unit and at most one overrun more than asked.
LEMMA ContractHolds ==
  ASSUME XInv, pc = "execute", SliceDone, ~in_insn
  PROVE  Executed * NsPerClock \in 1 .. ptime_ns + Overrun
<1> DEFINE p == NsPerClock
           k == clocks - 1 + 2 * MaxInsn
<1>1. /\ p \in Nat \ {0} /\ 2 * (MaxInsn * p) <= Overrun + 1
      /\ MaxInsn \in Nat \ {0} /\ Overrun \in Nat /\ ptime_ns \in Nat /\ ptime_ns >= 1
  BY ClockFacts, ExecutionAssumption, SchedulerAssumption
     DEF XInv, XTyped, HowRuns, IInv, TypeOK
<1>2. clocks \in Nat \ {0} /\ Executed \in 1 .. k
  BY ExecutedBounds
<1>3. clocks = 1 \/ clocks * p <= ptime_ns
  BY <1>1, ClocksFit DEF XInv, XTyped, HowRuns
<1>4. Executed \in Nat /\ Executed >= 1 /\ Executed <= k /\ k \in Nat
  BY <1>1, <1>2
<1> HIDE DEF p
<1>5. Executed * p <= k * p /\ Executed * p \in Nat
  <2> HIDE DEF k
  <2> QED BY <1>1, <1>4, TimesMonotone
<1>6. 1 * p <= Executed * p
  BY <1>1, <1>4, TimesMonotone
<1>7. k * p <= ptime_ns + Overrun
  <2>1. CASE clocks = 1
    BY <1>1, <2>1
  <2>2. CASE clocks * p <= ptime_ns
    <3>1. k * p = clocks * p - p + 2 * (MaxInsn * p)
      BY <1>1, <1>2
    <3>2. clocks * p \in Nat /\ MaxInsn * p \in Nat
      BY <1>1, <1>2
    <3> HIDE DEF k
    <3> QED BY <1>1, <2>2, <3>1, <3>2
  <2> QED BY <1>3, <2>1, <2>2
<1>8. Executed * p \in 1 .. ptime_ns + Overrun
  <2>1. k * p \in Nat
    BY <1>1, <1>4
  <2> HIDE DEF k
  <2> QED BY <1>1, <1>4, <1>5, <1>6, <1>7, <2>1
<1> QED BY <1>8 DEF p

----------------------------------------------------------------------------
(* Every step is a step of the scheduler                                   *)

LEMMA XStepImplements == ASSUME XInv, [XNext]_xvars PROVE [Next]_vars
<1>1. ASSUME XExecuteReturns PROVE Next
  <2>1. pc = "execute" /\ SliceDone /\ ~in_insn /\ ExecuteReturns(Executed * NsPerClock)
    BY <1>1 DEF XExecuteReturns, ExecuteReturns
  <2>2. Executed * NsPerClock \in 1 .. ptime_ns + Overrun
    BY <2>1, ContractHolds
  <2> QED BY <2>1, <2>2 DEF Next, ProceedStep
<1>2. CASE \E ns \in Lengths, rate \in ClockRates : XProceed(ns, rate)
  BY <1>2 DEF XProceed, Next
<1>3. CASE \/ \E mode \in Modes : ApplyConfig(mode)
           \/ Reset \/ SaveSnapshot \/ LoadSnapshot \/ UNCHANGED xvars
  BY <1>3 DEF ApplyConfig, Reset, SaveSnapshot, LoadSnapshot, xvars
<1>4. CASE XBeginSlice
  BY <1>4 DEF XBeginSlice, Next, ProceedStep
<1>5. CASE BeginInsn \/ \E n \in 1 .. MaxInsn : EndInsn(n)
  BY <1>5 DEF BeginInsn, EndInsn, Next
<1>6. CASE \E d \in Devices : XDeviceCall(d)
  BY <1>6 DEF XDeviceCall, Next
<1>7. CASE SchedulerOnly
  BY <1>7 DEF SchedulerOnly, Next, ProceedStep
<1> QED BY <1>1, <1>2, <1>3, <1>4, <1>5, <1>6, <1>7 DEF XNext

----------------------------------------------------------------------------
(* The invariant                                                           *)

LEMMA RatioFacts == ASSUME NEW mode \in Modes PROVE RatioOf(mode) \in {1, 2} /\ mode.ms21 \in BOOLEAN
BY ExecutionAssumption DEF RatioOf

\* After a reset the clocks are level in every mode.
LEMMA LevelAtZero ==
  ASSUME NEW mode \in Modes, NEW lost, NEW cut
  PROVE  Level([c \in Cpus |-> 0], mode, lost, cut)
<1> DEFINE e == [c \in Cpus |-> 0]
<1>1. e["main"] = 0 /\ e["sub"] = 0 /\ MaxInsn \in Nat \ {0}
  BY ExecutionAssumption DEF Cpus
<1> HIDE DEF e
<1>2. Skew(e, mode) = 0
  BY <1>1, RatioFacts DEF Skew
<1>3. RatioOf(mode) * MaxInsn \in Nat \ {0}
  BY <1>1, RatioFacts
<1>4. InRatio(e, mode)
  BY <1>1, <1>2, <1>3 DEF InRatio
<1>5. Level(e, mode, lost, cut)
  BY <1>1, <1>4 DEF Level, Whole
<1> QED BY <1>5 DEF e

LEMMA XInitEstablishes == XInit => XInv
<1> SUFFICES ASSUME XInit PROVE XInv
  OBVIOUS
<1>1. IInv
  BY InitEstablishes DEF XInit
<1>2. MaxCalls \in Nat /\ MaxInsn \in Nat \ {0}
  BY ExecutionAssumption
<1>3. XTyped
  <2>1. in_insn \in BOOLEAN /\ ratio_lost \in BOOLEAN /\ torn \in BOOLEAN /\ ~in_insn
    BY DEF XInit
  <2>2. exec_cycles \in [Cpus -> Int] /\ cycles \in [Cpus -> Int]
    BY DEF XInit
  <2>3. /\ current \in Cpus \union {"none"} /\ how \in {"none", "single", "dual", "dual2"}
        /\ calls \in 0 .. MaxCalls /\ start \in Int /\ clocks \in Nat
        /\ cpu_clock \in ClockRates /\ cpu_mode \in Modes
    BY <1>2 DEF XInit
  <2>4. saved \in [clocks : [Cpus -> Int], mode : Modes, ratio_lost : BOOLEAN, torn : BOOLEAN]
    BY <2>2, <2>3 DEF XInit
  <2> QED BY <2>1, <2>2, <2>3, <2>4 DEF XTyped, XTypeOK
<1>4. HowRuns
  BY DEF XInit, Init, HowRuns
<1>5. Reached
  BY DEF XInit, Reached
<1>6. Levelled /\ SavedLevel
  <2>1. Level([c \in Cpus |-> 0], cpu_mode, FALSE, FALSE)
    BY <1>3, LevelAtZero DEF XTyped
  <2> QED BY <2>1 DEF XInit, Levelled, SavedLevel
<1> QED BY <1>1, <1>3, <1>4, <1>5, <1>6 DEF XInv

\* Steps of the scheduler and of its callers between slices.
LEMMA BetweenSlices ==
  ASSUME XInv, IInv', pc # "execute", pc' # "execute",
         UNCHANGED <<exec_cycles, cycles, how, in_insn, cpu_mode, ratio_lost, current, start,
                     clocks, calls, saved, torn>>,
         cpu_clock' \in ClockRates
  PROVE  XInv'
<1>1. XTyped'
  BY DEF XInv, XTyped, XTypeOK
<1>2. HowRuns'
  BY DEF XInv, XTyped, XTypeOK, HowRuns
<1>3. how' = "none"
  BY DEF XInv, HowRuns
<1>4. Levelled' /\ SavedLevel'
  BY DEF XInv, Levelled, SavedLevel
<1> QED BY <1>1, <1>2, <1>3, <1>4 DEF XInv, Reached

\* The slice begins with nothing counted since the last one.
LEMMA XBeginSliceKeeps == ASSUME XInv, IInv', XBeginSlice PROVE XInv'
<1>1. /\ pc = "round" /\ pc' = "execute" /\ ptime_ns' \in Nat
  BY DEF XBeginSlice, BeginSlice, IInv, TypeOK
<1>2. ptime_ns' >= 1
  <2>1. PICK p \in Ends : ptime_ns' = Clamped(p)
    BY DEF XBeginSlice, BeginSlice
  <2> QED BY <1>1, <2>1 DEF Clamped
<1>3. /\ exec_cycles \in [Cpus -> Int] /\ \A c \in Cpus : cycles[c] = 0
      /\ cpu_clock \in ClockRates /\ ~in_insn
      /\ UNCHANGED <<exec_cycles, cycles, cpu_clock, cpu_mode, in_insn, calls, ratio_lost,
                     saved, torn>>
      /\ clocks' = ClocksFor(ptime_ns')
  BY <1>1 DEF XInv, XTyped, XTypeOK, HowRuns, XBeginSlice
<1>4. clocks' \in Nat
  BY <1>1, <1>3, ClocksFit
<1>5. exec_cycles["main"] \in Int /\ exec_cycles["sub"] \in Int
      /\ GetClocks("main") = exec_cycles["main"] /\ GetClocks("sub") = exec_cycles["sub"]
  BY <1>3 DEF Cpus, GetClocks
<1>6. /\ how' \in {"single", "dual", "dual2"}
      /\ how' = "dual" => ~cpu_mode.ms21
      /\ how' = "dual2" => cpu_mode.ms21
  BY DEF XBeginSlice, Choices
<1>7. start' = IF how' = "single" THEN exec_cycles["main"]
               ELSE Lesser(exec_cycles["main"], Of("sub", exec_cycles["sub"])')
  BY <1>3, <1>5, <1>6 DEF XBeginSlice, Of, SubFactor
<1>8. start' \in Int
  BY <1>3, <1>5, <1>6, <1>7 DEF Lesser, Of, SubFactor
<1>9. current' \in Cpus \union {"none"}
  BY DEF XBeginSlice, Cpus, XInv, XTyped, XTypeOK
<1>10. XTyped'
  BY <1>3, <1>4, <1>6, <1>8, <1>9 DEF XInv, XTyped, XTypeOK
<1>11. HowRuns'
  <2>1. how' # "none" /\ pc' = "execute" /\ ~in_insn'
    BY <1>1, <1>3, <1>6
  <2>2. clocks' = ClocksFor(ptime_ns)'
    BY <1>3 DEF ClocksFor
  <2>3. start' = IF how' = "single" THEN exec_cycles["main"]'
                 ELSE Lesser(exec_cycles["main"], Of("sub", exec_cycles["sub"]))'
    BY <1>3, <1>7 DEF Of, SubFactor, Lesser
  <2>4. (how' = "dual" => ~cpu_mode'.ms21) /\ (how' = "dual2" => cpu_mode'.ms21)
    BY <1>3, <1>6
  <2> QED BY <1>2, <2>1, <2>2, <2>3, <2>4 DEF HowRuns
<1>12. Reached'
  BY <1>3 DEF Reached, ReachedBy, InInsn, Running, Cpus
<1>13. Levelled' /\ SavedLevel'
  BY <1>3 DEF XInv, Levelled, SavedLevel
<1> QED BY <1>10, <1>11, <1>12, <1>13 DEF XInv

\* What the invariant says of a slice that runs.
LEMMA InSlice ==
  ASSUME XInv, pc = "execute"
  PROVE  /\ exec_cycles \in [Cpus -> Int] /\ cycles \in [Cpus -> Int]
         /\ how \in {"single", "dual", "dual2"}
         /\ start \in Int /\ clocks \in Nat /\ MaxInsn \in Nat \ {0}
         /\ Running \subseteq Cpus /\ SubFactor \in {1, 2}
         /\ \A c \in Running : ReachedBy(c)
BY ExecutionAssumption
DEF XInv, XTyped, XTypeOK, HowRuns, Reached, Running, Cpus, SubFactor

\* A step inside a slice keeps the invariant when it leaves the slice as it is
\* and every CPU where it may be.
LEMMA InSliceKeeps ==
  ASSUME XInv, IInv', pc = "execute", pc' = "execute", ptime_ns' = ptime_ns,
         UNCHANGED <<exec_cycles, cpu_clock, cpu_mode, how, start, clocks, ratio_lost,
                     saved, torn>>,
         cycles' \in [Cpus -> Int], calls' \in 0 .. MaxCalls, in_insn' \in BOOLEAN,
         current' \in Cpus \union {"none"}, in_insn' => current' \in Running,
         \A c \in Running : ReachedBy(c)'
  PROVE  XInv'
<1>1. how # "none" /\ Running' = Running /\ Running \subseteq Cpus
  BY InSlice DEF Running
<1>2. in_insn' => current' # "none"
  BY <1>1 DEF Cpus
<1>3. XTyped'
  BY <1>2 DEF XInv, XTyped, XTypeOK
<1>4. HowRuns'
  <2>1. clocks' = ClocksFor(ptime_ns)'
    BY <1>1 DEF XInv, HowRuns, ClocksFor
  <2>2. start' = IF how' = "single" THEN exec_cycles["main"]'
                 ELSE Lesser(exec_cycles["main"], Of("sub", exec_cycles["sub"]))'
    BY <1>1 DEF XInv, HowRuns, Of, SubFactor, Lesser
  <2>3. /\ how' = "dual" => ~cpu_mode'.ms21 \/ ratio_lost'
        /\ how' = "dual2" => cpu_mode'.ms21 \/ ratio_lost'
        /\ ptime_ns' >= 1
    BY <1>1 DEF XInv, HowRuns
  <2> QED BY <1>1, <2>1, <2>2, <2>3 DEF HowRuns
<1>5. Reached'
  BY <1>1 DEF Reached
<1>6. Levelled' /\ SavedLevel'
  BY DEF XInv, Levelled, SavedLevel
<1> QED BY <1>3, <1>4, <1>5, <1>6 DEF XInv

\* The CPU that runs next is one that has not reached the end of the slice.
LEMMA BeginInsnKeeps == ASSUME XInv, IInv', BeginInsn PROVE XInv'
<1>1. /\ pc = "execute" /\ pc' = "execute" /\ ptime_ns' = ptime_ns /\ ~in_insn /\ in_insn' = TRUE
      /\ current' = NextCpu /\ ~SliceDone
      /\ UNCHANGED <<exec_cycles, cycles, cpu_clock, cpu_mode, how, start, clocks, calls,
                     ratio_lost, saved, torn>>
  BY DEF BeginInsn, CpuRuns
<1>2. NextCpu \in Running /\ NextCpu \in Cpus
  BY DEF NextCpu, Running, Cpus
<1>3. \A c \in Cpus : Scaled(c) = Of(c, exec_cycles[c] + cycles[c])
                      /\ Scaled(c) \in Int /\ Of(c, exec_cycles[c]) \in Int
  BY <1>1, InSlice DEF Scaled, Of, GetClocks, Cpus
<1>4. Scaled(NextCpu) < Asked
  <2>1. PICK c \in Running : ~(Scaled(c) >= start + clocks)
    BY <1>1 DEF SliceDone
  <2>2. Scaled(c) < Asked /\ c \in Cpus /\ Asked \in Int
    BY <1>1, <1>3, <2>1, InSlice DEF Asked
  <2>3. CASE how = "single"
    BY <2>1, <2>2, <2>3 DEF NextCpu, Running
  <2>4. CASE how # "single" /\ Scaled("main") < Scaled("sub")
    <3>1. NextCpu = "main"
      BY <2>4 DEF NextCpu
    <3>2. c = "main" \/ c = "sub"
      BY <2>2 DEF Cpus
    <3> QED BY <1>3, <2>2, <2>4, <3>1, <3>2 DEF Cpus
  <2>5. CASE how # "single" /\ ~(Scaled("main") < Scaled("sub"))
    <3>1. NextCpu = "sub"
      BY <2>5 DEF NextCpu
    <3>2. c = "main" \/ c = "sub"
      BY <2>2 DEF Cpus
    <3> QED BY <1>3, <2>2, <2>5, <3>1, <3>2 DEF Cpus
  <2> QED BY <2>3, <2>4, <2>5
<1>5. Of(NextCpu, exec_cycles[NextCpu]) < Asked
  <2>1. CASE cycles[NextCpu] = 0
    <3>1. exec_cycles[NextCpu] + cycles[NextCpu] = exec_cycles[NextCpu]
      BY <1>1, <1>2, <2>1, InSlice
    <3> QED BY <1>2, <1>3, <1>4, <3>1
  <2>2. CASE cycles[NextCpu] # 0
    BY <1>1, <1>2, <2>2, InSlice DEF ReachedBy
  <2> QED BY <2>1, <2>2
<1>6. ASSUME NEW c \in Running PROVE ReachedBy(c)'
  <2>1. /\ Scaled(c)' = Scaled(c) /\ Asked' = Asked /\ Of(c, MaxInsn)' = Of(c, MaxInsn)
        /\ Of(c, exec_cycles[c])' = Of(c, exec_cycles[c]) /\ cycles'[c] = cycles[c]
    BY <1>1 DEF Scaled, GetClocks, SubFactor, Asked, Of
  <2>2. InInsn(c)' => c = NextCpu
    BY <1>1 DEF InInsn
  <2>3. ReachedBy(c)
    BY <1>1, InSlice
  <2> QED BY <1>4, <1>5, <2>1, <2>2, <2>3 DEF ReachedBy
<1>7. /\ cycles' \in [Cpus -> Int] /\ calls' \in 0 .. MaxCalls /\ in_insn' \in BOOLEAN
      /\ current' \in Cpus \union {"none"}
  BY <1>1, <1>2 DEF XInv, XTyped, XTypeOK
<1> QED BY <1>1, <1>2, <1>6, <1>7, InSliceKeeps

\* An instruction takes the CPU at most its own length past the end.
LEMMA EndInsnKeeps == ASSUME XInv, IInv', NEW n \in 1 .. MaxInsn, EndInsn(n) PROVE XInv'
<1>1. /\ pc = "execute" /\ pc' = "execute" /\ ptime_ns' = ptime_ns /\ in_insn /\ in_insn' = FALSE
      /\ cycles' = [cycles EXCEPT ![current] = @ + n]
      /\ UNCHANGED <<exec_cycles, current, cpu_clock, cpu_mode, how, start, clocks, calls,
                     ratio_lost, saved, torn>>
  BY DEF EndInsn, CpuRuns
<1>2. current \in Running /\ current \in Cpus
  BY <1>1, InSlice DEF XInv, HowRuns
<1>3. n \in Nat /\ n <= MaxInsn /\ cycles[current] \in Int /\ exec_cycles[current] \in Int
  BY <1>1, <1>2, InSlice
<1>4. /\ cycles' \in [Cpus -> Int] /\ cycles'[current] = cycles[current] + n
      /\ \A c \in Cpus \ {current} : cycles'[c] = cycles[c]
  BY <1>1, <1>2, <1>3, InSlice
<1>5. ASSUME NEW c \in Running PROVE ReachedBy(c)'
  <2>1. /\ Asked' = Asked /\ Of(c, MaxInsn)' = Of(c, MaxInsn)
        /\ Of(c, exec_cycles[c])' = Of(c, exec_cycles[c])
    BY <1>1 DEF SubFactor, Asked, Of
  <2>2. ReachedBy(c) /\ ~InInsn(c)' /\ c \in Cpus
    BY <1>1, InSlice DEF InInsn
  <2>3. CASE c = current
    <3>1. Scaled(c) < Asked /\ Of(c, exec_cycles[c]) < Asked
      BY <1>1, <2>2, <2>3 DEF ReachedBy, InInsn
    <3>2. Scaled(c)' <= Scaled(c) + Of(c, MaxInsn)
      <4>1. /\ GetClocks(c)' = GetClocks(c) + n /\ GetClocks(c) \in Int
            /\ SubFactor' = SubFactor /\ SubFactor \in {1, 2} /\ MaxInsn \in Nat
        BY <1>1, <1>3, <1>4, <2>3, InSlice DEF GetClocks, SubFactor
      <4> QED BY <1>3, <4>1 DEF Scaled, Of
    <3>3. Scaled(c)' \in Int /\ Scaled(c) \in Int /\ Asked \in Int /\ Of(c, MaxInsn) \in Int
      BY <1>1, <1>3, <1>4, <2>3, InSlice DEF Scaled, GetClocks, Asked, Of, SubFactor
    <3> QED BY <2>1, <2>2, <3>1, <3>2, <3>3 DEF ReachedBy
  <2>4. CASE c # current
    <3>1. cycles'[c] = cycles[c] /\ Scaled(c)' = Scaled(c)
      BY <1>1, <1>4, <2>2, <2>4 DEF Scaled, GetClocks, SubFactor
    <3> QED BY <2>1, <2>2, <3>1 DEF ReachedBy
  <2> QED BY <2>3, <2>4
<1>6. calls' \in 0 .. MaxCalls /\ current' \in Cpus \union {"none"}
  BY <1>1 DEF XInv, XTyped, XTypeOK
<1> QED BY <1>1, <1>4, <1>5, <1>6, InSliceKeeps

\* A Stop sets the CPU inside its instruction back to where the slice began or
\* behind it; between slices nothing is stopped.
LEMMA XDeviceCallKeeps == ASSUME XInv, IInv', NEW d \in Devices, XDeviceCall(d) PROVE XInv'
<1>1. /\ pc' = pc /\ ptime_ns' = ptime_ns /\ time_ns' = time_ns
      /\ UNCHANGED <<exec_cycles, current, cpu_clock, cpu_mode, how, start, clocks, in_insn,
                     ratio_lost, saved, torn>>
      /\ endtime_ns \in Int /\ endtime_ns' \in Int
      /\ ~(endtime_ns' < endtime_ns) => cycles' = cycles
  BY DEF XDeviceCall, DeviceCall, XInv, IInv, TypeOK
<1>2. CASE pc # "execute"
  <2>1. endtime_ns = time_ns /\ endtime_ns' = time_ns'
    BY <1>1, <1>2 DEF XInv, IInv, ShortenOnlyInSlice
  <2>2. cycles' = cycles /\ calls' = calls
    BY <1>1, <1>2, <2>1 DEF XDeviceCall
  <2>3. cpu_clock' \in ClockRates
    BY <1>1 DEF XInv, XTyped
  <2> QED BY <1>1, <1>2, <2>2, <2>3, BetweenSlices
<1>3. CASE pc = "execute"
  <2>1. in_insn /\ calls < MaxCalls /\ calls' = calls + 1 /\ calls \in 0 .. MaxCalls /\ MaxCalls \in Nat
    BY <1>3, ExecutionAssumption DEF XDeviceCall, XInv, XTyped, XTypeOK
  <2>2. current \in Running /\ current \in Cpus
    BY <1>3, <2>1, InSlice DEF XInv, HowRuns
  <2>3. PICK k \in Int :
          /\ cycles' = [cycles EXCEPT ![current] = k]
          /\ k <= 0 \/ k = cycles[current]
    <3>1. CASE endtime_ns' < endtime_ns
      <4>1. endtime_ns - endtime_ns' \in Nat
        <5>1. endtime_ns \in Int /\ endtime_ns' \in Int
          BY <1>1
        <5> QED BY <3>1, <5>1, Difference
      <4> DEFINE lost == endtime_ns - endtime_ns'
                 q == (lost * cpu_clock) \div PerSecond
      <4>2. q \in Nat
        <5>1. cpu_clock \in Nat /\ PerSecond \in Nat \ {0}
          BY ClockFacts, ExecutionAssumption DEF XInv, XTyped
        <5>2. lost * cpu_clock \in Nat
          <6>1. lost \in Nat
            BY <4>1
          <6> HIDE DEF lost
          <6> QED BY <5>1, <6>1
        <5> HIDE DEF lost
        <5> QED BY <5>1, <5>2, DivFacts
      <4>3. cycles' = [cycles EXCEPT ![current] = -q]
        BY <3>1 DEF XDeviceCall, Stop
      <4> HIDE DEF q
      <4>4. -q \in Int /\ -q <= 0
        BY <4>2
      <4> QED BY <4>3, <4>4
    <3>2. CASE ~(endtime_ns' < endtime_ns)
      BY <1>1, <1>3, <2>2, <3>2, InSlice
    <3> QED BY <3>1, <3>2
  <2>4. /\ cycles' \in [Cpus -> Int] /\ cycles'[current] = k
        /\ \A c \in Cpus \ {current} : cycles'[c] = cycles[c]
    BY <1>3, <2>2, <2>3, InSlice
  <2>5. ASSUME NEW c \in Running PROVE ReachedBy(c)'
    <3>1. /\ Asked' = Asked /\ Of(c, MaxInsn)' = Of(c, MaxInsn)
          /\ Of(c, exec_cycles[c])' = Of(c, exec_cycles[c]) /\ InInsn(c)' = InInsn(c)
      BY <1>1 DEF SubFactor, Asked, Of, InInsn
    <3>2. ReachedBy(c) /\ c \in Cpus
      BY <1>3, InSlice
    <3>3. CASE c = current
      <4>1. Scaled(c) < Asked /\ Of(c, exec_cycles[c]) < Asked
        BY <2>1, <3>2, <3>3 DEF ReachedBy, InInsn
      <4>2. Scaled(c)' <= Of(c, exec_cycles[c]) \/ Scaled(c)' = Scaled(c)
        <5>1. /\ GetClocks(c)' = exec_cycles[c] + k /\ GetClocks(c) = exec_cycles[c] + cycles[c]
              /\ SubFactor' = SubFactor /\ SubFactor \in {1, 2}
              /\ exec_cycles[c] \in Int /\ cycles[c] \in Int
          BY <1>1, <1>3, <2>2, <2>4, <3>3, InSlice DEF GetClocks, SubFactor
        <5> QED BY <2>3, <3>3, <5>1 DEF Scaled, Of
      <4>3. /\ Scaled(c)' \in Int /\ Scaled(c) \in Int /\ Asked \in Int
            /\ Of(c, MaxInsn) \in Nat /\ Of(c, exec_cycles[c]) \in Int
        BY <1>1, <1>3, <2>3, <2>4, <3>2, InSlice DEF Scaled, GetClocks, Asked, Of, SubFactor
      <4>4. Scaled(c)' < Asked
        BY <4>1, <4>2, <4>3
      <4> QED BY <3>1, <4>1, <4>3, <4>4 DEF ReachedBy
    <3>4. CASE c # current
      <4>1. cycles'[c] = cycles[c] /\ Scaled(c)' = Scaled(c)
        BY <1>1, <2>4, <3>2, <3>4 DEF Scaled, GetClocks, SubFactor
      <4> QED BY <3>1, <3>2, <4>1 DEF ReachedBy
    <3> QED BY <3>3, <3>4
  <2>6. calls' \in 0 .. MaxCalls /\ current' \in Cpus \union {"none"} /\ in_insn' \in BOOLEAN
    BY <1>1, <2>1 DEF XInv, XTyped, XTypeOK
  <2>7. in_insn' => current' \in Running
    BY <1>1, <2>2
  <2> QED BY <1>1, <1>3, <2>4, <2>5, <2>6, <2>7, InSliceKeeps
<1> QED BY <1>2, <1>3

\* When the slice is done both CPUs that ran have a clock to be synchronised to,
\* and the distance between them is that of one instruction or the old one.
LEMMA SyncKeepsLevel ==
  ASSUME XInv, pc = "execute", SliceDone, ~in_insn,
         exec_cycles' = Synced, cpu_mode' = cpu_mode, torn' = torn,
         ratio_lost' = (ratio_lost \/ (how = "single" /\ cpu_mode.ms21))
  PROVE  exec_cycles' \in [Cpus -> Int] /\ Levelled'
<1>1. /\ exec_cycles \in [Cpus -> Int] /\ cycles \in [Cpus -> Int]
      /\ start \in Int /\ MaxInsn \in Nat \ {0} /\ clocks \in Nat \ {0}
      /\ how \in {"single", "dual", "dual2"}
  BY InSlice, ExecutedBounds
<1> DEFINE em == exec_cycles["main"]
           es == exec_cycles["sub"]
           cm == cycles["main"]
           cs == cycles["sub"]
           nm == exec_cycles'["main"]
           ns == exec_cycles'["sub"]
           r == RatioOf(cpu_mode)
           Done == /\ ~torn => nm \in Nat /\ ns \in Nat /\ nm - 2 * ns < MaxInsn
                   /\ ~ratio_lost' => nm - r * ns < MaxInsn /\ -(nm - r * ns) < r * MaxInsn
<1>2. em \in Int /\ es \in Int /\ cm \in Int /\ cs \in Int
  BY <1>1 DEF Cpus
<1>3. /\ nm = em + cm
      /\ ns = IF how = "single" THEN em + cm ELSE es + cs
  BY DEF Synced, GetClocks, Cpus
<1>4. /\ ~torn => em \in Nat /\ es \in Nat /\ em - 2 * es < MaxInsn
      /\ ~ratio_lost => em - r * es < MaxInsn /\ -(em - r * es) < r * MaxInsn
  BY DEF XInv, Levelled, Level, Whole, InRatio, Skew
<1>5. r \in {1, 2}
  BY RatioFacts DEF XInv, XTyped
<1>6. nm \in Int /\ ns \in Int
  <2> HIDE DEF em, es, cm, cs, nm, ns
  <2> QED BY <1>2, <1>3
<1>7. ASSUME how = "single" PROVE Done
  <2>1. em + cm >= start + clocks /\ start = em
    BY <1>7 DEF SliceDone, Running, Scaled, GetClocks, XInv, HowRuns
  <2>2. ~ratio_lost' => r = 1
    BY <1>7 DEF RatioOf
  <2> HIDE DEF em, es, cm, cs, nm, ns, r
  <2>3. ~torn => nm \in Nat /\ ns \in Nat /\ nm - 2 * ns < MaxInsn
    BY <1>1, <1>2, <1>3, <1>4, <1>7, <2>1
  <2>4. ~ratio_lost' => nm - r * ns < MaxInsn /\ -(nm - r * ns) < r * MaxInsn
    BY <1>1, <1>3, <1>6, <1>7, <2>2
  <2> QED BY <2>3, <2>4
<1>8. ASSUME how = "dual" PROVE Done
  <2>1. /\ em + cm >= start + clocks /\ (es + cs) * 1 >= start + clocks
        /\ start = Lesser(em, es * 1)
    BY <1>8 DEF SliceDone, Running, Cpus, Scaled, GetClocks, SubFactor, XInv, HowRuns, Of
  <2>2. /\ em + cm < start + clocks + MaxInsn \/ cm = 0
        /\ (es + cs) * 1 < start + clocks + MaxInsn * 1 \/ cs = 0
        /\ cm # 0 => em < start + clocks
        /\ cs # 0 => es * 1 < start + clocks
    BY <1>8 DEF XInv, Reached, ReachedBy, Running, Cpus, Scaled, GetClocks, Of, SubFactor, Asked
  <2>3. ~ratio_lost => r = 1
    BY <1>8 DEF RatioOf, XInv, HowRuns
  <2>4. ns = es + cs
    BY <1>3, <1>8
  <2> HIDE DEF em, es, cm, cs, nm, ns, r
  <2>5. ~torn => nm \in Nat /\ ns \in Nat /\ nm - 2 * ns < MaxInsn
    BY <1>1, <1>2, <1>3, <1>4, <2>1, <2>2, <2>4 DEF Lesser
  <2>6. ~ratio_lost' => nm - r * ns < MaxInsn /\ -(nm - r * ns) < r * MaxInsn
    <3>1. SUFFICES ASSUME ~ratio_lost PROVE nm - 1 * ns < MaxInsn /\ -(nm - 1 * ns) < 1 * MaxInsn
      BY <2>3
    <3>2. em - 1 * es < MaxInsn /\ -(em - 1 * es) < 1 * MaxInsn
      BY <1>4, <2>3, <3>1
    <3> QED BY <1>1, <1>2, <1>3, <2>1, <2>2, <2>4, <3>2
  <2> QED BY <2>5, <2>6
<1>9. ASSUME how = "dual2" PROVE Done
  <2>1. /\ em + cm >= start + clocks /\ (es + cs) * 2 >= start + clocks
        /\ start = Lesser(em, es * 2)
    BY <1>9 DEF SliceDone, Running, Cpus, Scaled, GetClocks, SubFactor, XInv, HowRuns, Of
  <2>2. /\ em + cm < start + clocks + MaxInsn \/ cm = 0
        /\ (es + cs) * 2 < start + clocks + MaxInsn * 2 \/ cs = 0
        /\ cm # 0 => em < start + clocks
        /\ cs # 0 => es * 2 < start + clocks
    BY <1>9 DEF XInv, Reached, ReachedBy, Running, Cpus, Scaled, GetClocks, Of, SubFactor, Asked
  <2>3. ~ratio_lost => r = 2
    BY <1>9 DEF RatioOf, XInv, HowRuns
  <2>4. ns = es + cs
    BY <1>3, <1>9
  <2> HIDE DEF em, es, cm, cs, nm, ns, r
  <2>5. ~torn => nm \in Nat /\ ns \in Nat /\ nm - 2 * ns < MaxInsn
    BY <1>1, <1>2, <1>3, <1>4, <2>1, <2>2, <2>4 DEF Lesser
  <2>6. ~ratio_lost' => nm - r * ns < MaxInsn /\ -(nm - r * ns) < r * MaxInsn
    <3>1. SUFFICES ASSUME ~ratio_lost PROVE nm - 2 * ns < MaxInsn /\ -(nm - 2 * ns) < 2 * MaxInsn
      BY <2>3
    <3>2. em - 2 * es < MaxInsn /\ -(em - 2 * es) < 2 * MaxInsn
      BY <1>4, <2>3, <3>1
    <3> QED BY <1>1, <1>2, <1>3, <2>1, <2>2, <2>4, <3>2
  <2> QED BY <2>5, <2>6
<1>10. Done
  <2> HIDE DEF Done
  <2> QED BY <1>1, <1>7, <1>8, <1>9
<1>11. exec_cycles' \in [Cpus -> Int]
  <2>1. \A c \in Cpus : exec_cycles[c] + cycles[c] \in Int
    BY <1>1
  <2> QED BY <2>1 DEF Synced, GetClocks, Cpus
<1> QED BY <1>10, <1>11 DEF Levelled, Level, Whole, InRatio, Skew, RatioOf

LEMMA XExecuteReturnsKeeps == ASSUME XInv, IInv', XExecuteReturns PROVE XInv'
<1>1. /\ pc = "execute" /\ pc' = "fire" /\ SliceDone /\ ~in_insn
      /\ exec_cycles' = Synced /\ cycles' = Cleared
      /\ ratio_lost' = (ratio_lost \/ (how = "single" /\ cpu_mode.ms21))
      /\ how' = "none" /\ start' = 0 /\ clocks' = 0 /\ calls' = 0
      /\ UNCHANGED <<current, cpu_clock, cpu_mode, in_insn, saved, torn>>
  BY DEF XExecuteReturns, ExecuteReturns
<1>2. exec_cycles' \in [Cpus -> Int] /\ Levelled'
  BY <1>1, SyncKeepsLevel
<1>3. cycles' \in [Cpus -> Int] /\ \A c \in Cpus : cycles'[c] = 0
  BY <1>1 DEF Cleared
<1>4. ratio_lost' \in BOOLEAN
  BY <1>1
<1>5. XTyped'
  BY <1>1, <1>2, <1>3, <1>4, ExecutionAssumption DEF XInv, XTyped, XTypeOK
<1>6. HowRuns' /\ Reached' /\ SavedLevel'
  BY <1>1, <1>3 DEF HowRuns, Reached, XInv, SavedLevel
<1> QED BY <1>2, <1>5, <1>6 DEF XInv

\* The mode may change inside a slice, which runs on as it was begun.
LEMMA ApplyConfigKeeps == ASSUME XInv, IInv', NEW mode \in Modes, ApplyConfig(mode) PROVE XInv'
<1>1. /\ cpu_mode' = mode /\ ratio_lost' = (ratio_lost \/ mode.ms21 # cpu_mode.ms21)
      /\ UNCHANGED <<exec_cycles, cycles, current, cpu_clock, how, start, clocks, in_insn,
                     calls, saved, torn, pc, ptime_ns>>
  BY DEF ApplyConfig, vars
<1>2. ratio_lost' \in BOOLEAN
  BY <1>1
<1>3. XTyped'
  BY <1>1, <1>2 DEF XInv, XTyped, XTypeOK
<1>4. ~ratio_lost' => ~ratio_lost /\ mode.ms21 = cpu_mode.ms21
  BY <1>1
<1>5. HowRuns'
  <2>1. /\ how' = "dual" => ~cpu_mode'.ms21 \/ ratio_lost'
        /\ how' = "dual2" => cpu_mode'.ms21 \/ ratio_lost'
    BY <1>1, <1>4 DEF XInv, HowRuns
  <2>2. /\ ClocksFor(ptime_ns)' = ClocksFor(ptime_ns) /\ Running' = Running
        /\ Of("sub", exec_cycles["sub"])' = Of("sub", exec_cycles["sub"])
    BY <1>1 DEF ClocksFor, Running, Of, SubFactor
  <2> QED BY <1>1, <2>1, <2>2 DEF XInv, HowRuns, Lesser
<1>6. Reached'
  <2>1. ASSUME NEW c \in Running, ReachedBy(c) PROVE ReachedBy(c)'
    BY <1>1, <2>1 DEF ReachedBy, InInsn, Scaled, GetClocks, SubFactor, Asked, Of
  <2>2. Running' = Running /\ how' = how
    BY <1>1 DEF Running
  <2> QED BY <2>1, <2>2 DEF XInv, Reached
<1>7. Levelled' /\ SavedLevel'
  <2>1. ~ratio_lost' => RatioOf(cpu_mode)' = RatioOf(cpu_mode)
    BY <1>1, <1>4 DEF RatioOf
  <2>2. ~ratio_lost' => InRatio(exec_cycles, cpu_mode)'
    BY <1>1, <1>4, <2>1 DEF XInv, Levelled, Level, InRatio, Skew
  <2>3. ~torn' => Whole(exec_cycles)'
    BY <1>1 DEF XInv, Levelled, Level, Whole
  <2> QED BY <1>1, <2>2, <2>3 DEF XInv, Levelled, SavedLevel, Level
<1> QED BY <1>3, <1>5, <1>6, <1>7 DEF XInv

\* Reset and a snapshot loaded set the clocks between two slices.
LEMMA ClocksSet ==
  ASSUME XInv, IInv', pc = "idle", UNCHANGED pc, exec_cycles' \in [Cpus -> Int],
         cpu_mode' \in Modes, ratio_lost' \in BOOLEAN, torn' \in BOOLEAN, Levelled',
         UNCHANGED <<cycles, current, cpu_clock, how, start, clocks, in_insn, calls, saved>>
  PROVE  XInv'
<1>1. how' = "none" /\ ~in_insn'
  BY DEF XInv, HowRuns, XTyped, XTypeOK
<1>2. XTyped' /\ SavedLevel'
  BY <1>1 DEF XInv, XTyped, XTypeOK, SavedLevel
<1>3. HowRuns' /\ Reached'
  BY <1>1 DEF XInv, HowRuns, Reached
<1> QED BY <1>2, <1>3 DEF XInv

\* A snapshot is as level as the clocks were, or says that it is not.
LEMMA SaveSnapshotKeeps == ASSUME XInv, IInv', SaveSnapshot PROVE XInv'
<1> DEFINE kept == [c \in Cpus |-> AsInt(exec_cycles[c])]
<1>1. /\ saved' = [clocks |-> kept, mode |-> cpu_mode,
                   ratio_lost |-> ratio_lost \/ Skew(kept, cpu_mode) # Skew(exec_cycles, cpu_mode),
                   torn |-> torn \/ kept # exec_cycles]
      /\ pc = "idle"
      /\ UNCHANGED <<exec_cycles, cycles, current, cpu_clock, cpu_mode, how, start, clocks,
                     in_insn, calls, ratio_lost, torn, pc>>
  BY DEF SaveSnapshot, vars
<1>2. kept \in [Cpus -> Int]
  <2>1. ASSUME NEW n \in Int PROVE AsInt(n) \in Int
    <3>1. HalfInt \in Nat \ {0} /\ 2 * HalfInt \in Nat \ {0}
      BY ExecutionAssumption
    <3>2. (n + HalfInt) % (2 * HalfInt) \in Int
      BY <3>1
    <3> QED BY <3>1, <3>2 DEF AsInt
  <2> QED BY <2>1 DEF XInv, XTyped, XTypeOK
<1> HIDE DEF kept
<1>3. saved' \in [clocks : [Cpus -> Int], mode : Modes, ratio_lost : BOOLEAN, torn : BOOLEAN]
  BY <1>1, <1>2 DEF XInv, XTyped
<1>4. XTyped'
  BY <1>1, <1>3 DEF XInv, XTyped, XTypeOK
<1>5. SavedLevel'
  <2>1. ~saved'.torn => Whole(saved'.clocks)
    BY <1>1 DEF XInv, Levelled, Level
  <2>2. ~saved'.ratio_lost => InRatio(saved'.clocks, saved'.mode)
    BY <1>1 DEF XInv, Levelled, Level, InRatio
  <2> QED BY <2>1, <2>2 DEF SavedLevel, Level, Whole, InRatio, Skew, RatioOf
<1>6. HowRuns' /\ Reached' /\ Levelled'
  BY <1>1 DEF XInv, XTyped, XTypeOK, HowRuns, Reached, Levelled
<1> QED BY <1>4, <1>5, <1>6 DEF XInv

LEMMA LoadSnapshotKeeps == ASSUME XInv, IInv', LoadSnapshot PROVE XInv'
<1>1. /\ exec_cycles' = saved.clocks /\ cpu_mode' = saved.mode
      /\ ratio_lost' = saved.ratio_lost /\ torn' = saved.torn /\ pc = "idle"
      /\ UNCHANGED <<cycles, current, cpu_clock, how, start, clocks, in_insn, calls, saved, pc>>
  BY DEF LoadSnapshot, vars
<1>2. /\ saved.clocks \in [Cpus -> Int] /\ saved.mode \in Modes
      /\ saved.ratio_lost \in BOOLEAN /\ saved.torn \in BOOLEAN
  BY DEF XInv, XTyped
<1>3. Levelled'
  BY <1>1 DEF XInv, SavedLevel, Levelled, Level, Whole, InRatio, Skew, RatioOf
<1> QED BY <1>1, <1>2, <1>3, ClocksSet

\* The invariant is inductive: one case for each action.
LEMMA XStepKeeps == ASSUME XInv, [XNext]_xvars PROVE XInv'
<1>1. IInv'
  BY XStepImplements, StepKeeps DEF XInv
<1>2. ASSUME NEW ns \in Lengths, NEW rate \in ClockRates, XProceed(ns, rate) PROVE XInv'
  BY <1>1, <1>2, BetweenSlices DEF XProceed, Proceed
<1>3. ASSUME NEW mode \in Modes, ApplyConfig(mode) PROVE XInv'
  BY <1>1, <1>3, ApplyConfigKeeps
<1>4. CASE Reset
  <2>1. /\ pc = "idle" /\ pc' = pc /\ exec_cycles' = [c \in Cpus |-> 0]
        /\ ratio_lost' = FALSE /\ torn' = FALSE /\ cpu_mode' \in Modes
        /\ UNCHANGED <<cycles, current, cpu_clock, how, start, clocks, in_insn, calls, saved>>
    BY <1>4 DEF Reset, vars, XInv, XTyped
  <2>2. exec_cycles' \in [Cpus -> Int] /\ ratio_lost' \in BOOLEAN /\ torn' \in BOOLEAN
    <3>1. [c \in Cpus |-> 0] \in [Cpus -> Int]
      OBVIOUS
    <3> QED BY <2>1, <3>1
  <2>3. Level([c \in Cpus |-> 0], cpu_mode', FALSE, FALSE)
    BY <2>1, LevelAtZero
  <2>4. Levelled'
    BY <2>1, <2>3 DEF Levelled, Level, Whole, InRatio, Skew, RatioOf
  <2> QED BY <1>1, <2>1, <2>2, <2>4, ClocksSet
<1>5. CASE XBeginSlice
  BY <1>1, <1>5, XBeginSliceKeeps
<1>6. CASE BeginInsn
  BY <1>1, <1>6, BeginInsnKeeps
<1>7. CASE \E n \in 1 .. MaxInsn : EndInsn(n)
  BY <1>1, <1>7, EndInsnKeeps
<1>8. CASE \E d \in Devices : XDeviceCall(d)
  BY <1>1, <1>8, XDeviceCallKeeps
<1>9. CASE XExecuteReturns
  BY <1>1, <1>9, XExecuteReturnsKeeps
<1>10. CASE SchedulerOnly
  <2>1. pc # "execute" /\ pc' # "execute" /\ UNCHANGED cpus
    BY <1>10 DEF SchedulerOnly, FireEvent, CallbackReturns, FiringDone, ProceedReturns
  <2>2. cpu_clock' \in ClockRates
    BY <2>1 DEF cpus, XInv, XTyped
  <2> QED BY <1>1, <2>1, <2>2, BetweenSlices DEF cpus
<1>11. CASE UNCHANGED xvars
  <2>1. UNCHANGED cpus /\ UNCHANGED vars
    BY <1>11 DEF xvars
  <2>2. CASE pc # "execute"
    <3>1. cpu_clock' \in ClockRates
      BY <2>1 DEF cpus, XInv, XTyped
    <3> QED BY <1>1, <2>1, <2>2, <3>1, BetweenSlices DEF cpus, vars
  <2>3. CASE pc = "execute"
    <3>1. /\ UNCHANGED <<exec_cycles, cycles, current, cpu_clock, cpu_mode, how, start, clocks,
                         in_insn, calls, ratio_lost, saved, torn>>
          /\ UNCHANGED <<pc, ptime_ns>>
      BY <2>1 DEF cpus, vars
    <3>2. ASSUME NEW c \in Running PROVE ReachedBy(c)'
      <4>1. ReachedBy(c)
        BY <2>3, InSlice
      <4> QED BY <3>1, <4>1 DEF ReachedBy, InInsn, Scaled, GetClocks, SubFactor, Asked, Of
    <3>3. /\ cycles' \in [Cpus -> Int] /\ calls' \in 0 .. MaxCalls /\ in_insn' \in BOOLEAN
          /\ current' \in Cpus \union {"none"} /\ (in_insn' => current' \in Running)
      BY <3>1 DEF XInv, XTyped, XTypeOK, HowRuns
    <3> QED BY <1>1, <2>3, <3>1, <3>2, <3>3, InSliceKeeps
  <2> QED BY <2>2, <2>3
<1>12. CASE SaveSnapshot
  BY <1>1, <1>12, SaveSnapshotKeeps
<1>13. CASE LoadSnapshot
  BY <1>1, <1>13, LoadSnapshotKeeps
<1> QED BY <1>2, <1>3, <1>4, <1>5, <1>6, <1>7, <1>8, <1>9, <1>10, <1>11, <1>12, <1>13 DEF XNext

\* Every instruction, Stop, slice and switch of the mode keeps the invariant.
THEOREM XInvariance == XSpec => []XInv
BY XInitEstablishes, XStepKeeps, PTL DEF XSpec

\* Every behaviour of the two Z80s under SchedulerImpl is one the scheduler
\* allows for, so that all that is proved of Scheduler holds of them.
THEOREM CpusKeepTheContract == XSpec => Spec
<1>1. XInit => Init
  BY DEF XInit
<1>2. XInv /\ [XNext]_xvars => [Next]_vars
  BY XStepImplements
<1> QED BY <1>1, <1>2, XInvariance, PTL DEF XSpec, Spec

\* ExecuteNS returns after at least one unit of time and at most one overrun more
\* than it was asked for, although the mode may change inside it and the clocks of
\* a snapshot may be cut off; between slices nothing is left over of the last one,
\* and the CPUs are less than one instruction apart in the ratio of the mode in
\* force, as the ones of a snapshot that is loaded, unless the mode has changed
\* since the last reset, the sub CPU was left out in 2:1 mode, or the snapshot had
\* not kept their distance.
THEOREM CpusStayInStep == XSpec => []CpusInStep
<1>1. ASSUME XInv PROVE CountersSynced
  <2> SUFFICES ASSUME pc # "execute" PROVE cpu_ns = GetNS /\ GetNS = 0
    BY DEF CountersSynced
  <2>1. cpu_ns = 0
    BY <1>1 DEF XInv, IInv, ShortenOnlyInSlice
  <2>2. current # "none" => cycles[current] = 0
    BY <1>1 DEF XInv, HowRuns, XTyped, XTypeOK
  <2>3. NsPerClock \in Nat
    BY <1>1, ClockFacts DEF XInv, XTyped
  <2> QED BY <2>1, <2>2, <2>3 DEF GetNS
<1>2. ASSUME XInv PROVE SkewBounded
  <2> SUFFICES ASSUME pc # "execute", ~ratio_lost
               PROVE  InRatio([c \in Cpus |-> GetClocks(c)], cpu_mode)
    BY DEF SkewBounded, InRatio
  <2>1. exec_cycles \in [Cpus -> Int] /\ \A c \in Cpus : cycles[c] = 0
    BY <1>2 DEF XInv, HowRuns, XTyped, XTypeOK
  <2>2. \A c \in Cpus : GetClocks(c) = exec_cycles[c]
    BY <2>1 DEF GetClocks
  <2>3. [c \in Cpus |-> GetClocks(c)] = exec_cycles
    BY <2>1, <2>2
  <2> QED BY <1>2, <2>3 DEF XInv, Levelled, Level
<1>3. XInv => ContractKept
  BY ContractHolds, ExecutedBounds DEF ContractKept
<1>4. XInv => CpusInStep
  BY <1>1, <1>2, <1>3 DEF CpusInStep, XInv, XTyped
<1> QED BY <1>4, XInvariance, PTL
====

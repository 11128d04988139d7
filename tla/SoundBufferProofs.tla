---- MODULE SoundBufferProofs ----
(***************************************************************************)
(* Proofs about the sound path, for every filter, ring size, ratio, speed  *)
(* and request: the windows of the filter are whole and in order, no       *)
(* sample that waits is overwritten, and less than a sample of time is     *)
(* carried over.  Then the drivers of the sound: what is heard is in       *)
(* order, and who plays is the driver that is chosen.                      *)
(***************************************************************************)
EXTENDS SoundBuffer, DirectSound, SoundDrivers, WaveOut, Piccolo, TLAPS

-----------------------------------------------------------------------------
(* Remainders of numbers that are at most one turn away, and quotients. *)

LEMMA ModUp ==
  ASSUME NEW a \in Nat, NEW w \in Nat \ {0}, a < 2 * w
  PROVE  a % w = IF a >= w THEN a - w ELSE a
<1>1. CASE a >= w
  BY <1>1
<1>2. CASE a < w
  BY <1>2
<1> QED BY <1>1, <1>2
LEMMA ModDown ==
  ASSUME NEW w \in Nat \ {0}, NEW a \in 0 .. w - 1, NEW b \in 0 .. w
  PROVE  (a - b) % w = IF a < b THEN a - b + w ELSE a - b
<1>1. CASE a < b
  BY <1>1
<1>2. CASE a >= b
  BY <1>2
<1> QED BY <1>1, <1>2

\* A number that has gone up by f in a turn of w: what is f - o behind it was o before it,
\* and what is b behind it falls f further behind.
LEMMA Ahead ==
  ASSUME NEW w \in Nat \ {0}, NEW a \in 0 .. w - 1, NEW f \in 0 .. w - 1, NEW o \in 0 .. f - 1
  PROVE  (a + o) % w = (((a + f) % w) - (f - o)) % w
<1> DEFINE q == a + f
           n == q % w
           b == f - o
           p == a + o
<1>0. q \in Nat /\ q < 2 * w /\ p \in Nat /\ p < 2 * w
  OBVIOUS
<1> HIDE DEF p, q
<1>1. n = IF q >= w THEN q - w ELSE q
  BY <1>0, ModUp
<1>2. p % w = IF p >= w THEN p - w ELSE p
  BY <1>0, ModUp
<1>3. n \in 0 .. w - 1 /\ b \in 0 .. w
  BY <1>0, <1>1
<1> HIDE DEF n, b
<1>4. (n - b) % w = IF n < b THEN n - b + w ELSE n - b
  BY <1>3, ModDown
<1> DEFINE x == (n - b) % w
           y == p % w
<1>5. x = (IF n < b THEN n - b + w ELSE n - b) /\ y = (IF p >= w THEN p - w ELSE p)
  BY <1>2, <1>4
<1> HIDE DEF x, y
<1>6. x = y
  BY <1>1, <1>5 DEF b, p, q
<1> QED BY <1>6 DEF x, y, n, b, p, q
LEMMA FartherBehind ==
  ASSUME NEW w \in Nat \ {0}, NEW a \in 0 .. w - 1, NEW f \in 0 .. w - 1, NEW b \in 0 .. w, b + f <= w
  PROVE  (a - b) % w = (((a + f) % w) - (b + f)) % w
<1> DEFINE q == a + f
           n == q % w
           e == b + f
<1>0. q \in Nat /\ q < 2 * w
  OBVIOUS
<1> HIDE DEF q
<1>1. n = IF q >= w THEN q - w ELSE q
  BY <1>0, ModUp
<1>2. (a - b) % w = IF a < b THEN a - b + w ELSE a - b
  BY ModDown
<1>3. n \in 0 .. w - 1 /\ e \in 0 .. w
  BY <1>0, <1>1
<1> HIDE DEF n, e
<1>4. (n - e) % w = IF n < e THEN n - e + w ELSE n - e
  BY <1>3, ModDown
<1> DEFINE x == (n - e) % w
           y == (a - b) % w
<1>5. x = (IF n < e THEN n - e + w ELSE n - e) /\ y = (IF a < b THEN a - b + w ELSE a - b)
  BY <1>2, <1>4
<1> HIDE DEF x, y
<1>6. x = y
  BY <1>1, <1>5 DEF e, q
<1> QED BY <1>6 DEF x, y, n, e, q
LEMMA Quotient ==
  ASSUME NEW a \in Nat, NEW w \in Nat \ {0}
  PROVE  w * (a \div w) <= a /\ a < w * (a \div w) + w /\ a \div w \in Nat
  OBVIOUS
LEMMA LessByProduct ==
  ASSUME NEW e \in Nat, NEW f \in Nat \ {0}, NEW p \in Nat, NEW y \in Nat, f * p <= y, y <= f * e
  PROVE  p <= e
  OBVIOUS

-----------------------------------------------------------------------------
(* The inductive invariant *)

\* How many samples ago the cell was written.
Behind(c) == IF c < write_ptr THEN write_ptr - c ELSE size + write_ptr - c

\* Every cell of the ring holds the sample of its age, read or not: filling it in any
\* portions, from any thread, around the end.
CellsInOrder == size > 0 => \A c \in 0 .. size - 1 : label[c] = (next - Behind(c)) % Wrap

\* Between two samples a whole window waits; whoever holds the mutex has samples to
\* deliver, so that the next fill asks for one at least.
WindowKept ==
  /\ driver # "off" /\ Roomy => Avail >= Window
  /\ RingLocked => count > 0
  /\ enabled => size > 0

IInv == TypeOK /\ CellsInOrder /\ WindowKept /\ RemainderUnderOneSample

\* The part of it that speaks of the ring.
RingOK ==
  /\ size \in Nat \ {0}
  /\ read_ptr \in 0 .. size - 1 /\ write_ptr \in 0 .. size - 1
  /\ label \in [0 .. size - 1 -> 0 .. Wrap - 1] /\ next \in 0 .. Wrap - 1

LEMMA RingIsOK == ASSUME TypeOK, size > 0 PROVE RingOK
  BY SoundAssumption DEF TypeOK, RingOK
LEMMA PointersAre == ASSUME RingOK PROVE size \in Nat \ {0} /\ read_ptr \in 0 .. size - 1 /\ write_ptr \in 0 .. size - 1
  BY DEF RingOK

-----------------------------------------------------------------------------
(* FillMain *)

\* It writes no more than is asked for and than there is room for.
LEMMA FilledBounds ==
  ASSUME RingOK, NEW r \in 0 .. size - 1, NEW n \in Nat
  PROVE  /\ AvailFrom(r) \in 0 .. size - 1
         /\ Filled(n, r) \in 0 .. size - 1 /\ Filled(n, r) <= n
         /\ AvailFrom(r) + Filled(n, r) <= size - 1
         /\ n > 0 /\ AvailFrom(r) < size - 1 => Filled(n, r) > 0
<1>1. AvailFrom(r) \in 0 .. size - 1
  BY PointersAre DEF AvailFrom
<1> DEFINE room == size - AvailFrom(r) - 1
<1>2. room \in Nat /\ size \in Nat /\ room = size - 1 - AvailFrom(r)
  BY <1>1, PointersAre
<1>3. Filled(n, r) = IF n < room THEN IF 0 > n THEN 0 ELSE n ELSE IF 0 > room THEN 0 ELSE room
  BY DEF Filled, Greater, Lesser
<1> DEFINE avail == AvailFrom(r)
           f == Filled(n, r)
<1> HIDE DEF room, avail, f
<1>4. f \in 0 .. room /\ f <= n /\ (n > 0 /\ room > 0 => f > 0)
  BY <1>2, <1>3 DEF f
<1>5. avail \in 0 .. size - 1 /\ room = size - 1 - avail
  BY <1>1, <1>2 DEF avail
<1>6. f \in 0 .. size - 1 /\ avail + f <= size - 1 /\ (n > 0 /\ avail < size - 1 => f > 0)
  BY <1>2, <1>4, <1>5
<1> QED BY <1>1, <1>4, <1>6 DEF avail, f

\* What is read from r on grows by what was written, and the cells keep their order.
LEMMA FillKeepsOrder ==
  ASSUME RingOK, CellsInOrder, NEW r \in 0 .. size - 1, NEW n \in Nat, FillMain(n, r), size' = size
  PROVE  /\ write_ptr' \in 0 .. size - 1 /\ next' \in 0 .. Wrap - 1
         /\ label' \in [0 .. size - 1 -> 0 .. Wrap - 1]
         /\ AvailFrom(r)' = AvailFrom(r) + Filled(n, r)
         /\ CellsInOrder'
         /\ \A c \in 0 .. size - 1 : (IF c >= write_ptr THEN c - write_ptr ELSE size + c - write_ptr) >= Filled(n, r)
                                       => label'[c] = label[c]
<1> DEFINE f == Filled(n, r)
           Over(c) == IF c >= write_ptr THEN c - write_ptr ELSE size + c - write_ptr
<1>1. f \in 0 .. size - 1 /\ AvailFrom(r) + f <= size - 1 /\ AvailFrom(r) \in 0 .. size - 1
  BY FilledBounds
<1>2. /\ label' = [c \in 0 .. size - 1 |-> IF Over(c) < f THEN (next + Over(c)) % Wrap ELSE label[c]]
      /\ next' = (next + f) % Wrap
      /\ write_ptr' = IF write_ptr + f >= size THEN write_ptr + f - size ELSE write_ptr + f
  BY DEF FillMain, Written, Stepped
<1> HIDE DEF f
<1>3. write_ptr' \in 0 .. size - 1
  BY <1>1, <1>2 DEF RingOK
<1>4. AvailFrom(r)' = AvailFrom(r) + f
  BY <1>1, <1>2 DEF RingOK, AvailFrom
<1>5. Wrap \in Nat \ {0} /\ Wrap = 2 * size /\ Wrap' = Wrap
  BY DEF RingOK, Wrap
<1>6. f \in 0 .. Wrap - 1 /\ next \in 0 .. Wrap - 1 /\ f < size
  BY <1>1, <1>5 DEF RingOK
<1>7. next' \in 0 .. Wrap - 1
  <2> DEFINE q == next + f
  <2>1. q \in Nat /\ q < 2 * Wrap /\ Wrap \in Nat \ {0}
    BY <1>5, <1>6
  <2>2. next' = q % Wrap
    BY <1>2
  <2> HIDE DEF q
  <2>3. q % Wrap = IF q >= Wrap THEN q - Wrap ELSE q
    BY <2>1, ModUp
  <2>4. q % Wrap \in 0 .. Wrap - 1
    BY <2>1, <2>3
  <2> QED BY <2>2, <2>4
<1>8. ASSUME NEW c \in 0 .. size - 1
      PROVE  /\ label'[c] \in 0 .. Wrap - 1
             /\ label'[c] = (next' - Behind(c)') % Wrap
             /\ Over(c) >= f => label'[c] = label[c]
  <2>1. label'[c] = IF Over(c) < f THEN (next + Over(c)) % Wrap ELSE label[c]
    BY <1>2
  <2>2. Over(c) \in 0 .. size - 1
    BY DEF RingOK
  <2>3. CASE Over(c) < f
    <3>1. Behind(c)' = f - Over(c) /\ Over(c) \in 0 .. f - 1
      <4>1. write_ptr' = IF write_ptr + f >= size THEN write_ptr + f - size ELSE write_ptr + f
        BY <1>2
      <4>2. size \in Nat /\ write_ptr \in 0 .. size - 1 /\ f \in 0 .. size - 1 /\ c \in 0 .. size - 1
        BY <1>1, PointersAre
      <4> HIDE DEF f
      <4>3. Behind(c)' = IF c < write_ptr' THEN write_ptr' - c ELSE size + write_ptr' - c
        BY DEF Behind
      <4> QED BY <2>2, <2>3, <4>1, <4>2, <4>3
    <3> DEFINE o == Over(c)
    <3> HIDE DEF o
    <3>2. (next + o) % Wrap = (((next + f) % Wrap) - (f - o)) % Wrap
      BY <1>5, <1>6, <3>1, Ahead DEF o
    <3>3. (next + o) % Wrap \in 0 .. Wrap - 1
      <4>1. next + o \in Nat
        BY <1>6, <3>1 DEF o
      <4> QED BY <1>5, <4>1
    <3>4. label'[c] = (next + o) % Wrap
      BY <2>1, <2>3 DEF o
    <3>5. Behind(c)' = f - o
      BY <3>1 DEF o
    <3>6. next' = (next + f) % Wrap
      BY <1>2
    <3> HIDE DEF Over
    <3>7. (next' - Behind(c)') % Wrap = (next + o) % Wrap
      BY <3>2, <3>5, <3>6
    <3> QED BY <1>1, <2>2, <2>3, <3>3, <3>4, <3>7
  <2>4. CASE Over(c) >= f
    <3>1. label'[c] = label[c]
      BY <1>1, <2>1, <2>2, <2>4 DEF RingOK
    <3>2. Behind(c)' = Behind(c) + f /\ Behind(c)' \in 1 .. size /\ Behind(c) \in 1 .. size
      <4>1. write_ptr' = IF write_ptr + f >= size THEN write_ptr + f - size ELSE write_ptr + f
        BY <1>2
      <4>2. size \in Nat /\ write_ptr \in 0 .. size - 1 /\ f \in 0 .. size - 1 /\ c \in 0 .. size - 1
        BY <1>1, PointersAre
      <4> HIDE DEF f
      <4>3. /\ Behind(c)' = IF c < write_ptr' THEN write_ptr' - c ELSE size + write_ptr' - c
            /\ Behind(c) = IF c < write_ptr THEN write_ptr - c ELSE size + write_ptr - c
        BY DEF Behind
      <4> QED BY <2>2, <2>4, <4>1, <4>2, <4>3
    <3>3. label[c] = (next - Behind(c)) % Wrap
      BY DEF RingOK, CellsInOrder
    <3> DEFINE b == Behind(c)
    <3>a. b \in 1 .. size /\ size \in Nat
      BY <1>6, <3>2 DEF RingOK
    <3> HIDE DEF b
    <3>4. b \in 0 .. Wrap /\ b + f <= Wrap
      BY <1>5, <1>6, <3>a
    <3>5. (next - b) % Wrap = (((next + f) % Wrap) - (b + f)) % Wrap
      BY <1>5, <1>6, <3>4, FartherBehind
    <3> QED BY <1>2, <3>1, <3>2, <3>3, <3>5 DEF b, RingOK
  <2> QED BY <1>1, <2>2, <2>3, <2>4
<1>9. label' \in [0 .. size - 1 -> 0 .. Wrap - 1]
  BY <1>2, <1>8
<1>10. CellsInOrder'
  BY <1>5, <1>8 DEF CellsInOrder
<1> QED BY <1>3, <1>4, <1>7, <1>8, <1>9, <1>10 DEF f

\* The filter meets, k samples on, the sample that is k younger.
LEMMA CatchUp ==
  ASSUME NEW w \in Nat \ {0}, NEW a \in 0 .. w - 1, NEW b \in 0 .. w, NEW k \in 0 .. b
  PROVE  (a - (b - k)) % w = (((a - b) % w) + k) % w
<1> DEFINE e == b - k
           n == (a - b) % w
           q == n + k
<1>1. n = IF a < b THEN a - b + w ELSE a - b
  BY ModDown
<1>2. e \in 0 .. w /\ n \in 0 .. w - 1 /\ k \in 0 .. w
  BY <1>1
<1> HIDE DEF n
<1>3. q \in Nat /\ q < 2 * w
  BY <1>2
<1> HIDE DEF e, q
<1> DEFINE x == (a - e) % w
           y == q % w
<1>4. x = (IF a < e THEN a - e + w ELSE a - e) /\ y = (IF q >= w THEN q - w ELSE q)
  BY <1>2, <1>3, ModUp, ModDown
<1> HIDE DEF x, y
<1>5. x = y
  BY <1>1, <1>4 DEF e, q
<1> QED BY <1>5 DEF x, y, n, e, q

\* Init of the ring numbers the silence as if it had just been written.
LEMMA NewRingInOrder ==
  ASSUME NEW n \in Sizes, NEW r \in Ratios, n > 0, NewRing(n, r)
  PROVE  /\ size' = n /\ read_ptr' \in 0 .. size' - 1 /\ write_ptr' \in 0 .. size' - 1
         /\ label' \in [0 .. size' - 1 -> 0 .. Wrap' - 1] /\ next' \in 0 .. Wrap' - 1
         /\ ratio' \in Ratios /\ oo' = 0
         /\ CellsInOrder'
         /\ Roomy' => Avail' >= Window
<1>1. n \in Nat \ {0} /\ n > Window /\ Window \in Nat \ {0}
  BY SoundAssumption DEF Window
<1>2. /\ size' = n /\ read_ptr' = Window /\ write_ptr' = 0 /\ next' = 0 /\ ratio' = r /\ oo' = 0
      /\ label' = [c \in 0 .. n - 1 |-> n + c]
      /\ Wrap' = 2 * n
  BY DEF NewRing, Wrap
<1>3. label' \in [0 .. size' - 1 -> 0 .. Wrap' - 1]
  BY <1>1, <1>2
<1>4. CellsInOrder'
  <2>1. ASSUME NEW c \in 0 .. n - 1 PROVE label'[c] = (next' - Behind(c)') % Wrap'
    <3> DEFINE b == n - c
               w == 2 * n
    <3>1. Behind(c)' = b /\ b \in 0 .. w /\ w \in Nat \ {0} /\ b > 0
      BY <1>1, <1>2 DEF Behind
    <3>2. label'[c] = w - b
      BY <1>1, <1>2
    <3> HIDE DEF b, w
    <3>3. 0 \in 0 .. w - 1
      BY <3>1
    <3>4. (0 - b) % w = w - b
      BY <3>1, <3>3, ModDown
    <3> QED BY <1>2, <3>1, <3>2, <3>4 DEF w
  <2> QED BY <1>2, <2>1 DEF CellsInOrder
<1>5. Roomy' => Avail' >= Window
  BY <1>1, <1>2 DEF Roomy, Avail, AvailFrom
<1> QED BY <1>1, <1>2, <1>3, <1>4, <1>5

-----------------------------------------------------------------------------
(* The steps *)

LEMMA InitIInv == Init => IInv
<1> SUFFICES ASSUME Init PROVE IInv
  OBVIOUS
<1>1. TypeOK
  <2>1. enabled \in BOOLEAN /\ size = 0 /\ ratio \in Ratios /\ threshold \in Thresholds
    BY DEF Init
  <2>2. oo = 0 /\ driver = "off" /\ ss = 0 /\ count = 0 /\ clock = 0 /\ prev_clock = 0 /\ remainder = 0 /\ to_fill = 0
    BY DEF Init
  <2> QED BY <2>1, <2>2, SoundAssumption DEF TypeOK
<1>2. CellsInOrder /\ WindowKept
  BY DEF Init, CellsInOrder, WindowKept, RingLocked
<1>3. RemainderUnderOneSample
  <2>1. PICK speed \in Speeds : speed \in Nat \ {0}
    BY SoundAssumption
  <2> QED BY <2>1, SoundAssumption DEF Init, RemainderUnderOneSample
<1> QED BY <1>1, <1>2, <1>3 DEF IInv

\* Steps that leave the ring alone.
LEMMA RingUntouched ==
  ASSUME IInv, UNCHANGED ring
  PROVE  /\ CellsInOrder'
         /\ Roomy' = Roomy /\ Avail' = Avail
         /\ read_ptr' = read_ptr /\ size' = size
         /\ size' \in Sizes \union {0}
         /\ size' > 0 => /\ read_ptr' \in 0 .. size' - 1
                         /\ write_ptr' \in 0 .. size' - 1
                         /\ label' \in [0 .. size' - 1 -> 0 .. Wrap' - 1]
                         /\ next' \in 0 .. Wrap' - 1
         /\ ratio' \in Ratios
  BY DEF IInv, TypeOK, ring, CellsInOrder, Behind, Wrap, Roomy, Avail, AvailFrom

\* The time carried over is measured with the speed of the update that left it.
LEMMA RemainderKept == ASSUME IInv, UNCHANGED remainder PROVE RemainderUnderOneSample'
  BY DEF IInv, RemainderUnderOneSample

LEMMA OutputKept ==
  ASSUME IInv, UNCHANGED <<ring, mixer>>, oo' \in Int, driver' \in {"idle", "filter", "advance"}, driver # "off",
         ss' \in 0 .. MaxSamples, count' \in 0 .. MaxSamples, RingLocked' => count' > 0
  PROVE  IInv'
<1>1. TypeOK'
  BY RingUntouched DEF IInv, TypeOK, mixer
<1>2. WindowKept'
  BY RingUntouched DEF IInv, WindowKept, mixer, Window
<1> QED BY <1>1, <1>2, RingUntouched, RemainderKept DEF IInv, mixer

LEMMA DriverKept ==
  ASSUME IInv, (\E n \in 1 .. MaxSamples : BeginGet(n)) \/ Filter \/ SampleDone
  PROVE  IInv'
<1> USE SoundAssumption
<1>1. ASSUME NEW n \in 1 .. MaxSamples, BeginGet(n) PROVE IInv'
  BY <1>1, OutputKept DEF BeginGet, IInv, TypeOK, RingLocked
<1>2. CASE Filter
  <2>1. ratio.oc \in Nat
    BY DEF IInv, TypeOK
  <2>2. oo - ratio.oc \in Int
    BY <2>1 DEF IInv, TypeOK
  <2> QED BY <1>2, <2>2, OutputKept DEF Filter, IInv, TypeOK, WindowKept, RingLocked
<1>3. CASE SampleDone
  <2>1. count \in Nat /\ count > 0 /\ count <= MaxSamples
    BY <1>3 DEF SampleDone, IInv, TypeOK, WindowKept, RingLocked
  <2> QED BY <1>3, <2>1, OutputKept DEF SampleDone, IInv, TypeOK, RingLocked
<1> QED BY <1>1, <1>2, <1>3

\* The window moves on, and the ring is filled while one sample less than a window is left.
LEMMA AdvanceKept == ASSUME IInv, Advance PROVE IInv'
<1> USE SoundAssumption
<1>1. /\ driver = "advance" /\ read_ptr' = Stepped(read_ptr, 1) /\ ss' = 0
      /\ oo' = oo + ratio.ic /\ UNCHANGED <<size, ratio, driver, count, mixer>>
  BY DEF Advance, PhaseUp
<1>2. TypeOK /\ size > 0 /\ count > 0 /\ RingOK
  BY <1>1, RingIsOK DEF IInv, TypeOK, WindowKept, RingLocked
<1>3. read_ptr' \in 0 .. size - 1
  BY <1>1, <1>2 DEF RingOK, Stepped
<1>4. Roomy => AvailFrom(read_ptr') = Avail - 1 /\ Avail >= Window /\ Window \in Nat \ {0} /\ Avail \in Nat
  BY <1>1, <1>2 DEF IInv, WindowKept, Roomy, Window, Avail, AvailFrom, RingOK, Stepped
<1>5. /\ write_ptr' \in 0 .. size - 1 /\ next' \in 0 .. Wrap - 1
      /\ label' \in [0 .. size - 1 -> 0 .. Wrap - 1]
      /\ CellsInOrder'
      /\ Roomy => Avail' >= Window
  <2>1. CASE Low(read_ptr')
    <3> DEFINE n == Greater(ss, count)
               r == read_ptr'
    <3>1. n \in Nat /\ n > 0
      BY <1>2 DEF Greater, TypeOK
    <3>2. FillMain(n, r) /\ r \in 0 .. size - 1 /\ size' = size
      BY <1>1, <1>3, <2>1 DEF Advance
    <3>3. Avail' = IF write_ptr' >= r THEN write_ptr' - r ELSE size + write_ptr' - r
      BY <1>1 DEF Avail, AvailFrom
    <3> HIDE DEF n
    <3>4. PICK s \in 0 .. size - 1 : s = r
      BY <1>3
    <3>5. FillMain(n, s)
      BY <3>2, <3>4
    <3>6. /\ write_ptr' \in 0 .. size - 1 /\ next' \in 0 .. Wrap - 1
          /\ label' \in [0 .. size - 1 -> 0 .. Wrap - 1] /\ CellsInOrder'
          /\ AvailFrom(s)' = AvailFrom(s) + Filled(n, s)
      BY <1>2, <3>1, <3>2, <3>5, FillKeepsOrder DEF IInv
    <3>7. /\ AvailFrom(s) \in 0 .. size - 1 /\ Filled(n, s) \in 0 .. size - 1
          /\ AvailFrom(s) < size - 1 => Filled(n, s) > 0
      BY <1>2, <3>1, FilledBounds
    <3>8. Roomy => AvailFrom(s) < size - 1 /\ AvailFrom(s) + 1 >= Window
      BY <1>2, <1>4, <2>1, <3>4 DEF Low, Roomy, RingOK
    <3>9. AvailFrom(s)' = Avail'
      BY <1>1, <3>3, <3>4 DEF AvailFrom
    <3> QED BY <3>6, <3>7, <3>8, <3>9 DEF Window
  <2>2. CASE ~Low(read_ptr')
    <3>1. UNCHANGED <<write_ptr, label, next>>
      BY <2>2 DEF Advance
    <3>2. CellsInOrder'
      BY <1>1, <3>1 DEF IInv, CellsInOrder, Behind, Wrap
    <3>3. Avail' = AvailFrom(read_ptr')
      BY <1>1, <3>1 DEF Avail, AvailFrom
    <3>4. Roomy => Avail' >= Window
      BY <1>4, <2>2, <3>3 DEF Low
    <3> QED BY <1>2, <3>1, <3>2, <3>4 DEF RingOK
  <2> QED BY <2>1, <2>2
<1>6. oo' \in Int
  BY <1>1, <1>2 DEF TypeOK
<1>7. TypeOK'
  <2>1. Wrap' = Wrap
    BY <1>1 DEF Wrap
  <2>2. /\ size' \in Sizes \union {0} /\ ratio' \in Ratios /\ driver' = "advance"
        /\ enabled' \in BOOLEAN /\ clock' \in Nat /\ prev_clock' \in Nat /\ remainder' \in Int
        /\ threshold' \in Thresholds /\ to_fill' \in Nat
    BY <1>1, <1>2 DEF TypeOK, mixer
  <2>3. ss' \in 0 .. MaxSamples /\ count' \in 0 .. MaxSamples
    BY <1>1, <1>2 DEF TypeOK
  <2> HIDE DEF Window
  <2> QED BY <1>1, <1>2, <1>3, <1>5, <1>6, <2>1, <2>2, <2>3 DEF TypeOK
<1>8. WindowKept'
  BY <1>1, <1>2, <1>5 DEF IInv, WindowKept, Roomy, RingLocked, mixer, Window
<1> QED BY <1>1, <1>5, <1>7, <1>8, RemainderKept DEF IInv, mixer

\* Steps of the emulation thread that leave the ring alone.
LEMMA MixerKept ==
  ASSUME IInv, UNCHANGED <<ring, output, enabled, prev_clock>>, clock' \in Nat, threshold' \in Thresholds,
         remainder' \in Int, to_fill' \in Nat, to_fill' > 0 => size > 0, RemainderUnderOneSample'
  PROVE  IInv'
<1>1. TypeOK'
  BY RingUntouched DEF IInv, TypeOK, output
<1>2. WindowKept'
  BY RingUntouched DEF IInv, WindowKept, output, RingLocked, Window
<1> QED BY <1>1, <1>2, RingUntouched DEF IInv

\* The samples made of the time take it up but for less than one.
LEMMA UpdateKept == ASSUME IInv, NEW speed \in Speeds, Update(speed) PROVE IInv'
<1> DEFINE E == Elapsed
           X == MixRate * E
           n == X \div speed
           Y == speed * n
           p == Y \div MixRate
<1>1. E \in Nat /\ speed \in Nat \ {0} /\ MixRate \in Nat \ {0}
  BY SoundAssumption DEF Update, IInv, TypeOK, Elapsed
<1>2. /\ to_fill' = n /\ n > 0 /\ remainder' = E - p /\ enabled
      /\ UNCHANGED <<ring, output, enabled, clock, prev_clock, threshold>>
  BY DEF Update, Left
<1> HIDE DEF E
<1>3. X \in Nat
  BY <1>1
<1> HIDE DEF X
<1>4. speed * n <= X /\ X < speed * n + speed /\ n \in Nat
  BY <1>1, <1>3, Quotient
<1> HIDE DEF n
<1>5. Y \in Nat /\ Y <= X /\ X < Y + speed
  BY <1>1, <1>4
<1> HIDE DEF Y
<1>6. MixRate * p <= Y /\ Y < MixRate * p + MixRate /\ p \in Nat
  BY <1>1, <1>5, Quotient
<1> HIDE DEF p
<1>7. p <= E
  <2>1. Y <= MixRate * E
    BY <1>5 DEF X
  <2> QED BY <1>1, <1>5, <1>6, <2>1, LessByProduct
<1>8. remainder' \in Int /\ remainder' >= 0
  BY <1>1, <1>2, <1>6, <1>7
<1>9. remainder' * MixRate < speed + MixRate
  <2>1. remainder' * MixRate = MixRate * E - MixRate * p
    BY <1>1, <1>2, <1>6
  <2> DEFINE a == MixRate * E
             b == MixRate * p
             d == remainder' * MixRate
  <2>2. a \in Int /\ b \in Int /\ d \in Int
    BY <1>1, <1>6, <1>8
  <2>3. a < Y + speed /\ Y < b + MixRate /\ d = a - b
    BY <1>5, <1>6, <2>1 DEF X
  <2> HIDE DEF a, b, d
  <2>4. d < speed + MixRate
    BY <1>1, <1>5, <2>2, <2>3
  <2> QED BY <2>4 DEF d
<1>10. RemainderUnderOneSample'
  BY <1>8, <1>9 DEF RemainderUnderOneSample
<1>11. size > 0
  BY <1>2 DEF IInv, WindowKept
<1> QED BY <1>2, <1>4, <1>8, <1>10, <1>11, MixerKept DEF IInv, TypeOK

LEMMA FillKept == ASSUME IInv, Fill PROVE IInv'
<1> USE SoundAssumption
<1>1. /\ to_fill > 0 /\ FillMain(to_fill, read_ptr) /\ prev_clock' = clock /\ to_fill' = 0
      /\ UNCHANGED <<size, read_ptr, ratio, output, enabled, clock, remainder, threshold>>
  BY DEF Fill
<1>2. TypeOK /\ RingOK /\ to_fill \in Nat /\ read_ptr \in 0 .. size - 1
  BY <1>1, RingIsOK DEF IInv, TypeOK
<1>3. /\ write_ptr' \in 0 .. size - 1 /\ next' \in 0 .. Wrap - 1
      /\ label' \in [0 .. size - 1 -> 0 .. Wrap - 1] /\ CellsInOrder'
      /\ AvailFrom(read_ptr)' = AvailFrom(read_ptr) + Filled(to_fill, read_ptr)
  BY <1>1, <1>2, FillKeepsOrder DEF IInv
<1>4. AvailFrom(read_ptr) \in Nat /\ Filled(to_fill, read_ptr) \in Nat
  <2>1. AvailFrom(read_ptr) \in 0 .. size - 1 /\ Filled(to_fill, read_ptr) \in 0 .. size - 1
    BY <1>2, FilledBounds
  <2> QED BY <1>2, <2>1 DEF RingOK
<1>5. TypeOK'
  BY <1>1, <1>2, <1>3 DEF TypeOK, Wrap, output
<1>6. WindowKept'
  <2>1. Avail' >= Avail
    BY <1>3, <1>4 DEF Avail
  <2>2. Avail \in Nat /\ Avail' \in Nat /\ Window \in Nat
    BY <1>3, <1>4 DEF Avail, Window
  <2> QED BY <1>1, <2>1, <2>2 DEF IInv, WindowKept, Roomy, RingLocked, output, Window
<1> QED BY <1>1, <1>3, <1>5, <1>6, RemainderKept DEF IInv

LEMMA ChangeRateKept ==
  ASSUME IInv, NEW n \in Sizes, NEW r \in Ratios, NEW limit \in Thresholds, NEW started \in BOOLEAN,
         ChangeRate(n, r, limit, started)
  PROVE  IInv'
<1>1. /\ threshold' = limit
      /\ driver' = IF started /\ n > 0 THEN "idle" ELSE "off"
      /\ UNCHANGED <<ss, count, clock, prev_clock, to_fill>>
  BY DEF ChangeRate
<1>2. n \in Nat
  BY SoundAssumption
<1>3. ~RingLocked'
  BY <1>1 DEF RingLocked
<1>4. CASE n > 0
  <2>1. NewRing(n, r) /\ remainder' = 0 /\ enabled' \in BOOLEAN
    BY <1>2, <1>4 DEF ChangeRate, SetRate
  <2>2. /\ size' = n /\ read_ptr' \in 0 .. size' - 1 /\ write_ptr' \in 0 .. size' - 1
        /\ label' \in [0 .. size' - 1 -> 0 .. Wrap' - 1] /\ next' \in 0 .. Wrap' - 1
        /\ ratio' \in Ratios /\ oo' = 0 /\ CellsInOrder'
        /\ Roomy' => Avail' >= Window
    BY <1>4, <2>1, NewRingInOrder
  <2>3. TypeOK'
    BY <1>1, <1>4, <2>1, <2>2 DEF IInv, TypeOK
  <2>4. WindowKept'
    BY <1>3, <1>4, <2>2 DEF WindowKept, Window
  <2>5. RemainderUnderOneSample'
    <3>1. PICK speed \in Speeds : speed \in Nat \ {0}
      BY SoundAssumption
    <3> QED BY <2>1, <3>1, SoundAssumption DEF RemainderUnderOneSample
  <2> QED BY <2>2, <2>3, <2>4, <2>5 DEF IInv
<1>5. CASE n = 0
  <2>0. SetRate(n, r)
    BY <1>5 DEF ChangeRate
  <2>1. UNCHANGED <<ring, oo, remainder>> /\ ~enabled' /\ enabled' \in BOOLEAN
    <3>1. ~(n > 0)
      BY <1>5
    <3>2. UNCHANGED <<ring, oo, remainder>>
      BY <2>0, <3>1 DEF SetRate
    <3>3. enabled' = (n > 0)
      BY <2>0 DEF SetRate
    <3>4. ~enabled'
      BY <3>1, <3>3, Zenon
    <3>5. enabled' \in BOOLEAN
      BY <3>3
    <3> QED BY <3>2, <3>4, <3>5
  <2>2. driver' = "off"
    BY <1>1, <1>5
  <2>3. TypeOK'
    BY <1>1, <2>1, <2>2, RingUntouched DEF IInv, TypeOK
  <2>4. WindowKept'
    BY <1>3, <2>1, <2>2 DEF WindowKept
  <2> QED BY <2>1, <2>3, <2>4, RingUntouched, RemainderKept DEF IInv
<1> QED BY <1>2, <1>4, <1>5

LEMMA NextKept == IInv /\ [Next]_vars => IInv'
<1> SUFFICES ASSUME IInv, [Next]_vars PROVE IInv'
  OBVIOUS
<1>1. ASSUME NEW n \in Bursts, CpuRuns(n) PROVE IInv'
  <2>1. clock' \in Nat
    BY <1>1, SoundAssumption DEF CpuRuns, IInv, TypeOK
  <2> QED BY <1>1, <2>1, RemainderKept, MixerKept DEF CpuRuns, IInv, TypeOK
<1>2. CASE ResetCpu
  BY <1>2, RemainderKept, MixerKept DEF ResetCpu, IInv, TypeOK
<1>3. ASSUME NEW limit \in Thresholds, ApplyConfig(limit) PROVE IInv'
  BY <1>3, RemainderKept, MixerKept DEF ApplyConfig, IInv, TypeOK
<1>4. CASE UNCHANGED vars
  BY <1>4, RemainderKept, MixerKept DEF vars, mixer, output, IInv, TypeOK
<1> QED BY <1>1, <1>2, <1>3, <1>4, DriverKept, AdvanceKept, UpdateKept, FillKept, ChangeRateKept DEF Next, DriverStep

-----------------------------------------------------------------------------
(* The theorems *)

\* Every step of the driver, of Update and of the configuration keeps the invariant.
THEOREM Inductive == Spec => []IInv
  BY InitIInv, NextKept, PTL DEF Spec

LEMMA WindowsAreInOrder == IInv => WindowIsReal /\ WindowInOrder
<1> SUFFICES ASSUME IInv, driver = "filter", Roomy PROVE Avail >= Window /\
       \A k \in 0 .. 2 * M : label[(read_ptr + k) % size] = (label[read_ptr] + k) % Wrap
  BY DEF WindowIsReal, WindowInOrder
<1>1. Avail >= Window /\ size > 0
  BY DEF IInv, WindowKept, TypeOK
<1>2. RingOK /\ M \in Nat /\ Window = 2 * M + 1
  BY <1>1, RingIsOK, SoundAssumption DEF IInv, Window
<1>3. Avail \in 1 .. size - 1
  BY <1>1, <1>2 DEF Avail, AvailFrom, RingOK
<1>4. ASSUME NEW k \in 0 .. 2 * M PROVE label[(read_ptr + k) % size] = (label[read_ptr] + k) % Wrap
  <2> DEFINE q == read_ptr + k
             c == q % size
  <2>1. q \in Nat /\ q < 2 * size /\ size \in Nat \ {0} /\ k < Avail
    BY <1>1, <1>2, <1>3 DEF RingOK
  <2> HIDE DEF q
  <2>2. c = IF q >= size THEN q - size ELSE q
    BY <2>1, ModUp
  <2>3. c \in 0 .. size - 1
    BY <2>1, <2>2
  <2> HIDE DEF c
  <2>4. Behind(c) = Avail - k /\ Behind(read_ptr) = Avail
    BY <1>2, <1>3, <2>1, <2>2 DEF Behind, Avail, AvailFrom, RingOK, q
  <2>5. label[c] = (next - (Avail - k)) % Wrap /\ label[read_ptr] = (next - Avail) % Wrap
    BY <1>1, <1>2, <2>3, <2>4 DEF IInv, CellsInOrder, RingOK
  <2>6. Wrap \in Nat \ {0} /\ next \in 0 .. Wrap - 1 /\ Avail \in 0 .. Wrap /\ k \in 0 .. Avail
    BY <1>2, <1>3, <2>1 DEF RingOK, Wrap
  <2>7. (next - (Avail - k)) % Wrap = (((next - Avail) % Wrap) + k) % Wrap
    BY <2>6, CatchUp
  <2> QED BY <2>5, <2>7 DEF c, q
<1> QED BY <1>1, <1>4

\* The windows the filter reads are whole and hold consecutive samples, whichever thread
\* filled the ring, and no time is lost between updates (SamplingRateConverter::Get,
\* FillMain and Sound::Update).
THEOREM SoundIsInOrder == Spec => []SoundInOrder
<1>1. IInv => SoundInOrder
  BY WindowsAreInOrder DEF IInv, SoundInOrder
<1> QED BY <1>1, Inductive, PTL

\* A fill overwrites only what is behind the read pointer.
LEMMA FillSparesUnread ==
  ASSUME RingOK, CellsInOrder, NEW r \in 0 .. size - 1, NEW n \in Nat, FillMain(n, r), size' = size,
         r = read_ptr \/ (r = Stepped(read_ptr, 1)),
         NEW c \in Unread
  PROVE  label'[c] = label[c]
<1> DEFINE over == IF c >= write_ptr THEN c - write_ptr ELSE size + c - write_ptr
           d == (c - read_ptr) % size
<1>1. c \in 0 .. size - 1 /\ d \in 1 .. Avail - 1
  BY DEF Unread
<1>2. d = IF c < read_ptr THEN c - read_ptr + size ELSE c - read_ptr
  <2>1. size \in Nat \ {0} /\ read_ptr \in 0 .. size
    BY DEF RingOK
  <2> QED BY <1>1, <2>1, ModDown
<1> HIDE DEF d
<1>3. AvailFrom(r) >= Avail - 1
  BY <1>1, PointersAre DEF Avail, AvailFrom, Stepped
<1>4. over = d + size - Avail
  BY <1>1, <1>2, PointersAre DEF Avail, AvailFrom
<1>5. /\ Filled(n, r) <= size - 1 - AvailFrom(r)
      /\ Filled(n, r) \in Nat /\ AvailFrom(r) \in Nat /\ Avail \in Nat
  <2>1. Avail \in Nat
    BY DEF RingOK, Avail, AvailFrom
  <2>2. /\ AvailFrom(r) \in 0 .. size - 1 /\ Filled(n, r) \in 0 .. size - 1
        /\ AvailFrom(r) + Filled(n, r) <= size - 1
    BY FilledBounds
  <2> QED BY <2>1, <2>2 DEF RingOK
<1>6. over >= Filled(n, r)
  <2>1. size \in Nat /\ d \in Nat
    BY <1>1, <1>5, PointersAre
  <2> HIDE DEF over
  <2> QED BY <1>1, <1>3, <1>4, <1>5, <2>1
<1> QED BY <1>1, <1>6, FillKeepsOrder

\* No step but a change of the configuration touches a sample that waits to be read
\* (FillMain from Update and from Get).
THEOREM WaitingSamplesAreSafe == Spec => NothingDropped
<1>1. IInv /\ [Next]_vars => [Remade \/ \A c \in Unread : label'[c] = label[c]]_vars
  <2> SUFFICES ASSUME IInv, Next PROVE Remade \/ \A c \in Unread : label'[c] = label[c]
    OBVIOUS
  <2>1. CASE Advance
    <3>1. size > 0 /\ RingOK /\ size' = size /\ read_ptr' = Stepped(read_ptr, 1)
      BY <2>1, RingIsOK DEF Advance, IInv, TypeOK
    <3>2. CASE Low(read_ptr')
      <4>1. PICK s \in 0 .. size - 1 : s = read_ptr'
        BY <3>1, PointersAre DEF Stepped
      <4>2. FillMain(Greater(ss, count), s) /\ Greater(ss, count) \in Nat
        BY <2>1, <3>2, <4>1, SoundAssumption DEF Advance, Greater, IInv, TypeOK
      <4> QED BY <3>1, <4>1, <4>2, FillSparesUnread DEF IInv
    <3>3. CASE ~Low(read_ptr')
      BY <2>1, <3>3 DEF Advance
    <3> QED BY <3>2, <3>3
  <2>2. CASE Fill
    <3>1. /\ RingOK /\ size' = size /\ read_ptr \in 0 .. size - 1 /\ to_fill \in Nat
          /\ FillMain(to_fill, read_ptr)
      BY <2>2, RingIsOK DEF Fill, IInv, TypeOK
    <3> QED BY <3>1, FillSparesUnread DEF IInv
  <2>3. CASE \E n \in Sizes, r \in Ratios, limit \in Thresholds, started \in BOOLEAN : ChangeRate(n, r, limit, started)
    BY <2>3 DEF Remade
  <2>4. ASSUME ~Advance, ~Fill, ~Remade PROVE UNCHANGED label
    BY <2>4 DEF Next, DriverStep, BeginGet, Filter, SampleDone, CpuRuns, ResetCpu, Update, ApplyConfig, Remade, ring
  <2> QED BY <2>1, <2>2, <2>3, <2>4 DEF Remade
<1> QED BY <1>1, Inductive, PTL DEF Spec, NothingDropped

-----------------------------------------------------------------------------
(* DirectSound: the ring that the device plays while callbacks fill it. *)

CallerSet == [at : {"out", "asked", "in", "found"}, len : Positions, restored : BOOLEAN]
DsSet ==
  [kind : {"timer", "notify"}, ui : {"off", "starting", "on", "closing", "stopped"}, playing : BOOLEAN, sending : BOOLEAN,
   runs : BOOLEAN, lost : BOOLEAN, event : BOOLEAN, pos : Positions, next : Positions, got : Nat, fresh : Nat,
   last : Nat \union {Lost}, caller : [1 .. Callbacks -> CallerSet]]
DsTypeOK == ds \in DsSet /\ frames \in [Positions -> Nat \union {Lost}]

\* How far behind the place that is written next position i lies: 1 for the frame
\* written last, Frames for the oldest.
Age(place, i) == IF i < place THEN place - i ELSE place + Frames - i

\* One caller at a time is in Send: sending_ keeps it so, or there is but one thread.
Inside(d, c) == d.caller[c].at \in {"in", "found"}
Exclusive(d) ==
  \A c \in 1 .. Callbacks :
    /\ d.kind = "timer" /\ Inside(d, c) => d.sending /\ \A e \in 1 .. Callbacks : Inside(d, e) => e = c
    /\ d.kind = "notify" => d.caller[c].at # "asked" /\ (c # 1 => d.caller[c].at = "out")

\* Before the driver plays nobody calls and nothing has been written.
Quiet(d) ==
  (d.ui = "off" \/ (d.ui = "starting" /\ d.kind = "timer")) =>
    /\ ~d.playing /\ d.fresh = 0 /\ \A c \in 1 .. Callbacks : d.caller[c].at = "out"
    /\ d.ui = "off" => ~d.lost

\* What has been written since the ring was new or lost is in order, the rest is not
\* of the source.
InRing(d, f) ==
  \A i \in Positions : IF Age(d.next, i) <= d.fresh THEN f[i] = d.got - Age(d.next, i) + 1 ELSE f[i] \in {0, Lost}

\* What was heard last lies just before the place that plays.
Heard(d) == d.last >= 1 => Age(d.next, d.pos) <= d.fresh /\ d.last = d.got - Age(d.next, d.pos)

\* What a caller has found to be played out stays so until it writes there.
Room(d) ==
  \A c \in 1 .. Callbacks : d.caller[c].at = "found" /\ ~d.lost =>
     d.caller[c].len > 0 /\ (d.fresh > 0 => d.caller[c].len <= Frames - Age(d.next, d.pos))

DsOK(d, f) ==
  /\ d \in DsSet /\ f \in [Positions -> Nat \union {Lost}]
  /\ Exclusive(d) /\ Quiet(d) /\ (d.lost => d.fresh = 0 /\ ~d.runs)
  /\ InRing(d, f) /\ Heard(d) /\ Room(d)
DsInv == DsOK(ds, frames)

LEMMA AgeIs ==
  ASSUME DsAssumption, NEW place \in Positions, NEW i \in Positions
  PROVE  Age(place, i) \in 1 .. Frames
BY DEF DsAssumption, Positions, Age

\* Frames is added to no place that is written.
LEMMA AgesMove ==
  ASSUME DsAssumption, NEW place \in Positions, NEW i \in Positions, NEW len \in 1 .. Frames - 1,
         NEW o, o = IF i >= place THEN i - place ELSE i + Frames - place
  PROVE  /\ Past(place, len) \in Positions /\ o \in 0 .. Frames - 1 /\ Age(place, i) = Frames - o
         /\ Age(Past(place, len), i) = IF o < len THEN len - o ELSE Age(place, i) + len
BY DEF DsAssumption, Positions, Age, Past

LEMMA DevicesNext ==
  ASSUME DsAssumption, NEW i \in Positions
  PROVE  (i + 1) % Frames = IF i + 1 = Frames THEN 0 ELSE i + 1
<1>1. Frames \in Nat /\ Frames > 1 /\ i \in Nat /\ i + 1 <= Frames
  BY DEF DsAssumption, Positions
<1>2. CASE i + 1 = Frames
  BY <1>1, <1>2
<1>3. CASE i + 1 < Frames
  BY <1>1, <1>3
<1> QED BY <1>1, <1>2, <1>3

\* A step that moves neither the ring nor what is in it.
Still(d, e) == e.next = d.next /\ e.pos = d.pos /\ e.got = d.got /\ e.fresh = d.fresh /\ e.last = d.last
LEMMA StillOK ==
  ASSUME NEW d, NEW e, NEW f, Still(d, e), InRing(d, f), Heard(d)
  PROVE  InRing(e, f) /\ Heard(e)
BY DEF Still, InRing, Heard

LEMMA DsInitOK == DsAssumption /\ DsInit => DsInv
<1> SUFFICES ASSUME DsAssumption, DsInit PROVE DsInv
  OBVIOUS
<1>1. DsTypeOK
  BY DEF DsAssumption, DsInit, DsTypeOK, DsSet, CallerSet, Outside, Positions, Lost
<1>3. InRing(ds, frames)
  <2>1. ds.fresh = 0 /\ ds.next = 0 /\ \A i \in Positions : frames[i] = 0
    BY DEF DsInit
  <2>2. \A i \in Positions : ~(Age(0, i) <= 0)
    BY AgeIs DEF Positions, DsAssumption
  <2> QED BY <2>1, <2>2 DEF InRing
<1> QED BY <1>1, <1>3 DEF DsInit, DsInv, DsOK, DsTypeOK, Exclusive, Inside, Quiet, Heard, Room, Outside

LEMMA CallersAre ==
  ASSUME DsAssumption, DsTypeOK, NEW c \in Caller
  PROVE  c \in 1 .. Callbacks /\ 1 \in 1 .. Callbacks /\ ds.caller[c] \in CallerSet /\ (ds.kind = "notify" => c = 1)
BY DEF DsAssumption, DsTypeOK, DsSet, Caller

\* Nothing of the source is in the ring: where it is written next does not matter.
LEMMA NothingWritten ==
  ASSUME DsAssumption, NEW d, d.next \in Positions, d.fresh = 0, d.pos \in Positions, NEW f, InRing(d, f), Heard(d),
         NEW e, e.next \in Positions, e.fresh = 0, e.last = d.last
  PROVE  InRing(e, f) /\ Heard(e)
<1>1. \A i \in Positions : ~(Age(d.next, i) <= 0) /\ ~(Age(e.next, i) <= 0)
  BY AgeIs DEF DsAssumption
<1> QED BY <1>1 DEF InRing, Heard

\* A step that leaves the ring, and what was heard of it, alone.
LEMMA ControlOK ==
  ASSUME NEW d, NEW f, DsOK(d, f), NEW e \in DsSet, Still(d, e),
         Exclusive(e), Quiet(e), Room(e), e.lost => d.lost /\ ~e.runs
  PROVE  DsOK(e, f)
BY StillOK DEF DsOK, Still

LEMMA OpenOK ==
  ASSUME DsAssumption, DsInv, OpenDs
  PROVE  DsInv'
<1>0. /\ ds \in DsSet /\ 1 \in Positions /\ ds.ui = "off" /\ Exclusive(ds) /\ ds.fresh = 0 /\ ~ds.lost /\ frames' = frames
      /\ \A c \in 1 .. Callbacks : ds.caller[c].at = "out"
  BY DEF DsAssumption, DsInv, DsOK, Positions, OpenDs, Quiet
<1>1. CASE ds.kind = "timer"
  <2>1. ds' = [ds EXCEPT !.ui = "starting", !.runs = TRUE]
    BY <1>1 DEF OpenDs
  <2>2. ds' \in DsSet
    BY <1>0, <2>1, Zenon DEF DsSet
  <2>3. Still(ds, ds') /\ ds'.kind = ds.kind /\ ds'.caller = ds.caller /\ ds'.lost = ds.lost /\ ds'.playing = ds.playing /\ ds'.sending = ds.sending /\ ds'.ui = "starting"
    BY <1>0, <2>1 DEF DsSet, Still
  <2>4. Exclusive(ds') /\ Quiet(ds') /\ Room(ds')
    BY <1>0, <2>3 DEF DsInv, DsOK, Exclusive, Inside, Quiet, Room, Still
  <2> QED BY <1>0, <2>2, <2>3, <2>4, ControlOK DEF DsInv
<1>2. CASE ds.kind = "notify"
  <2>1. ds' = [ds EXCEPT !.ui = "starting", !.playing = TRUE, !.next = 1, !.event = TRUE]
    BY <1>2 DEF OpenDs
  <2>2. ds' \in DsSet
    BY <1>0, <2>1, Zenon DEF DsSet
  <2>3. /\ ds'.kind = ds.kind /\ ds'.caller = ds.caller /\ ds'.lost = ds.lost /\ ds'.sending = ds.sending /\ ds'.ui = "starting"
        /\ ds'.next = 1 /\ ds'.fresh = 0 /\ ds'.last = ds.last
    BY <1>0, <2>1 DEF DsSet
  <2>4. Exclusive(ds') /\ Quiet(ds') /\ Room(ds')
    BY <1>0, <1>2, <2>3 DEF Exclusive, Inside, Quiet, Room
  <2>5. InRing(ds', frames) /\ Heard(ds')
    BY <1>0, <2>3, NothingWritten DEF DsInv, DsOK, DsSet
  <2> QED BY <1>0, <2>2, <2>3, <2>4, <2>5 DEF DsInv, DsOK
<1> QED BY <1>0, <1>1, <1>2 DEF DsSet

LEMMA StartOK ==
  ASSUME DsAssumption, DsInv, StartPlaying
  PROVE  DsInv'
<1>0. /\ ds \in DsSet /\ 1 \in Positions /\ ds.ui = "starting" /\ Exclusive(ds) /\ Room(ds) /\ frames' = frames /\ (ds.lost => ~ds.runs)
  BY DEF DsAssumption, DsInv, DsOK, Positions, StartPlaying
<1>1. CASE ds.kind = "timer"
  <2>1. ds' = [ds EXCEPT !.ui = "on", !.playing = TRUE, !.next = 1] /\ ds.fresh = 0 /\ \A c \in 1 .. Callbacks : ds.caller[c].at = "out"
    BY <1>1 DEF StartPlaying, DsInv, DsOK, Quiet
  <2>2. ds' \in DsSet
    BY <1>0, <2>1, Zenon DEF DsSet
  <2>3. /\ ds'.kind = ds.kind /\ ds'.caller = ds.caller /\ ds'.lost = ds.lost /\ ds'.runs = ds.runs /\ ds'.ui = "on"
        /\ ds'.next = 1 /\ ds'.fresh = 0 /\ ds'.last = ds.last
    BY <1>0, <2>1 DEF DsSet
  <2>4. Exclusive(ds') /\ Quiet(ds') /\ Room(ds')
    BY <1>0, <1>1, <2>1, <2>3 DEF Exclusive, Inside, Quiet, Room
  <2>5. InRing(ds', frames) /\ Heard(ds')
    BY <1>0, <2>1, <2>3, NothingWritten DEF DsInv, DsOK, DsSet
  <2> QED BY <1>0, <2>2, <2>3, <2>4, <2>5 DEF DsInv, DsOK
<1>2. CASE ds.kind = "notify"
  <2>1. ds' = [ds EXCEPT !.ui = "on", !.runs = ~ds.lost]
    BY <1>2 DEF StartPlaying
  <2>2. ds' \in DsSet
    BY <1>0, <2>1, Zenon DEF DsSet
  <2>3. Still(ds, ds') /\ ds'.kind = ds.kind /\ ds'.caller = ds.caller /\ ds'.lost = ds.lost /\ ds'.sending = ds.sending /\ ds'.ui = "on" /\ ds'.runs = ~ds.lost
    BY <1>0, <2>1 DEF DsSet, Still
  <2>4. Exclusive(ds') /\ Quiet(ds') /\ Room(ds')
    BY <1>0, <2>3 DEF Exclusive, Inside, Quiet, Room, Still
  <2> QED BY <1>0, <2>2, <2>3, <2>4, ControlOK DEF DsInv
<1> QED BY <1>0, <1>1, <1>2 DEF DsSet

LEMMA CloseOK ==
  ASSUME DsAssumption, DsInv, CloseDs \/ StopDs
  PROVE  DsInv'
<1>0. /\ ds \in DsSet /\ ds.ui \in {"on", "closing"} /\ Exclusive(ds) /\ Room(ds) /\ frames' = frames /\ (ds.lost => ~ds.runs)
      /\ Outside \in CallerSet /\ Outside.at = "out"
  BY DEF DsAssumption, DsInv, DsOK, Positions, CloseDs, StopDs, CallerSet, Outside
<1>1. PICK ui \in {"closing", "stopped"}, playing \in BOOLEAN, runs \in BOOLEAN, caller \in {ds.caller, [c \in 1 .. Callbacks |-> Outside]} :
        ds' = [ds EXCEPT !.ui = ui, !.playing = playing, !.runs = runs, !.caller = caller] /\ (runs => ds.runs)
  <2>1. CASE CloseDs
    <3>1. ds' = [ds EXCEPT !.ui = "closing", !.playing = FALSE, !.runs = ds.runs, !.caller = ds.caller]
      BY <1>0, <2>1 DEF CloseDs, DsSet
    <3> QED BY <1>0, <3>1 DEF DsSet
  <2>2. CASE StopDs
    <3>1. ds' = [ds EXCEPT !.ui = "stopped", !.playing = ds.playing, !.runs = FALSE,
                           !.caller = IF ds.kind = "notify" THEN [c \in 1 .. Callbacks |-> Outside] ELSE ds.caller]
      BY <1>0, <2>2 DEF StopDs, DsSet
    <3> QED BY <1>0, <3>1 DEF DsSet
  <2> QED BY <2>1, <2>2
<1>2. caller \in [1 .. Callbacks -> CallerSet]
  BY <1>0 DEF DsSet
<1>3. ds' \in DsSet
  BY <1>0, <1>1, <1>2, Zenon DEF DsSet
<1>4. Still(ds, ds') /\ ds'.kind = ds.kind /\ ds'.caller = caller /\ ds'.lost = ds.lost /\ ds'.sending = ds.sending /\ ds'.ui = ui /\ ds'.runs = runs
  BY <1>0, <1>1 DEF DsSet, Still
<1>5. Exclusive(ds') /\ Quiet(ds') /\ Room(ds')
  BY <1>0, <1>1, <1>4 DEF Exclusive, Inside, Quiet, Room, Still
<1> QED BY <1>0, <1>1, <1>3, <1>4, <1>5, ControlOK DEF DsInv

\* One caller takes a step of its own, and perhaps sending_ or the event changes.
LEMMA CallerOK ==
  ASSUME NEW d, NEW f, DsOK(d, f), NEW c \in 1 .. Callbacks, NEW sending \in BOOLEAN, NEW event \in BOOLEAN,
         NEW here \in CallerSet, here.at # "out" => d.playing \/ d.caller[c].at # "out",
         d.kind = "notify" => here.at # "asked" /\ (c = 1 \/ here.at = "out"),
         d.kind = "timer" /\ here.at \in {"in", "found"} => sending /\ (Inside(d, c) \/ ~d.sending),
         d.kind = "timer" /\ d.sending /\ ~sending => Inside(d, c) /\ here.at = "out",
         here.at = "found" /\ ~d.lost =>
           here.len > 0 /\ (d.fresh > 0 => here.len <= Frames - Age(d.next, d.pos))
  PROVE  DsOK([d EXCEPT !.sending = sending, !.event = event, !.caller[c] = here], f)
<1> DEFINE e == [d EXCEPT !.sending = sending, !.event = event, !.caller[c] = here]
<1>1. d \in DsSet /\ d.caller \in [1 .. Callbacks -> CallerSet] /\ Exclusive(d) /\ Quiet(d) /\ Room(d) /\ (d.lost => ~d.runs)
  BY DEF DsOK, DsSet
<1>2. [d.caller EXCEPT ![c] = here] \in [1 .. Callbacks -> CallerSet]
  BY <1>1
<1>3. e = [d EXCEPT !.sending = sending, !.event = event, !.caller = [d.caller EXCEPT ![c] = here]]
  BY <1>1 DEF DsSet
<1> HIDE DEF e
<1>4. e \in DsSet
  BY <1>1, <1>2, <1>3, Zenon DEF DsSet
<1>5. /\ Still(d, e) /\ e.kind = d.kind /\ e.ui = d.ui /\ e.playing = d.playing /\ e.lost = d.lost /\ e.runs = d.runs
      /\ e.sending = sending /\ e.caller = [d.caller EXCEPT ![c] = here]
  BY <1>1, <1>3 DEF DsSet, Still
<1>6. \A b \in 1 .. Callbacks : e.caller[b] = IF b = c THEN here ELSE d.caller[b]
  BY <1>1, <1>5
<1>7. Exclusive(e)
  BY <1>1, <1>5, <1>6 DEF Exclusive, Inside
<1>8. Quiet(e) /\ Room(e)
  BY <1>1, <1>5, <1>6 DEF Quiet, Room, Still
<1> QED BY <1>1, <1>4, <1>5, <1>7, <1>8, ControlOK DEF e

LEMMA LeaveOK ==
  ASSUME DsAssumption, NEW d, NEW f, DsOK(d, f), NEW c \in 1 .. Callbacks, Inside(d, c)
  PROVE  DsOK(Leave(d, c), f)
<1>1. d \in DsSet /\ Outside \in CallerSet /\ Outside.at = "out"
  BY DEF DsAssumption, DsOK, CallerSet, Outside, Positions
<1>2. Leave(d, c) = [d EXCEPT !.sending = FALSE, !.event = d.event, !.caller[c] = Outside]
  BY <1>1 DEF Leave, DsSet
<1>3. d.event \in BOOLEAN
  BY <1>1 DEF DsSet
<1>4. DsOK([d EXCEPT !.sending = FALSE, !.event = d.event, !.caller[c] = Outside], f)
  BY <1>1, <1>3, CallerOK
<1> QED BY <1>2, <1>4

LEMMA CallOK ==
  ASSUME DsAssumption, DsInv, NEW c \in Caller, TimerCalls(c) \/ Enter(c) \/ LockFails(c)
  PROVE  DsInv'
<1>1. /\ c \in 1 .. Callbacks /\ ds.caller[c] \in CallerSet /\ (ds.kind = "notify" => c = 1) /\ ds \in DsSet /\ frames' = frames
      /\ ds.sending \in BOOLEAN /\ ds.event \in BOOLEAN /\ Outside \in CallerSet /\ Outside.at = "out"
  BY CallersAre DEF DsAssumption, DsInv, DsOK, DsTypeOK, TimerCalls, Enter, LockFails, DsSet, CallerSet, Outside, Positions
<1>2. ASSUME NEW at \in {"asked", "in"} PROVE [ds.caller[c] EXCEPT !.at = at] \in CallerSet /\ [ds.caller[c] EXCEPT !.at = at].at = at
  BY <1>1 DEF CallerSet
<1>3. CASE TimerCalls(c)
  <2> DEFINE here == [ds.caller[c] EXCEPT !.at = "asked"]
  <2>1. ds' = [ds EXCEPT !.sending = ds.sending, !.event = ds.event, !.caller[c] = here]
    BY <1>1, <1>3 DEF TimerCalls, DsSet, CallerSet
  <2>2. here \in CallerSet /\ here.at = "asked" /\ ds.playing /\ ds.kind = "timer"
    BY <1>2, <1>3 DEF TimerCalls
  <2> HIDE DEF here
  <2>3. DsOK([ds EXCEPT !.sending = ds.sending, !.event = ds.event, !.caller[c] = here], frames)
    BY <1>1, <2>2, CallerOK DEF DsInv
  <2> QED BY <1>1, <2>1, <2>3 DEF DsInv
<1>4. CASE Enter(c) /\ ds.sending
  <2>1. ds' = [ds EXCEPT !.sending = ds.sending, !.event = ds.event, !.caller[c] = Outside]
    BY <1>1, <1>4 DEF Enter, DsSet
  <2>2. ds.caller[c].at = "asked"
    BY <1>4 DEF Enter
  <2>3. DsOK([ds EXCEPT !.sending = ds.sending, !.event = ds.event, !.caller[c] = Outside], frames)
    BY <1>1, <2>2, CallerOK DEF DsInv
  <2> QED BY <1>1, <2>1, <2>3 DEF DsInv
<1>5. CASE Enter(c) /\ ~ds.sending
  <2> DEFINE here == [ds.caller[c] EXCEPT !.at = "in"]
  <2>1. ds' = [ds EXCEPT !.sending = TRUE, !.event = ds.event, !.caller[c] = here]
    BY <1>1, <1>5 DEF Enter, DsSet, CallerSet
  <2>2. here \in CallerSet /\ here.at = "in" /\ ds.caller[c].at = "asked" /\ ds.kind # "notify"
    BY <1>1, <1>2, <1>5 DEF Enter, DsInv, DsOK, Exclusive
  <2> HIDE DEF here
  <2>3. DsOK([ds EXCEPT !.sending = TRUE, !.event = ds.event, !.caller[c] = here], frames)
    BY <1>1, <1>5, <2>2, CallerOK DEF DsInv
  <2> QED BY <1>1, <2>1, <2>3 DEF DsInv
<1>6. CASE LockFails(c)
  BY <1>1, <1>6, LeaveOK DEF LockFails, DsInv, Inside
<1> QED BY <1>3, <1>4, <1>5, <1>6

LEMMA WakeOK ==
  ASSUME DsAssumption, DsInv, ThreadWakes
  PROVE  DsInv'
<1> DEFINE here == [ds.caller[1] EXCEPT !.at = "in"]
<1>1. /\ 1 \in 1 .. Callbacks /\ ds \in DsSet /\ ds.caller[1] \in CallerSet /\ ds.sending \in BOOLEAN /\ frames' = frames
      /\ ds.kind = "notify" /\ ds.playing
  BY DEF DsAssumption, DsInv, DsOK, DsSet, ThreadWakes
<1>2. here \in CallerSet /\ here.at = "in"
  BY <1>1 DEF CallerSet
<1>3. ds' = [ds EXCEPT !.sending = ds.sending, !.event = FALSE, !.caller[1] = here]
  BY <1>1 DEF ThreadWakes, DsSet, CallerSet
<1> HIDE DEF here
<1>4. DsOK([ds EXCEPT !.sending = ds.sending, !.event = FALSE, !.caller[1] = here], frames)
  BY <1>1, <1>2, CallerOK DEF DsInv
<1> QED BY <1>1, <1>3, <1>4 DEF DsInv

\* What Find looks for: the frames from the place written next to the one that plays.
LEMMA LengthIs ==
  ASSUME DsAssumption, NEW play \in Positions, NEW place \in Positions
  PROVE  Length(play, place) \in Positions /\ Length(play, place) = Frames - Age(place, play)
BY DEF DsAssumption, Positions, Length, Age

LEMMA RestoredOK ==
  ASSUME DsAssumption, NEW d, NEW f, DsOK(d, f), d.lost, NEW pos \in Positions,
         NEW c \in 1 .. Callbacks, d.caller[c].at = "in", d.kind = "notify" => c = 1
  PROVE  DsOK(Restored(d, pos), f) /\ ~Restored(d, pos).lost /\ Restored(d, pos).caller = d.caller /\ Restored(d, pos).kind = d.kind
<1> DEFINE e == Restored(d, pos)
           place == IF d.kind = "timer" THEN 0 ELSE d.next
<1>a. d \in DsSet /\ place \in Positions /\ d.kind \in {"timer", "notify"} /\ d.fresh = 0
  BY DEF DsAssumption, DsOK, DsSet, Positions
<1>b. e = [d EXCEPT !.lost = FALSE, !.pos = pos, !.next = place]
  BY <1>a DEF Restored, DsSet
<1> HIDE DEF place, e
<1>c. e \in DsSet
  BY <1>a, <1>b, Zenon DEF DsSet
<1>1. /\ e.caller = d.caller /\ ~e.lost /\ e.kind = d.kind /\ e.fresh = 0 /\ e.last = d.last /\ e.ui = d.ui
      /\ e.sending = d.sending /\ e.playing = d.playing
  BY <1>a, <1>b DEF DsSet
<1>2. Exclusive(e) /\ Quiet(e)
  BY <1>1 DEF DsOK, Exclusive, Inside, Quiet
<1>3. Room(e)
  <2>1. \A b \in 1 .. Callbacks : d.caller[b].at # "found"
    BY <1>a DEF DsOK, Exclusive, Inside
  <2> QED BY <1>1, <2>1 DEF Room
<1>4. InRing(e, f) /\ Heard(e)
  BY <1>a, <1>c, <1>1, NothingWritten DEF DsOK, DsSet
<1> QED BY <1>c, <1>1, <1>2, <1>3, <1>4 DEF DsOK, e

LEMMA FindOK ==
  ASSUME DsAssumption, NEW d, NEW f, DsOK(d, f), ~d.lost, NEW restored \in BOOLEAN,
         NEW c \in 1 .. Callbacks, d.caller[c].at = "in", d.kind = "notify" => c = 1
  PROVE  DsOK(Find(d, c, restored), f)
<1> DEFINE len == Length(d.pos, d.next)
           here == [at |-> "found", len |-> len, restored |-> restored]
<1>0. d \in DsSet /\ d.sending \in BOOLEAN /\ d.event \in BOOLEAN /\ d.pos \in Positions /\ d.next \in Positions
  BY DEF DsOK, DsSet
<1>1. CASE len = 0
  BY <1>1, LeaveOK DEF Find, Inside
<1>2. CASE len # 0
  <2>1. len \in Positions /\ len = Frames - Age(d.next, d.pos)
    BY <1>0, LengthIs
  <2>2. len > 0 /\ Age(d.next, d.pos) \in 1 .. Frames /\ Frames \in Nat
    BY <1>0, <1>2, <2>1, AgeIs DEF Positions, DsAssumption
  <2>3. Find(d, c, restored) = [d EXCEPT !.caller[c] = here]
    BY <1>2 DEF Find
  <2> HIDE DEF len
  <2>4. here \in CallerSet /\ here.at = "found" /\ here.len = len
    BY <2>1 DEF CallerSet
  <2> HIDE DEF here
  <2>5. [d EXCEPT !.caller[c] = here] = [d EXCEPT !.sending = d.sending, !.event = d.event, !.caller[c] = here]
    BY <1>0 DEF DsSet
  <2>6. Inside(d, c) /\ here.len <= Frames - Age(d.next, d.pos)
    BY <2>1, <2>2, <2>4 DEF Inside
  <2>7. d.kind = "timer" => d.sending
    BY <2>6 DEF DsOK, Exclusive
  <2>8. DsOK([d EXCEPT !.sending = d.sending, !.event = d.event, !.caller[c] = here], f)
    BY <1>0, <2>2, <2>4, <2>6, <2>7, CallerOK
  <2> QED BY <2>3, <2>5, <2>8
<1> QED BY <1>1, <1>2

LEMMA LocateOK ==
  ASSUME DsAssumption, DsInv, NEW c \in Caller, Locate(c)
  PROVE  DsInv'
<1>1. c \in 1 .. Callbacks /\ ds.caller[c].at = "in" /\ frames' = frames /\ (ds.kind = "notify" => c = 1)
  BY CallersAre DEF Locate, DsInv, DsOK, DsTypeOK
<1>2. DsOK(Leave(ds, c), frames)
  BY <1>1, LeaveOK DEF DsInv, Inside
<1>3. ~ds.lost => DsOK(Find(ds, c, FALSE), frames)
  BY <1>1, FindOK DEF DsInv
<1>4. ASSUME ds.lost, NEW pos \in {0, ds.pos} PROVE DsOK(Find(Restored(ds, pos), c, TRUE), frames)
  <2>1. pos \in Positions
    BY DEF DsAssumption, DsInv, DsOK, DsSet, Positions
  <2> DEFINE d == Restored(ds, pos)
  <2>2. DsOK(d, frames) /\ ~d.lost /\ d.caller[c].at = "in" /\ d.kind = ds.kind
    BY <1>1, <1>4, <2>1, RestoredOK DEF DsInv
  <2> HIDE DEF d
  <2>3. DsOK(Find(d, c, TRUE), frames)
    BY <1>1, <2>2, FindOK
  <2> QED BY <2>3 DEF d
<1>5. \/ ds' = Leave(ds, c)
      \/ ~ds.lost /\ ds' = Find(ds, c, FALSE)
      \/ ds.lost /\ \E pos \in {0, ds.pos} : ds' = Find(Restored(ds, pos), c, TRUE)
  BY DEF Locate
<1>6. DsOK(ds', frames)
  BY <1>2, <1>3, <1>4, <1>5
<1> QED BY <1>1, <1>6 DEF DsInv

LEMMA WriteOK ==
  ASSUME DsAssumption, DsInv, NEW c \in Caller, WriteFrames(c)
  PROVE  DsInv'
<1> DEFINE len == ds.caller[c].len
           d == [ds EXCEPT !.next = Past(@, len), !.got = @ + len, !.fresh = @ + len, !.runs = @ \/ ds.caller[c].restored]
<1>1. /\ c \in 1 .. Callbacks /\ ds.caller[c] \in CallerSet /\ ds.caller[c].at = "found" /\ ~ds.lost
      /\ frames' = Filling(len) /\ ds' = Leave(d, c) /\ Inside(d, c) /\ ds \in DsSet
  BY CallersAre DEF WriteFrames, DsInv, DsOK, DsTypeOK, DsSet, Inside
<1>2. /\ len \in 1 .. Frames - 1 /\ (ds.fresh > 0 => len <= Frames - Age(ds.next, ds.pos))
      /\ Past(ds.next, len) \in Positions /\ ds.got \in Nat /\ ds.fresh \in Nat /\ ds.next \in Positions /\ ds.pos \in Positions
  <2>1. len > 0 /\ len \in Positions /\ (ds.fresh > 0 => len <= Frames - Age(ds.next, ds.pos))
    BY <1>1 DEF DsInv, DsOK, Room, CallerSet
  <2>2. len \in 1 .. Frames - 1 /\ ds.next \in Positions /\ ds.pos \in Positions /\ ds.got \in Nat /\ ds.fresh \in Nat
    BY <1>1, <2>1 DEF DsSet, Positions, DsAssumption
  <2> QED BY <2>1, <2>2, AgesMove
<1> DEFINE place == Past(ds.next, len)
           got == ds.got + len
           fresh == ds.fresh + len
           runs == ds.runs \/ ds.caller[c].restored
<1>a. d = [ds EXCEPT !.next = place, !.got = got, !.fresh = fresh, !.runs = runs]
  BY <1>1 DEF DsSet
<1>b. place \in Positions /\ got \in Nat /\ fresh \in Nat /\ runs \in BOOLEAN
  BY <1>1, <1>2 DEF DsSet, CallerSet
<1> HIDE DEF len, d, place, got, fresh, runs
<1>c. d \in DsSet
  BY <1>1, <1>a, <1>b, Zenon DEF DsSet
<1>3. /\ d \in DsSet /\ d.next = Past(ds.next, len) /\ d.pos = ds.pos /\ d.got = ds.got + len /\ d.fresh = ds.fresh + len
      /\ d.last = ds.last /\ d.caller = ds.caller /\ d.kind = ds.kind /\ d.ui = ds.ui /\ d.sending = ds.sending /\ ~d.lost
      /\ d.playing = ds.playing
  BY <1>1, <1>a, <1>c DEF DsSet, place, got, fresh
<1>4. ~(ds.ui = "off" \/ (ds.ui = "starting" /\ ds.kind = "timer"))
  BY <1>1 DEF DsInv, DsOK, Quiet
<1>5. Exclusive(d) /\ Quiet(d)
  BY <1>3, <1>4 DEF DsInv, DsOK, Exclusive, Inside, Quiet
<1>6. \A i \in Positions :
        IF Age(d.next, i) <= len THEN frames'[i] = ds.got + len - Age(d.next, i) + 1
        ELSE Age(d.next, i) = Age(ds.next, i) + len /\ frames'[i] = frames[i]
  <2> TAKE i \in Positions
  <2> DEFINE o == IF i >= ds.next THEN i - ds.next ELSE i + Frames - ds.next
  <2>1. frames'[i] = IF o < len THEN ds.got + o + 1 ELSE frames[i]
    BY <1>1 DEF Filling
  <2>2. o \in 0 .. Frames - 1 /\ Age(ds.next, i) = Frames - o /\ Age(d.next, i) = IF o < len THEN len - o ELSE Age(ds.next, i) + len
    BY <1>2, <1>3, AgesMove
  <2> HIDE DEF o
  <2> QED BY <1>2, <2>1, <2>2 DEF DsAssumption
<1>7. frames' \in [Positions -> Nat \union {Lost}]
  <2>1. ASSUME NEW i \in Positions, NEW o \in Int PROVE (IF o < len THEN ds.got + o + 1 ELSE frames[i]) \in Nat \union {Lost} \/ o < 0
    BY <1>2 DEF DsInv, DsOK
  <2>2. ASSUME NEW i \in Positions PROVE (IF i >= ds.next THEN i - ds.next ELSE i + Frames - ds.next) \in Nat
    BY <1>2 DEF Positions, DsAssumption
  <2>3. \A i \in Positions : frames'[i] \in Nat \union {Lost}
    BY <1>1, <2>1, <2>2 DEF Filling
  <2>4. frames' = [i \in Positions |-> frames'[i]]
    BY <1>1 DEF Filling
  <2> QED BY <2>3, <2>4
<1>8. InRing(d, frames')
  BY <1>2, <1>3, <1>6, AgeIs DEF DsInv, DsOK, InRing, DsAssumption
<1>9. Heard(d)
  <2>1. SUFFICES ASSUME ds.last >= 1 PROVE Age(d.next, d.pos) <= d.fresh /\ d.last = d.got - Age(d.next, d.pos)
    BY <1>3 DEF Heard
  <2>2. Age(ds.next, ds.pos) <= ds.fresh /\ ds.last = ds.got - Age(ds.next, ds.pos)
    BY <2>1 DEF DsInv, DsOK, Heard
  <2>3. Age(ds.next, ds.pos) \in 1 .. Frames /\ Age(d.next, ds.pos) \in 1 .. Frames
    BY <1>2, <1>3, AgeIs
  <2>4. len <= Frames - Age(ds.next, ds.pos)
    BY <1>2, <2>2, <2>3 DEF DsAssumption
  <2>5. Age(d.next, ds.pos) = Age(ds.next, ds.pos) + len
    <3> DEFINE o == IF ds.pos >= ds.next THEN ds.pos - ds.next ELSE ds.pos + Frames - ds.next
    <3>1. o \in 0 .. Frames - 1 /\ Age(ds.next, ds.pos) = Frames - o /\ Age(d.next, ds.pos) = IF o < len THEN len - o ELSE Age(ds.next, ds.pos) + len
      BY <1>2, <1>3, AgesMove
    <3> HIDE DEF o
    <3> QED BY <1>2, <2>4, <3>1 DEF DsAssumption
  <2> QED BY <1>2, <1>3, <2>2, <2>3, <2>5 DEF DsAssumption
<1>10. DsOK(Leave(d, c), frames')
  <2>1. Room(Leave(d, c))
    BY <1>1, <1>3 DEF Room, Leave, DsSet, CallerSet, Outside, DsInv, DsOK, Exclusive, Inside
  <2>a. Outside \in CallerSet
    BY DEF DsAssumption, CallerSet, Outside, Positions
  <2> DEFINE caller == [d.caller EXCEPT ![c] = Outside]
  <2>b. caller \in [1 .. Callbacks -> CallerSet] /\ Leave(d, c) = [d EXCEPT !.sending = FALSE, !.caller = caller]
    BY <1>3, <2>a DEF DsSet, Leave
  <2> HIDE DEF caller
  <2>c. Leave(d, c) \in DsSet
    BY <1>3, <2>b, Zenon DEF DsSet
  <2>2. Leave(d, c) \in DsSet /\ Still(d, Leave(d, c)) /\ ~Leave(d, c).lost
    BY <1>3, <2>b, <2>c DEF DsSet, Still
  <2>3. Exclusive(Leave(d, c)) /\ Quiet(Leave(d, c))
    BY <1>1, <1>3, <1>5 DEF DsSet, CallerSet, Leave, Outside, Exclusive, Inside, Quiet
  <2>4. InRing(Leave(d, c), frames') /\ Heard(Leave(d, c))
    BY <1>8, <1>9, <2>2, StillOK
  <2> QED BY <1>7, <2>1, <2>2, <2>3, <2>4 DEF DsOK
<1> QED BY <1>1, <1>10 DEF DsInv

LEMMA PlayOK ==
  ASSUME DsAssumption, DsInv, DevicePlays
  PROVE  DsInv'
<1> DEFINE pos == (ds.pos + 1) % Frames
<1>1. /\ ds \in DsSet /\ ds.pos \in Positions /\ ds.next \in Positions /\ ds.got \in Nat /\ ds.fresh \in Nat /\ frames' = frames
      /\ ds.runs /\ ~ds.lost /\ (ds.fresh = 0 \/ pos # ds.next) /\ frames[ds.pos] \in Nat \union {Lost}
  BY DEF DevicePlays, InTime, DsInv, DsOK, DsSet
<1>2. pos = (IF ds.pos + 1 = Frames THEN 0 ELSE ds.pos + 1)
  BY <1>1, DevicesNext
<1>3. PICK event \in BOOLEAN : ds' = [ds EXCEPT !.last = frames[ds.pos], !.pos = pos, !.event = event]
  BY <1>1 DEF DevicePlays, DsSet
<1> HIDE DEF pos
<1>4. pos \in Positions
  BY <1>1, <1>2 DEF Positions, DsAssumption
<1>5. /\ ds' \in DsSet /\ ds'.next = ds.next /\ ds'.pos = pos /\ ds'.got = ds.got /\ ds'.fresh = ds.fresh /\ ds'.last = frames[ds.pos]
      /\ ds'.caller = ds.caller /\ ds'.kind = ds.kind /\ ds'.ui = ds.ui /\ ds'.sending = ds.sending /\ ds'.lost = ds.lost
      /\ ds'.playing = ds.playing /\ ds'.runs = ds.runs
  BY <1>1, <1>3, <1>4 DEF DsSet
<1>6. Exclusive(ds') /\ Quiet(ds')
  BY <1>5 DEF DsInv, DsOK, Exclusive, Inside, Quiet
<1>7. InRing(ds', frames')
  BY <1>1, <1>5 DEF DsInv, DsOK, InRing
<1>8. pos # ds.next => Age(ds.next, pos) = Age(ds.next, ds.pos) - 1
  BY <1>1, <1>2, <1>4 DEF Age, Positions, DsAssumption
<1>9. Age(ds.next, ds.pos) \in 1 .. Frames /\ Age(ds.next, pos) \in 1 .. Frames
  BY <1>1, <1>4, AgeIs
<1>10. Heard(ds')
  <2> SUFFICES ASSUME frames[ds.pos] >= 1 PROVE Age(ds.next, pos) <= ds.fresh /\ frames[ds.pos] = ds.got - Age(ds.next, pos)
    BY <1>5 DEF Heard
  <2>1. Age(ds.next, ds.pos) <= ds.fresh /\ frames[ds.pos] = ds.got - Age(ds.next, ds.pos) + 1
    BY <1>1 DEF DsInv, DsOK, InRing, Lost
  <2>2. pos # ds.next
    BY <1>1, <1>9, <2>1 DEF DsAssumption
  <2> QED BY <1>1, <1>8, <1>9, <2>1, <2>2 DEF DsAssumption
<1>11. Room(ds')
  <2> SUFFICES ASSUME NEW c \in 1 .. Callbacks, ds.caller[c].at = "found"
               PROVE  ds.caller[c].len > 0 /\ (ds.fresh > 0 => ds.caller[c].len <= Frames - Age(ds.next, pos))
    BY <1>5 DEF Room
  <2>1. ds.caller[c].len > 0 /\ (ds.fresh > 0 => ds.caller[c].len <= Frames - Age(ds.next, ds.pos)) /\ ds.caller[c].len \in Positions
    BY <1>1 DEF DsInv, DsOK, Room, DsSet, CallerSet
  <2> QED BY <1>1, <1>8, <1>9, <2>1 DEF DsAssumption, Positions
<1> QED BY <1>1, <1>5, <1>6, <1>7, <1>10, <1>11 DEF DsInv, DsOK

LEMMA LoseOK ==
  ASSUME DsAssumption, DsInv, LoseRing
  PROVE  DsInv'
<1>1. /\ ds' \in DsSet /\ frames' = [i \in Positions |-> Lost] /\ ds'.next \in Positions /\ ds'.fresh = 0 /\ ds'.last = Lost
      /\ ds'.lost /\ ~ds'.runs /\ ds'.caller = ds.caller /\ ds'.kind = ds.kind /\ ds'.ui = ds.ui /\ ds'.playing = ds.playing
      /\ ds'.sending = ds.sending /\ ds.ui # "off"
  BY DEF LoseRing, DsInv, DsOK, DsSet
<1>2. \A i \in Positions : ~(Age(ds'.next, i) <= 0)
  BY <1>1, AgeIs DEF DsAssumption
<1>3. InRing(ds', frames') /\ Heard(ds') /\ Room(ds')
  BY <1>1, <1>2 DEF InRing, Heard, Room, Lost
<1>4. Exclusive(ds') /\ Quiet(ds')
  BY <1>1 DEF DsInv, DsOK, Exclusive, Inside, Quiet
<1> QED BY <1>1, <1>3, <1>4 DEF DsInv, DsOK

\* For every size of the ring and number of overlapping calls, as long as Send comes in
\* time, the device plays the frames one after the other as they were taken from the
\* source: whatever calls overlap, fail to lock the ring or find it lost, and whenever
\* the UI thread closes the driver (Send of soundds.cpp and soundds2.cpp).
THEOREM SoundIsHeardInOrder == DsSpec => []HeardInOrder
<1>1. DsInit => DsInv
  BY DsAssumption, DsInitOK
<1>2. DsInv /\ [DsNext]_dsvars => DsInv'
  <2>1. DsInv /\ DsNext => DsInv'
    BY DsAssumption, OpenOK, StartOK, CloseOK, CallOK, WakeOK, LocateOK, WriteOK, PlayOK, LoseOK DEF DsNext
  <2>2. DsInv /\ UNCHANGED dsvars => DsInv'
    BY DEF dsvars, DsInv
  <2> QED BY <2>1, <2>2
<1>3. DsInv => HeardInOrder
  <2> SUFFICES ASSUME DsInv, ds.last >= 1 PROVE frames[ds.pos] = ds.last + 1
    BY DEF HeardInOrder
  <2>1. ds.pos \in Positions /\ ds.next \in Positions /\ ds.got \in Nat /\ InRing(ds, frames) /\ Heard(ds)
    BY DEF DsInv, DsOK, DsSet
  <2>2. Age(ds.next, ds.pos) \in 1 .. Frames /\ Frames \in Nat
    BY <2>1, DsAssumption, AgeIs DEF DsAssumption
  <2> QED BY <2>1, <2>2 DEF InRing, Heard
<1> QED BY <1>1, <1>2, <1>3, PTL DEF DsSpec

-----------------------------------------------------------------------------
(* WinSound: the driver that is chosen, and the recording. *)

DriverSet == [kind : Kinds \union {"none"}, id : Nat]
WsSet ==
  [at : {"idle", "trying", "stopping", "crashed"}, rate : Nat, type : Kinds \union {"auto"}, next : Kinds \union {"auto"},
   ring : Nat, enabled : BOOLEAN, driver : DriverSet, made : Nat]
OutSet == [devices : SUBSET Nat, asio : [self : Nat, runs : BOOLEAN]]
RecSet == [state : {"IDLE", "STANDBY", "DUMPING"}, open : BOOLEAN, rate : Nat, started : Nat,
           at : {"out", "taken", "silent", "sound"}]
SdTypeOK == ws \in WsSet /\ out \in OutSet /\ rec \in RecSet

\* Who plays: at most the driver there is, which is made of one thing.
DriverKnown(w) == w.driver = NoDriver \/ (w.driver.kind \in Kinds /\ w.driver.id > 0)
PlaysOnly(o, d) ==
  /\ o.devices \subseteq {d.id} \ {0} /\ (d.kind = "asio" => o.devices = {})
  /\ o.asio.runs => d = [kind |-> "asio", id |-> o.asio.self]
Plays(o, d) == d # NoDriver /\ (d.id \in o.devices \/ o.asio.runs)

SdInv ==
  /\ SdTypeOK /\ DriverKnown(ws) /\ PlaysOnly(out, ws.driver)
  /\ ws.driver # NoDriver => ws.driver.kind = ws.type
  /\ (ws.at # "trying" /\ ws.enabled) => Plays(out, ws.driver)
  /\ rec.open => rec.rate = ws.ring /\ (Recording \/ ws.at = "stopping")

LEMMA KindsAre == "none" \notin Kinds /\ "auto" \notin Kinds /\ "asio" \in Kinds
BY DEF Kinds

\* Deleting the driver leaves nothing that plays.
LEMMA DeletedSilent ==
  ASSUME NEW o \in OutSet, NEW d \in DriverSet, PlaysOnly(o, d)
  PROVE  /\ DeleteDriver(o, d) \in OutSet /\ DeleteDriver(o, d).devices = {} /\ ~DeleteDriver(o, d).asio.runs
         /\ CleanUpDriver(o, d) \in OutSet /\ PlaysOnly(CleanUpDriver(o, d), d)
<1>1. CASE d.kind = "asio"
  <2>1. DeleteDriver(o, d) = [o EXCEPT !.asio.runs = FALSE] /\ CleanUpDriver(o, d) = o /\ o.devices = {}
    BY <1>1 DEF DeleteDriver, CleanUpDriver, PlaysOnly
  <2> QED BY <2>1 DEF OutSet
<1>2. CASE d.kind # "asio"
  <2>1. o.devices \ {d.id} = {} /\ ~o.asio.runs
    BY <1>2 DEF PlaysOnly
  <2>2. DeleteDriver(o, d) = [o EXCEPT !.devices = {}] /\ CleanUpDriver(o, d) = [o EXCEPT !.devices = {}]
    BY <1>2, <2>1 DEF DeleteDriver, CleanUpDriver
  <2>3. [o EXCEPT !.devices = {}] \in OutSet /\ [o EXCEPT !.devices = {}].devices = {} /\ [o EXCEPT !.devices = {}].asio = o.asio
    BY DEF OutSet
  <2> QED BY <2>1, <2>2, <2>3 DEF PlaysOnly
<1> QED BY <1>1, <1>2

LEMMA SdInitOK == SdAssumption /\ SdInit => SdInv
BY KindsAre DEF SdInit, SdInv, SdTypeOK, WsSet, OutSet, RecSet, DriverSet, NoDriver, DriverKnown, PlaysOnly, Plays, Recording, Kinds

LEMMA ChangeDriverOK ==
  ASSUME SdAssumption, SdInv, NEW rate \in SoundRates, NEW type \in Kinds \union {"auto"}, ChangeDriver(rate, type)
  PROVE  SdInv'
<1>1. rate \in Nat
  BY DEF SdAssumption
<1>2. out' \in OutSet /\ PlaysOnly(out', ws.driver)
  BY DeletedSilent DEF ChangeDriver, SdInv, SdTypeOK, WsSet
<1>3. /\ ws' \in WsSet /\ ws'.driver = ws.driver /\ ws'.type = ws.type /\ ws'.at \in {"idle", "trying"}
      /\ ws'.at # "trying" => ~ws'.enabled
  <2> DEFINE off == rate \in OffRates
             stays == off /\ ws.driver # NoDriver /\ ws.type = type
             cells == IF off THEN ws.ring ELSE rate
             kind == IF type = "auto" THEN Fallback["auto"] ELSE type
             at == IF stays THEN "idle" ELSE "trying"
  <2>1. ws \in WsSet /\ ws.ring \in Nat
    BY DEF SdInv, SdTypeOK, WsSet
  <2>2. ws' = [ws EXCEPT !.rate = rate, !.ring = cells, !.enabled = ~off, !.next = kind, !.at = at]
    BY <2>1 DEF ChangeDriver, WsSet
  <2>3. cells \in Nat /\ kind \in Kinds \union {"auto"} /\ at \in {"idle", "trying"} /\ (at # "trying" => off) /\ off \in BOOLEAN
    BY <1>1, <2>1 DEF Fallback, Kinds
  <2> HIDE DEF cells, kind, at, off
  <2>4. ws' \in WsSet
    BY <1>1, <2>1, <2>2, <2>3, Zenon DEF WsSet
  <2>5. ws'.driver = ws.driver /\ ws'.type = ws.type /\ ws'.at = at /\ ws'.enabled = ~off
    BY <2>1, <2>2 DEF WsSet
  <2> QED BY <2>3, <2>4, <2>5
<1>4. rec' = rec /\ ~rec.open /\ ~Recording
  BY DEF ChangeDriver, SdInv
<1> QED BY <1>2, <1>3, <1>4 DEF SdInv, SdTypeOK, DriverKnown

LEMMA TryDriverOK == SdInv /\ TryDriver => SdInv'
<1> SUFFICES ASSUME SdInv, TryDriver PROVE SdInv'
  OBVIOUS
<1> DEFINE d == [kind |-> ws.next, id |-> ws.made + 1]
           gone == DeleteDriver(out, ws.driver)
<1>0. ws \in WsSet
  BY DEF SdInv, SdTypeOK
<1>1. /\ gone \in OutSet /\ gone.devices = {} /\ ~gone.asio.runs
  BY DeletedSilent DEF SdInv, SdTypeOK, WsSet
<1>2. d \in DriverSet /\ d.kind = ws.next /\ d.id = ws.made + 1 /\ d.kind \in Kinds /\ d.id > 0 /\ d.id \in Nat /\ ws.at = "trying"
  BY DEF TryDriver, SdInv, SdTypeOK, WsSet, DriverSet, Kinds
<1>3. d # NoDriver
  BY <1>2 DEF NoDriver
<1>4. rec' = rec
  BY DEF TryDriver
<1> HIDE DEF gone, d
<1>5. CASE out' = Started(gone, d) /\ ws' = [ws EXCEPT !.made = @ + 1, !.driver = d, !.type = d.kind, !.at = "idle"]
  <2>1. /\ ws' \in WsSet /\ ws'.driver = d /\ ws'.type = d.kind /\ ws'.at = "idle" /\ ws'.ring = ws.ring
    BY <1>0, <1>2, <1>5 DEF WsSet
  <2>2. out' \in OutSet /\ PlaysOnly(out', d) /\ (d.id \in out'.devices \/ out'.asio.runs)
    <3>1. CASE d.kind = "asio"
      <4>1. out' = [gone EXCEPT !.asio = [self |-> d.id, runs |-> TRUE]]
        BY <1>5, <3>1 DEF Started
      <4>2. out' \in OutSet /\ out'.devices = {} /\ out'.asio.runs /\ out'.asio.self = d.id
        BY <1>1, <1>2, <4>1 DEF OutSet
      <4>3. d = [kind |-> "asio", id |-> d.id]
        BY <1>2, <3>1 DEF DriverSet
      <4> QED BY <4>2, <4>3 DEF PlaysOnly
    <3>2. CASE d.kind # "asio"
      <4>1. out' = [gone EXCEPT !.devices = {d.id}]
        BY <1>1, <1>5, <3>2 DEF Started
      <4>2. out' \in OutSet /\ out'.devices = {d.id} /\ ~out'.asio.runs
        BY <1>1, <1>2, <4>1 DEF OutSet
      <4> QED BY <1>2, <3>2, <4>2 DEF PlaysOnly
    <3> QED BY <3>1, <3>2
  <2> QED BY <1>2, <1>3, <1>4, <2>1, <2>2 DEF SdInv, SdTypeOK, DriverKnown, Plays, Recording
<1>6. CASE /\ \E o \in Refused(gone, d) : out' = DeleteDriver(o, d)
           /\ ws' = [ws EXCEPT !.made = @ + 1, !.driver = NoDriver, !.next = Fallback[d.kind]]
  <2>1. /\ ws' \in WsSet /\ ws'.driver = NoDriver /\ ws'.at = "trying" /\ ws'.ring = ws.ring
    <3>1. NoDriver \in DriverSet /\ Fallback[d.kind] \in Kinds \union {"auto"}
      BY <1>2 DEF DriverSet, NoDriver, Fallback, Kinds
    <3> QED BY <1>0, <1>2, <1>6, <3>1 DEF WsSet
  <2>2. out' \in OutSet /\ out'.devices = {} /\ ~out'.asio.runs
    <3>1. PICK o \in Refused(gone, d) : out' = DeleteDriver(o, d)
      BY <1>6
    <3>2. o \in OutSet /\ o.devices = {} /\ ~o.asio.runs
      BY <1>1, <1>2, <3>1 DEF Refused, OutSet
    <3>3. PlaysOnly(o, d) /\ d \in DriverSet
      BY <1>2, <3>2 DEF PlaysOnly
    <3> QED BY <3>1, <3>2, <3>3, DeletedSilent
  <2>3. PlaysOnly(out', NoDriver)
    BY <2>2 DEF PlaysOnly, NoDriver
  <2> QED BY <1>2, <1>4, <2>1, <2>2, <2>3 DEF SdInv, SdTypeOK, DriverKnown, Recording
<1>7. \/ /\ out' = Started(gone, d)
         /\ ws' = [[ws EXCEPT !.made = @ + 1] EXCEPT !.driver = d, !.type = d.kind, !.at = "idle"]
      \/ /\ \E o \in Refused(gone, d) : out' = DeleteDriver(o, d)
         /\ ws' = [[ws EXCEPT !.made = @ + 1] EXCEPT !.driver = NoDriver, !.next = Fallback[d.kind]]
  BY DEF TryDriver, Replaced, gone, d
<1> QED BY <1>5, <1>6, <1>7 DEF SdInv, SdTypeOK, WsSet

LEMMA RestOK == SdInv /\ (GiveUp \/ DumpStart \/ DumpStop \/ CloseFile \/ TakeSamples \/ EnterDump \/ LeaveDump) => SdInv'
<1> SUFFICES ASSUME SdInv PROVE (GiveUp \/ DumpStart \/ DumpStop \/ CloseFile \/ TakeSamples \/ EnterDump \/ LeaveDump) => SdInv'
  OBVIOUS
<1> USE DEF SdInv, SdTypeOK
<1>1. ASSUME GiveUp PROVE SdInv'
  BY <1>1 DEF GiveUp, WsSet, DriverKnown, Recording
<1>2. ASSUME DumpStart PROVE SdInv'
  <2>1. rec' = [rec EXCEPT !.state = "STANDBY", !.open = TRUE, !.rate = ws.ring, !.started = @ + 1] /\ ws' = ws /\ out' = out
    BY <1>2 DEF DumpStart
  <2>2. rec \in RecSet /\ ws.ring \in Nat
    BY DEF WsSet
  <2> HIDE DEF SdInv, SdTypeOK
  <2>4. rec.started + 1 \in Nat
    BY <2>2 DEF RecSet
  <2>3. rec' \in RecSet /\ rec'.rate = ws.ring /\ rec'.state = "STANDBY"
    BY <2>1, <2>2, <2>4, Zenon DEF RecSet
  <2> QED BY <2>1, <2>3 DEF SdInv, SdTypeOK, Recording, DriverKnown
<1>3. ASSUME DumpStop PROVE SdInv'
  BY <1>3 DEF DumpStop, WsSet, RecSet, Recording, DriverKnown
<1>4. ASSUME CloseFile PROVE SdInv'
  BY <1>4 DEF CloseFile, WsSet, RecSet, Recording, DriverKnown
<1>5. ASSUME TakeSamples PROVE SdInv'
  BY <1>5 DEF TakeSamples, RecSet, Recording, DriverKnown
<1>6. ASSUME EnterDump PROVE SdInv'
  BY <1>6 DEF EnterDump, RecSet, Recording, DriverKnown
<1>7. ASSUME LeaveDump PROVE SdInv'
  BY <1>7 DEF LeaveDump, RecSet, Recording, DriverKnown
<1> QED BY <1>1, <1>2, <1>3, <1>4, <1>5, <1>6, <1>7

\* For every rate and every order in which drivers are refused: while sound is on just
\* the driver that is chosen plays, after a change that fails none does, and a recording
\* has the rate of the ring it is made of (WinSound::ChangeRate, SoundDumpPipe).
THEOREM DriverIsAsTold == SdSpec => []DriverAsTold
<1>1. SdInit => SdInv
  BY SdAssumption, SdInitOK
<1>2. SdInv /\ [SdNext]_sdvars => SdInv'
  <2>1. SdInv /\ SdNext => SdInv'
    BY SdAssumption, ChangeDriverOK, TryDriverOK, RestOK DEF SdNext
  <2>2. SdInv /\ UNCHANGED sdvars => SdInv'
    BY DEF sdvars, SdInv, SdTypeOK, Recording, DriverKnown
  <2> QED BY <2>1, <2>2
<1>3. SdInv => DriverAsTold
  BY DEF SdInv, DriverAsTold, Plays, PlaysOnly
<1> QED BY <1>1, <1>2, <1>3, PTL DEF SdSpec

-----------------------------------------------------------------------------
(* waveOut: the blocks that go round. *)

HandSet == [at : {"none", "starting", "waiting", "filling", "ended"}, block : Nat, tries : 0 .. 2]
WoSet ==
  [ui : {"off", "opening", "sending", "on", "failed", "closing", "resetting", "freeing", "closed"}, sent : 0 .. Blocks,
   buffers : BOOLEAN, open : BOOLEAN, silent : BOOLEAN, hand : HandSet, taken : Nat]
WrittenSet == [block : Nat \ {Quit}, holds : Nat]

Works(hand) == hand.at \notin {"none", "ended"}
Fills(hand) == hand.at = "filling"

\* The blocks that are not with the UI thread are in one place each.
Apart(d, m) ==
  /\ \A i, j \in 1 .. Len(d) : i # j => d[i].block # d[j].block
  /\ \A i, j \in 1 .. Len(m) : i # j /\ m[i] # Quit => m[i] # m[j]
  /\ \A i \in 1 .. Len(d), j \in 1 .. Len(m) : d[i].block # m[j]
Free(b, d, m) == b # Quit /\ (\A i \in 1 .. Len(d) : d[i].block # b) /\ (\A i \in 1 .. Len(m) : m[i] # b)
Once(hand, d, m) == Works(hand) => Apart(d, m) /\ (Fills(hand) => Free(hand.block, d, m))
Sent(hand, sent, d, m) ==
  /\ (\A i \in 1 .. Len(d) : d[i].block <= sent) /\ (\A i \in 1 .. Len(m) : m[i] <= sent)
  /\ Fills(hand) => hand.block <= sent

\* What the device is to play was taken from the source in this order.
Ordered(taken, silent, d) ==
  /\ \A i, j \in 1 .. Len(d) : i < j => d[i].holds = 0 \/ d[i].holds < d[j].holds
  /\ \A i \in 1 .. Len(d) : d[i].holds <= taken /\ (silent => d[i].holds = 0)

\* The states of the driver, the device and the thread go together.
Together(w, d, m) ==
  /\ w.ui = "sending" => w.silent
  /\ w.open => w.buffers /\ w.ui \in {"sending", "on", "closing", "resetting"}
  /\ d # <<>> \/ Fills(w.hand) => w.open
  /\ w.ui \in {"opening", "sending"} => w.buffers
  /\ w.ui \in {"sending", "on"} => w.open
  /\ w.ui \in {"resetting", "freeing", "closed"} => w.hand.at = "ended"
  /\ Works(w.hand) /\ ~w.open => \A i \in 1 .. Len(m) : m[i] = Quit
  /\ w.hand.at \in {"none", "starting"} => m = <<>>
  /\ w.ui = "off" => w.hand.at = "none" /\ d = <<>>

WoOK(w, d, m) ==
  /\ w \in WoSet /\ d \in Seq(WrittenSet) /\ m \in Seq(Nat)
  /\ Once(w.hand, d, m) /\ Sent(w.hand, w.sent, d, m) /\ Ordered(w.taken, w.silent, d) /\ Together(w, d, m)
WoInv == WoOK(wo, device, inbox)

LEMMA WoInitOK == WoAssumption /\ WoInit => WoInv
<1> SUFFICES ASSUME WoAssumption, WoInit PROVE WoInv
  OBVIOUS
<1> DEFINE hand == [Idle EXCEPT !.at = "none"]
<1>1. hand \in HandSet /\ hand.at = "none"
  BY DEF HandSet, Idle, Quit
<1> HIDE DEF hand
<1>2. /\ wo = [ui |-> "off", sent |-> 0, buffers |-> FALSE, open |-> FALSE, silent |-> FALSE, hand |-> hand, taken |-> 0]
      /\ device = <<>> /\ inbox = <<>>
  BY DEF WoInit, hand
<1>3. 0 \in 0 .. Blocks /\ device \in Seq(WrittenSet) /\ inbox \in Seq(Nat) /\ Len(device) = 0 /\ Len(inbox) = 0
  BY <1>2 DEF WoAssumption
<1>4. wo \in WoSet
  BY <1>1, <1>2, <1>3, Zenon DEF WoSet
<1> QED BY <1>1, <1>2, <1>3, <1>4 DEF WoInv, WoOK, Works, Once, Sent, Ordered, Together, Fills

LEMMA Entries ==
  ASSUME WoInv
  PROVE  /\ wo \in WoSet /\ wo.hand \in HandSet /\ wo.sent \in 0 .. Blocks /\ wo.taken \in Nat
         /\ device \in Seq(WrittenSet) /\ inbox \in Seq(Nat) /\ Len(device) \in Nat /\ Len(inbox) \in Nat
         /\ \A i \in 1 .. Len(device) : device[i] \in WrittenSet /\ device[i].block \in Nat /\ device[i].block # Quit /\ device[i].holds \in Nat
         /\ \A i \in 1 .. Len(inbox) : inbox[i] \in Nat
<1>1. wo \in WoSet /\ device \in Seq(WrittenSet) /\ inbox \in Seq(Nat)
  BY DEF WoInv, WoOK
<1>2. \A e \in WrittenSet : e.block \in Nat /\ e.block # Quit /\ e.holds \in Nat
  BY DEF WrittenSet
<1>3. wo.hand \in HandSet /\ wo.sent \in 0 .. Blocks /\ wo.taken \in Nat
  BY <1>1 DEF WoSet
<1> QED BY <1>1, <1>2, <1>3

\* Steps of the UI thread that leave the queues alone.
LEMMA MakeOK ==
  ASSUME WoAssumption, WoInv, MakeBuffers
  PROVE  WoInv'
<1>0. device' = device /\ inbox' = inbox /\ wo \in WoSet /\ wo.hand \in HandSet /\ wo.ui = "off" /\ wo.hand.at = "none" /\ device = <<>> /\ inbox = <<>>
  BY Entries DEF MakeBuffers, WoInv, WoOK, Together
<1>1. CASE wo' = [wo EXCEPT !.ui = "opening", !.buffers = TRUE, !.hand.at = "starting"]
  <2> DEFINE hand == [wo.hand EXCEPT !.at = "starting"]
  <2>1. hand \in HandSet /\ hand.at = "starting"
    BY <1>0 DEF HandSet
  <2>2. wo' = [wo EXCEPT !.ui = "opening", !.buffers = TRUE, !.hand = hand]
    BY <1>0, <1>1 DEF WoSet
  <2> HIDE DEF hand
  <2>3. wo' \in WoSet
    BY <1>0, <2>1, <2>2, Zenon DEF WoSet
  <2>4. wo'.ui = "opening" /\ wo'.buffers /\ wo'.hand = hand /\ wo'.open = wo.open /\ wo'.sent = wo.sent /\ wo'.taken = wo.taken /\ wo'.silent = wo.silent
    BY <1>0, <2>2 DEF WoSet
  <2>5. Together(wo', device, inbox)
    BY <1>0, <2>1, <2>4 DEF WoInv, WoOK, Together, Fills
  <2>6. Once(wo'.hand, device, inbox) /\ Sent(wo'.hand, wo'.sent, device, inbox)
    BY <1>0, <2>1, <2>4 DEF Once, Sent, Fills, Apart
  <2> QED BY <1>0, <2>3, <2>4, <2>5, <2>6 DEF WoInv, WoOK
<1>2. CASE wo' = [wo EXCEPT !.ui = "failed"]
  <2>3. wo' \in WoSet
    BY <1>0, <1>2, Zenon DEF WoSet
  <2>4. /\ wo'.ui = "failed" /\ wo'.buffers = wo.buffers /\ wo'.hand = wo.hand /\ wo'.open = wo.open /\ wo'.sent = wo.sent
        /\ wo'.taken = wo.taken /\ wo'.silent = wo.silent
    BY <1>0, <1>2 DEF WoSet
  <2>5. Together(wo', device, inbox)
    BY <1>0, <2>4 DEF WoInv, WoOK, Together, Works
  <2> QED BY <1>0, <2>3, <2>4, <2>5 DEF WoInv, WoOK
<1> QED BY <1>1, <1>2 DEF MakeBuffers

LEMMA OpenDeviceOK ==
  ASSUME WoAssumption, WoInv, OpenDevice
  PROVE  WoInv'
<1>0. /\ device' = device /\ inbox' = inbox /\ wo \in WoSet /\ wo.ui = "opening" /\ ~wo.open /\ wo.buffers /\ device = <<>>
      /\ ~Fills(wo.hand)
  BY Entries DEF OpenDevice, WoInv, WoOK, Together
<1>1. CASE wo' = [wo EXCEPT !.ui = "sending", !.open = TRUE, !.silent = TRUE]
  <2>3. wo' \in WoSet
    BY <1>0, <1>1, Zenon DEF WoSet
  <2>4. wo'.ui = "sending" /\ wo'.buffers /\ wo'.hand = wo.hand /\ wo'.open /\ wo'.sent = wo.sent /\ wo'.taken = wo.taken /\ wo'.silent
    BY <1>0, <1>1 DEF WoSet
  <2>5. Together(wo', device, inbox) /\ Ordered(wo'.taken, wo'.silent, device)
    BY <1>0, <2>4 DEF WoInv, WoOK, Together, Ordered
  <2> QED BY <1>0, <2>3, <2>4, <2>5 DEF WoInv, WoOK
<1>2. CASE wo' = [wo EXCEPT !.ui = "failed", !.buffers = FALSE]
  <2>3. wo' \in WoSet
    BY <1>0, <1>2, Zenon DEF WoSet
  <2>4. wo'.ui = "failed" /\ wo'.hand = wo.hand /\ wo'.open = wo.open /\ wo'.sent = wo.sent /\ wo'.taken = wo.taken /\ wo'.silent = wo.silent
    BY <1>0, <1>2 DEF WoSet
  <2>5. Together(wo', device, inbox)
    BY <1>0, <2>4 DEF WoInv, WoOK, Together
  <2> QED BY <1>0, <2>3, <2>4, <2>5 DEF WoInv, WoOK
<1> QED BY <1>1, <1>2 DEF OpenDevice

LEMMA FreeOK ==
  ASSUME WoAssumption, WoInv, FreeBuffers
  PROVE  WoInv'
<1>1. /\ device' = device /\ inbox' = inbox /\ wo \in WoSet /\ wo.ui = "freeing" /\ ~wo.open
      /\ wo' = [wo EXCEPT !.ui = "closed", !.buffers = FALSE]
  BY Entries DEF FreeBuffers, WoInv, WoOK, Together
<1>3. wo' \in WoSet
  BY <1>1, Zenon DEF WoSet
<1>4. wo'.ui = "closed" /\ wo'.hand = wo.hand /\ ~wo'.open /\ wo'.sent = wo.sent /\ wo'.taken = wo.taken /\ wo'.silent = wo.silent
  BY <1>1 DEF WoSet
<1>5. Together(wo', device, inbox)
  BY <1>1, <1>4 DEF WoInv, WoOK, Together
<1> QED BY <1>1, <1>3, <1>4, <1>5 DEF WoInv, WoOK

\* What is written last comes behind what is there.
LEMMA Append1 ==
  ASSUME NEW S, NEW s \in Seq(S), NEW e \in S, NEW t, t = Append(s, e)
  PROVE  /\ t \in Seq(S) /\ t # <<>> /\ Len(t) = Len(s) + 1
         /\ \A i \in 1 .. Len(t) : IF i = Len(s) + 1 THEN t[i] = e ELSE i \in 1 .. Len(s) /\ t[i] = s[i]
OBVIOUS
LEMMA Tail1 ==
  ASSUME NEW S, NEW s \in Seq(S), s # <<>>, NEW t, t = Tail(s)
  PROVE  /\ t \in Seq(S) /\ Len(s) > 0 /\ Len(t) = Len(s) - 1 /\ Head(s) = s[1] /\ 1 \in 1 .. Len(s)
         /\ \A i \in 1 .. Len(t) : i + 1 \in 1 .. Len(s) /\ t[i] = s[i + 1]
OBVIOUS

\* A block that is free is written: to the device.
LEMMA WrittenApart ==
  ASSUME NEW d \in Seq(WrittenSet), NEW m \in Seq(Nat), Apart(d, m), NEW e \in WrittenSet, Free(e.block, d, m)
  PROVE  Apart(Append(d, e), m)
<1> DEFINE t == Append(d, e)
<1>1. /\ Len(d) \in Nat /\ Len(t) = Len(d) + 1
      /\ \A i \in 1 .. Len(t) : IF i = Len(d) + 1 THEN t[i] = e ELSE i \in 1 .. Len(d) /\ t[i] = d[i]
  BY Append1
<1> HIDE DEF t
<1>2. \A i, j \in 1 .. Len(t) : i # j => t[i].block # t[j].block
  <2> TAKE i, j \in 1 .. Len(t)
  <2>1. i # j => ~(i = Len(d) + 1 /\ j = Len(d) + 1)
    OBVIOUS
  <2>2. CASE i = Len(d) + 1 /\ j # i
    BY <1>1, <2>2 DEF Free
  <2>3. CASE j = Len(d) + 1 /\ j # i
    BY <1>1, <2>3 DEF Free
  <2>4. CASE i # Len(d) + 1 /\ j # Len(d) + 1
    BY <1>1, <2>4 DEF Apart
  <2> QED BY <2>1, <2>2, <2>3, <2>4
<1>3. \A i \in 1 .. Len(t), j \in 1 .. Len(m) : t[i].block # m[j]
  BY <1>1 DEF Apart, Free
<1> QED BY <1>2, <1>3 DEF Apart, t

LEMMA WrittenInOrder ==
  ASSUME NEW d \in Seq(WrittenSet), NEW taken \in Nat, NEW silent, NEW e \in WrittenSet, Ordered(taken, silent, d),
         NEW new \in Nat, new >= taken, silent => e.holds = 0, ~silent => e.holds = taken + 1 /\ new = taken + 1
  PROVE  Ordered(new, silent, Append(d, e))
<1> DEFINE t == Append(d, e)
<1>1. /\ Len(d) \in Nat /\ Len(t) = Len(d) + 1
      /\ \A i \in 1 .. Len(t) : IF i = Len(d) + 1 THEN t[i] = e ELSE i \in 1 .. Len(d) /\ t[i] = d[i]
  BY Append1
<1>a. \A w \in WrittenSet : w.holds \in Nat
  BY DEF WrittenSet
<1>2. \A i \in 1 .. Len(d) : d[i].holds \in Nat
  BY <1>a
<1> HIDE DEF t
<1>3. \A i \in 1 .. Len(t) : t[i].holds <= new /\ (silent => t[i].holds = 0)
  BY <1>1, <1>2 DEF Ordered
<1>4. \A i, j \in 1 .. Len(t) : i < j => t[i].holds = 0 \/ t[i].holds < t[j].holds
  <2> TAKE i, j \in 1 .. Len(t)
  <2>1. CASE i < j /\ j = Len(d) + 1
    <3>1. t[j] = e /\ i \in 1 .. Len(d) /\ t[i] = d[i]
      BY <1>1, <2>1
    <3>2. d[i].holds \in Nat /\ d[i].holds <= taken /\ (silent => d[i].holds = 0)
      BY <1>2, <3>1 DEF Ordered
    <3> QED BY <3>1, <3>2
  <2>2. CASE i < j /\ j # Len(d) + 1
    BY <1>1, <2>2 DEF Ordered
  <2> QED BY <2>1, <2>2
<1> QED BY <1>3, <1>4 DEF Ordered, t

\* A message is posted to a thread that takes messages, and lost otherwise.
LEMMA PostedOne ==
  ASSUME WoInv, NEW b \in Nat
  PROVE  Posted(<<b>>) = IF Works(wo.hand) /\ wo.hand.at # "starting" THEN Append(inbox, b) ELSE inbox
<1>1. inbox \o <<b>> = Append(inbox, b)
  BY Entries
<1> QED BY <1>1 DEF Posted, Works

LEMMA FirstOK ==
  ASSUME WoAssumption, WoInv, SendFirst
  PROVE  WoInv'
<1>1. /\ inbox' = inbox /\ wo \in WoSet /\ wo.ui = "sending" /\ wo.silent /\ wo.open /\ wo.sent \in 0 .. Blocks /\ Blocks \in Nat
      /\ device \in Seq(WrittenSet) /\ inbox \in Seq(Nat) /\ wo.taken \in Nat
  BY Entries DEF SendFirst, WoInv, WoOK, Together, WoAssumption
<1>2. CASE wo.sent = Blocks
  <2>1. wo' = [wo EXCEPT !.ui = "on", !.silent = FALSE] /\ device' = device
    BY <1>2 DEF SendFirst
  <2>2. wo' \in WoSet
    BY <1>1, <2>1, Zenon DEF WoSet
  <2>3. /\ wo'.ui = "on" /\ ~wo'.silent /\ wo'.hand = wo.hand /\ wo'.open = wo.open /\ wo'.buffers = wo.buffers
        /\ wo'.sent = wo.sent /\ wo'.taken = wo.taken
    BY <1>1, <2>1 DEF WoSet
  <2>4. Together(wo', device, inbox) /\ Ordered(wo'.taken, wo'.silent, device)
    BY <1>1, <2>3 DEF WoInv, WoOK, Together, Ordered
  <2> QED BY <1>1, <2>1, <2>2, <2>3, <2>4 DEF WoInv, WoOK
<1>3. CASE wo.sent # Blocks
  <2> DEFINE b == wo.sent + 1
             e == [block |-> b, holds |-> 0]
  <2>1. wo' = [wo EXCEPT !.sent = b] /\ (device' = Append(device, e) \/ device' = device)
    BY <1>1, <1>3 DEF SendFirst, WoSet
  <2>2. b \in 0 .. Blocks /\ b > wo.sent /\ b > 0 /\ b \in Nat /\ e \in WrittenSet /\ e.block = b /\ e.holds = 0
    BY <1>1, <1>3 DEF WrittenSet, Quit
  <2> HIDE DEF b, e
  <2>3. wo' \in WoSet
    BY <1>1, <2>1, <2>2, Zenon DEF WoSet
  <2>4. /\ wo'.ui = "sending" /\ wo'.silent = wo.silent /\ wo'.hand = wo.hand /\ wo'.open = wo.open /\ wo'.buffers = wo.buffers
        /\ wo'.sent = b /\ wo'.taken = wo.taken
    BY <1>1, <2>1 DEF WoSet
  <2>5. Free(b, device, inbox) /\ (Fills(wo.hand) => wo.hand.block # b)
    BY <1>1, <2>2, Entries DEF WoInv, WoOK, Sent, Free, Quit
  <2>6. Sent(wo'.hand, b, device, inbox)
    <3>1. Sent(wo.hand, wo.sent, device, inbox)
      BY DEF WoInv, WoOK
    <3>2. /\ \A i \in 1 .. Len(device) : device[i].block \in Nat
          /\ \A i \in 1 .. Len(inbox) : inbox[i] \in Nat
      BY Entries
    <3>3. wo.hand.block \in Nat
      BY Entries DEF HandSet
    <3>4. \A n \in Nat : n <= wo.sent => n <= b
      BY <1>1, <2>2
    <3> QED BY <2>4, <3>1, <3>2, <3>3, <3>4 DEF Sent, Fills
  <2>7. CASE device' = device
    <3>1. Together(wo', device, inbox)
      BY <1>1, <2>4 DEF WoInv, WoOK, Together
    <3> QED BY <1>1, <2>3, <2>4, <2>6, <2>7, <3>1 DEF WoInv, WoOK
  <2>8. CASE device' = Append(device, e)
    <3> DEFINE d == Append(device, e)
    <3>1. /\ d \in Seq(WrittenSet) /\ d # <<>> /\ Len(device) \in Nat /\ Len(d) = Len(device) + 1
          /\ \A i \in 1 .. Len(d) : IF i = Len(device) + 1 THEN d[i] = e ELSE i \in 1 .. Len(device) /\ d[i] = device[i]
      <4>1. device \in Seq(WrittenSet) /\ e \in WrittenSet /\ Len(device) \in Nat
        BY <1>1, <2>2
      <4> QED BY <4>1, Append1
    <3>2. Works(wo.hand) => Apart(d, inbox)
      <4>1. Works(wo.hand) => Apart(device, inbox)
        BY DEF WoInv, WoOK, Once
      <4>2. e.block = b /\ e.block # Quit
        BY <2>2 DEF WrittenSet
      <4>3. device \in Seq(WrittenSet) /\ inbox \in Seq(Nat) /\ e \in WrittenSet /\ Free(e.block, device, inbox)
        BY <1>1, <2>2, <2>5, <4>2
      <4> QED BY <4>1, <4>3, WrittenApart
    <3>3. Ordered(wo'.taken, wo'.silent, d)
      <4>1. Ordered(wo.taken, wo.silent, device) /\ wo.taken >= wo.taken
        BY <1>1 DEF WoInv, WoOK
      <4>2. Ordered(wo.taken, wo.silent, d)
        BY <1>1, <2>2, <4>1, WrittenInOrder
      <4> QED BY <2>4, <4>2
    <3> HIDE DEF d
    <3>4. Works(wo.hand) /\ Fills(wo.hand) => Free(wo.hand.block, d, inbox)
      BY <2>2, <2>5, <3>1 DEF WoInv, WoOK, Once, Free
    <3>5. Sent(wo'.hand, b, d, inbox)
      BY <2>2, <2>6, <3>1 DEF Sent
    <3>6. Together(wo', d, inbox)
      BY <1>1, <2>4 DEF WoInv, WoOK, Together
    <3> QED BY <1>1, <2>3, <2>4, <2>8, <3>1, <3>2, <3>3, <3>4, <3>5, <3>6 DEF WoInv, WoOK, Once, d
  <2> QED BY <2>1, <2>7, <2>8
<1> QED BY <1>2, <1>3

LEMMA PlayedOK ==
  ASSUME WoAssumption, WoInv, BlockPlayed
  PROVE  WoInv'
<1> DEFINE d == Tail(device)
           b == Head(device).block
<1>1. device # <<>> /\ device' = d /\ inbox' = Posted(<<b>>) /\ wo' = wo /\ device \in Seq(WrittenSet) /\ inbox \in Seq(Nat)
  BY Entries DEF BlockPlayed
<1>3. /\ d \in Seq(WrittenSet) /\ Len(device) \in Nat /\ Len(device) > 0 /\ Len(d) = Len(device) - 1 /\ b = device[1].block
      /\ 1 \in 1 .. Len(device) /\ \A i \in 1 .. Len(d) : d[i] = device[i + 1] /\ i + 1 \in 1 .. Len(device)
  BY <1>1, Tail1
<1> HIDE DEF d, b
<1>4. b \in Nat /\ b # Quit /\ b <= wo.sent
  BY <1>3, Entries DEF WoInv, WoOK, Sent
<1>5. wo.open /\ wo.buffers
  BY <1>1 DEF WoInv, WoOK, Together
<1>6. Ordered(wo.taken, wo.silent, d)
  <2>1. Ordered(wo.taken, wo.silent, device)
    BY DEF WoInv, WoOK
  <2>2. \A i \in 1 .. Len(d) : d[i].holds <= wo.taken /\ (wo.silent => d[i].holds = 0)
    BY <1>3, <2>1 DEF Ordered
  <2>3. \A i, j \in 1 .. Len(d) : i < j => d[i].holds = 0 \/ d[i].holds < d[j].holds
    <3> TAKE i, j \in 1 .. Len(d)
    <3>1. i + 1 \in 1 .. Len(device) /\ j + 1 \in 1 .. Len(device) /\ d[i] = device[i + 1] /\ d[j] = device[j + 1] /\ (i < j => i + 1 < j + 1)
      BY <1>3
    <3> QED BY <2>1, <3>1 DEF Ordered
  <2> QED BY <2>2, <2>3 DEF Ordered
<1>a. Apart(device, inbox) => Apart(d, inbox)
  <2> HAVE Apart(device, inbox)
  <2>1. \A i, j \in 1 .. Len(d) : i # j => d[i].block # d[j].block
    <3> TAKE i, j \in 1 .. Len(d)
    <3>1. i + 1 \in 1 .. Len(device) /\ j + 1 \in 1 .. Len(device) /\ d[i] = device[i + 1] /\ d[j] = device[j + 1] /\ (i # j => i + 1 # j + 1)
      BY <1>3
    <3> QED BY <3>1 DEF Apart
  <2>2. \A i \in 1 .. Len(d), j \in 1 .. Len(inbox) : d[i].block # inbox[j]
    BY <1>3 DEF Apart
  <2> QED BY <2>1, <2>2 DEF Apart
<1>b. Fills(wo.hand) => Free(wo.hand.block, d, inbox)
  BY <1>3 DEF WoInv, WoOK, Once, Free, Works, Fills
<1>7. CASE inbox' = inbox
  <2>1. Once(wo.hand, d, inbox) /\ Sent(wo.hand, wo.sent, d, inbox)
    BY <1>3, <1>a, <1>b DEF WoInv, WoOK, Once, Sent
  <2>2. Together(wo, d, inbox)
    BY <1>1, <1>5 DEF WoInv, WoOK, Together
  <2> QED BY <1>1, <1>3, <1>6, <1>7, <2>1, <2>2 DEF WoInv, WoOK
<1>8. CASE inbox' = Append(inbox, b) /\ Works(wo.hand) /\ wo.hand.at # "starting"
  <2> DEFINE m == Append(inbox, b)
  <2>1. /\ m \in Seq(Nat) /\ Len(inbox) \in Nat /\ Len(m) = Len(inbox) + 1
        /\ \A i \in 1 .. Len(m) : IF i = Len(inbox) + 1 THEN m[i] = b ELSE i \in 1 .. Len(inbox) /\ m[i] = inbox[i]
    BY <1>1, <1>4, Append1
  <2> HIDE DEF m
  <2>2. Apart(device, inbox) /\ Apart(d, inbox)
    BY <1>8, <1>a DEF WoInv, WoOK, Once
  <2>3. (\A i \in 1 .. Len(d) : d[i].block # b) /\ (\A i \in 1 .. Len(inbox) : inbox[i] # b)
    <3>1. ASSUME NEW i \in 1 .. Len(d) PROVE d[i].block # b
      <4>1. i + 1 \in 1 .. Len(device) /\ i + 1 # 1 /\ d[i] = device[i + 1]
        BY <1>3
      <4> QED BY <1>3, <2>2, <4>1 DEF Apart
    <3>2. \A i \in 1 .. Len(inbox) : inbox[i] # b
      BY <1>3, <2>2 DEF Apart
    <3> QED BY <3>1, <3>2
  <2>4. Apart(d, m)
    <3>1. \A i, j \in 1 .. Len(m) : i # j /\ m[i] # Quit => m[i] # m[j]
      BY <2>1, <2>2, <2>3 DEF Apart
    <3>2. \A i \in 1 .. Len(d), j \in 1 .. Len(m) : d[i].block # m[j]
      BY <2>1, <2>2, <2>3 DEF Apart
    <3> QED BY <2>2, <3>1, <3>2 DEF Apart
  <2>5. Fills(wo.hand) => Free(wo.hand.block, d, m)
    <3>1. Fills(wo.hand) => wo.hand.block # b
      BY <1>3, <1>8 DEF WoInv, WoOK, Once, Free
    <3> QED BY <1>b, <2>1, <3>1 DEF Free
  <2>6. Sent(wo.hand, wo.sent, d, m)
    BY <1>3, <1>4, <2>1 DEF WoInv, WoOK, Sent
  <2>7. Together(wo, d, m)
    BY <1>1, <1>5, <1>8 DEF WoInv, WoOK, Together, Works
  <2> QED BY <1>1, <1>3, <1>6, <1>8, <2>1, <2>4, <2>5, <2>6, <2>7 DEF WoInv, WoOK, Once, m
<1>9. inbox' = inbox \/ (inbox' = Append(inbox, b) /\ Works(wo.hand) /\ wo.hand.at # "starting")
  BY <1>1, <1>4, PostedOne
<1> QED BY <1>7, <1>8, <1>9

LEMMA StartsOK ==
  ASSUME WoAssumption, WoInv, ThreadStarts
  PROVE  WoInv'
<1>1. /\ device' = device /\ inbox' = inbox /\ wo \in WoSet /\ wo.hand.at = "starting" /\ wo' = [wo EXCEPT !.hand = Idle] /\ inbox = <<>>
  BY Entries DEF ThreadStarts, WoInv, WoOK, Together
<1>2. Idle \in HandSet /\ Idle.at = "waiting"
  BY DEF HandSet, Idle, Quit
<1>3. wo' \in WoSet
  BY <1>1, <1>2, Zenon DEF WoSet
<1>4. /\ wo'.ui = wo.ui /\ wo'.hand = Idle /\ wo'.open = wo.open /\ wo'.buffers = wo.buffers /\ wo'.sent = wo.sent
      /\ wo'.taken = wo.taken /\ wo'.silent = wo.silent
  BY <1>1 DEF WoSet
<1>5. Together(wo', device, inbox)
  BY <1>1, <1>2, <1>4 DEF WoInv, WoOK, Together, Fills
<1>6. Once(wo'.hand, device, inbox) /\ Sent(wo'.hand, wo'.sent, device, inbox)
  BY <1>1, <1>2, <1>4 DEF WoInv, WoOK, Once, Sent, Works, Fills
<1> QED BY <1>1, <1>3, <1>4, <1>5, <1>6 DEF WoInv, WoOK

LEMMA TakesOK ==
  ASSUME WoAssumption, WoInv, ThreadTakes
  PROVE  WoInv'
<1> DEFINE m == Tail(inbox)
           b == Head(inbox)
           hand == IF b = Quit THEN [Idle EXCEPT !.at = "ended"] ELSE [at |-> "filling", block |-> b, tries |-> 2]
<1>1. /\ device' = device /\ inbox' = m /\ wo \in WoSet /\ wo.hand.at = "waiting" /\ inbox # <<>> /\ inbox \in Seq(Nat)
      /\ wo' = [wo EXCEPT !.hand = hand] /\ device \in Seq(WrittenSet)
  BY Entries DEF ThreadTakes
<1>2. /\ m \in Seq(Nat) /\ Len(inbox) \in Nat /\ Len(inbox) > 0 /\ Len(m) = Len(inbox) - 1 /\ b = inbox[1] /\ b \in Nat
      /\ 1 \in 1 .. Len(inbox) /\ \A i \in 1 .. Len(m) : m[i] = inbox[i + 1] /\ i + 1 \in 1 .. Len(inbox) /\ i + 1 # 1
  BY <1>1, Tail1
<1> HIDE DEF m, b
<1>3. hand \in HandSet /\ (IF b = Quit THEN hand.at = "ended" ELSE hand.at = "filling" /\ hand.block = b)
  BY <1>2 DEF HandSet, Idle, Quit
<1> HIDE DEF hand
<1>4. wo' \in WoSet
  BY <1>1, <1>3, Zenon DEF WoSet
<1>5. /\ wo'.ui = wo.ui /\ wo'.hand = hand /\ wo'.open = wo.open /\ wo'.buffers = wo.buffers /\ wo'.sent = wo.sent
      /\ wo'.taken = wo.taken /\ wo'.silent = wo.silent
  BY <1>1 DEF WoSet
<1>6. Apart(device, inbox) /\ Sent(wo.hand, wo.sent, device, inbox) /\ Together(wo, device, inbox)
  BY <1>1 DEF WoInv, WoOK, Once, Works
<1>7. Apart(device, m)
  <2>1. \A i, j \in 1 .. Len(m) : i # j /\ m[i] # Quit => m[i] # m[j]
    <3> TAKE i, j \in 1 .. Len(m)
    <3>1. i + 1 \in 1 .. Len(inbox) /\ j + 1 \in 1 .. Len(inbox) /\ m[i] = inbox[i + 1] /\ m[j] = inbox[j + 1] /\ (i # j => i + 1 # j + 1)
      BY <1>2
    <3> QED BY <1>6, <3>1 DEF Apart
  <2>2. \A i \in 1 .. Len(device), j \in 1 .. Len(m) : device[i].block # m[j]
    BY <1>2, <1>6 DEF Apart
  <2> QED BY <1>6, <2>1, <2>2 DEF Apart
<1>8. b # Quit => Free(b, device, m)
  BY <1>2, <1>6 DEF Apart, Free
<1>9. b <= wo.sent /\ (\A i \in 1 .. Len(m) : m[i] <= wo.sent)
  BY <1>2, <1>6 DEF Sent
<1>10. Once(hand, device, m) /\ Sent(hand, wo.sent, device, m)
  BY <1>3, <1>6, <1>7, <1>8, <1>9 DEF Once, Sent, Works, Fills
<1>11. Together(wo', device, m)
  <2>1. b # Quit => wo.open
    BY <1>1, <1>2, <1>6 DEF Together, Works
  <2>2. Works(hand) /\ ~wo.open => \A i \in 1 .. Len(m) : m[i] = Quit
    BY <1>1, <1>2, <1>6 DEF Together, Works
  <2> QED BY <1>1, <1>3, <1>5, <1>6, <2>1, <2>2 DEF Together, Fills
<1> QED BY <1>1, <1>2, <1>4, <1>5, <1>10, <1>11 DEF WoInv, WoOK

LEMMA SendsOK ==
  ASSUME WoAssumption, WoInv, ThreadSends
  PROVE  WoInv'
<1> DEFINE taken == IF wo.silent THEN wo.taken ELSE wo.taken + 1
           e == [block |-> wo.hand.block, holds |-> IF wo.silent THEN 0 ELSE taken]
<1>1. /\ inbox' = inbox /\ wo \in WoSet /\ wo.hand \in HandSet /\ wo.hand.at = "filling" /\ inbox \in Seq(Nat) /\ wo.taken \in Nat
      /\ device \in Seq(WrittenSet) /\ Idle \in HandSet /\ Idle.at = "waiting" /\ wo.silent \in BOOLEAN
  BY Entries DEF ThreadSends, WoSet, HandSet, Idle, Quit
<1>2. taken \in Nat /\ taken >= wo.taken /\ (wo.silent => taken = wo.taken) /\ (~wo.silent => taken = wo.taken + 1)
  BY <1>1
<1>3. /\ Apart(device, inbox) /\ Free(wo.hand.block, device, inbox) /\ Together(wo, device, inbox) /\ wo.open
      /\ Sent(wo.hand, wo.sent, device, inbox) /\ Ordered(wo.taken, wo.silent, device) /\ wo.hand.block <= wo.sent
  BY <1>1 DEF WoInv, WoOK, Once, Works, Fills, Together, Sent
<1>4. wo.hand.block \in Nat /\ wo.hand.block # Quit
  BY <1>1, <1>3 DEF Free, HandSet
<1>5. PICK hand \in HandSet :
        /\ wo' = [wo EXCEPT !.taken = taken, !.hand = hand]
        /\ \/ device' = Append(device, e) /\ hand = Idle
           \/ device' = device /\ (hand = Idle \/ (hand.at = "filling" /\ hand.block = wo.hand.block))
  <2> DEFINE again == [wo.hand EXCEPT !.tries = 1]
  <2>1. again \in HandSet /\ again.at = "filling" /\ again.block = wo.hand.block
    BY <1>1 DEF HandSet
  <2>2. \/ device' = Append(device, e) /\ wo' = [wo EXCEPT !.taken = taken, !.hand = Idle]
        \/ device' = device /\ wo' = [wo EXCEPT !.taken = taken, !.hand = IF wo.hand.tries = 1 THEN Idle ELSE again]
    BY <1>1 DEF ThreadSends, WoSet
  <2> HIDE DEF again, e, taken
  <2> QED BY <1>1, <2>1, <2>2
<1>6. e \in WrittenSet /\ e.block = wo.hand.block /\ (wo.silent => e.holds = 0) /\ (~wo.silent => e.holds = wo.taken + 1)
  BY <1>1, <1>2, <1>4 DEF WrittenSet
<1> HIDE DEF taken, e
<1>7. wo' \in WoSet
  BY <1>1, <1>2, <1>5, Zenon DEF WoSet
<1>8. /\ wo'.ui = wo.ui /\ wo'.hand = hand /\ wo'.open = wo.open /\ wo'.buffers = wo.buffers /\ wo'.sent = wo.sent
      /\ wo'.taken = taken /\ wo'.silent = wo.silent
  BY <1>1, <1>5 DEF WoSet
<1>9. hand.at \in {"waiting", "filling"} /\ (Fills(hand) => hand.block = wo.hand.block)
  BY <1>1, <1>5 DEF Fills
<1>10. CASE device' = device
  <2>1. Once(hand, device, inbox) /\ Sent(hand, wo.sent, device, inbox)
    BY <1>3, <1>9 DEF Once, Sent
  <2>2. Ordered(taken, wo.silent, device)
    BY <1>1, <1>2, <1>3, Entries DEF Ordered
  <2>3. Together(wo', device, inbox)
    BY <1>1, <1>3, <1>8, <1>9 DEF Together, Works
  <2> QED BY <1>1, <1>7, <1>8, <1>10, <2>1, <2>2, <2>3 DEF WoInv, WoOK
<1>11. CASE device' = Append(device, e) /\ hand = Idle
  <2> DEFINE d == Append(device, e)
  <2>1. /\ d \in Seq(WrittenSet) /\ d # <<>> /\ Len(device) \in Nat /\ Len(d) = Len(device) + 1
        /\ \A i \in 1 .. Len(d) : IF i = Len(device) + 1 THEN d[i] = e ELSE i \in 1 .. Len(device) /\ d[i] = device[i]
    <3>1. device \in Seq(WrittenSet) /\ e \in WrittenSet /\ Len(device) \in Nat
      BY <1>1, <1>6
    <3>2. \A t : t = Append(device, e) =>
             /\ t \in Seq(WrittenSet) /\ t # <<>> /\ Len(t) = Len(device) + 1
             /\ \A i \in 1 .. Len(t) : IF i = Len(device) + 1 THEN t[i] = e ELSE i \in 1 .. Len(device) /\ t[i] = device[i]
      BY <3>1, Append1, Zenon
    <3> QED BY <3>1, <3>2
  <2>2. Apart(d, inbox)
    BY <1>1, <1>3, <1>6, WrittenApart
  <2>3. Ordered(taken, wo.silent, d)
    BY <1>1, <1>2, <1>3, <1>6, WrittenInOrder
  <2> HIDE DEF d
  <2>4. ~Fills(hand)
    BY <1>1, <1>11 DEF Fills
  <2>5. Sent(hand, wo.sent, d, inbox)
    BY <1>3, <1>6, <2>1, <2>4 DEF Sent
  <2>6. Together(wo', d, inbox)
    BY <1>1, <1>3, <1>8, <1>9 DEF Together, Works
  <2> QED BY <1>1, <1>7, <1>8, <1>11, <2>1, <2>2, <2>3, <2>4, <2>5, <2>6 DEF WoInv, WoOK, Once, d
<1> QED BY <1>5, <1>10, <1>11

LEMMA CloseWoOK ==
  ASSUME WoAssumption, WoInv, CloseWo
  PROVE  WoInv'
<1>1. /\ device' = device /\ wo \in WoSet /\ wo' = [wo EXCEPT !.ui = "closing"] /\ wo.ui \in {"on", "failed"} /\ inbox \in Seq(Nat)
      /\ inbox' = Posted(<<Quit>>) /\ Quit \in Nat /\ Quit = 0 /\ wo.sent \in Nat /\ device \in Seq(WrittenSet)
  BY Entries DEF CloseWo, Quit
<1>2. wo' \in WoSet
  BY <1>1, Zenon DEF WoSet
<1>3. /\ wo'.ui = "closing" /\ wo'.hand = wo.hand /\ wo'.open = wo.open /\ wo'.buffers = wo.buffers /\ wo'.sent = wo.sent
      /\ wo'.taken = wo.taken /\ wo'.silent = wo.silent
  BY <1>1 DEF WoSet
<1>4. CASE inbox' = inbox
  <2>1. Together(wo', device, inbox)
    BY <1>1, <1>3 DEF WoInv, WoOK, Together
  <2> QED BY <1>1, <1>2, <1>3, <1>4, <2>1 DEF WoInv, WoOK
<1>5. CASE inbox' = Append(inbox, Quit) /\ Works(wo.hand) /\ wo.hand.at # "starting"
  <2> DEFINE m == Append(inbox, Quit)
  <2>1. /\ m \in Seq(Nat) /\ Len(inbox) \in Nat /\ Len(m) = Len(inbox) + 1
        /\ \A i \in 1 .. Len(m) : IF i = Len(inbox) + 1 THEN m[i] = Quit ELSE i \in 1 .. Len(inbox) /\ m[i] = inbox[i]
    BY <1>1, Append1
  <2> HIDE DEF m
  <2>2. Apart(device, inbox) /\ (Fills(wo.hand) => Free(wo.hand.block, device, inbox)) /\ Sent(wo.hand, wo.sent, device, inbox)
    BY <1>5 DEF WoInv, WoOK, Once
  <2>3. Apart(device, m)
    <3>1. \A i, j \in 1 .. Len(m) : i # j /\ m[i] # Quit => m[i] # m[j]
      BY <2>1, <2>2 DEF Apart
    <3>2. \A i \in 1 .. Len(device), j \in 1 .. Len(m) : device[i].block # m[j]
      BY <2>1, <2>2, Entries DEF Apart
    <3> QED BY <2>2, <3>1, <3>2 DEF Apart
  <2>4. (Fills(wo.hand) => Free(wo.hand.block, device, m)) /\ Sent(wo.hand, wo.sent, device, m)
    <3>1. Fills(wo.hand) => Free(wo.hand.block, device, m)
      <4> SUFFICES ASSUME Fills(wo.hand) PROVE Free(wo.hand.block, device, m)
        OBVIOUS
      <4>1. \A i \in 1 .. Len(m) : m[i] # wo.hand.block
        BY <2>1, <2>2 DEF Free
      <4> QED BY <2>2, <4>1 DEF Free
    <3>2. Sent(wo.hand, wo.sent, device, m)
      <4>1. Quit <= wo.sent /\ \A i \in 1 .. Len(inbox) : inbox[i] <= wo.sent
        BY <1>1, <2>2 DEF Sent
      <4>2. \A i \in 1 .. Len(m) : m[i] <= wo.sent
        BY <2>1, <4>1
      <4> QED BY <2>2, <4>2 DEF Sent
    <3> QED BY <3>1, <3>2
  <2>5. Together(wo', device, m)
    BY <1>1, <1>3, <1>5, <2>1 DEF WoInv, WoOK, Together, Works
  <2> QED BY <1>1, <1>2, <1>3, <1>5, <2>1, <2>3, <2>4, <2>5 DEF WoInv, WoOK, Once, m
<1>6. inbox' = inbox \/ (inbox' = Append(inbox, Quit) /\ Works(wo.hand) /\ wo.hand.at # "starting")
  BY <1>1, PostedOne
<1> QED BY <1>4, <1>5, <1>6

LEMMA EndOK ==
  ASSUME WoAssumption, WoInv, EndThread \/ CloseDevice
  PROVE  WoInv'
<1> DEFINE ended == [Idle EXCEPT !.at = "ended"]
<1>1. ended \in HandSet /\ ended.at = "ended"
  BY DEF HandSet, Idle, Quit
<1> HIDE DEF ended
<1>2. /\ wo \in WoSet /\ wo.hand \in HandSet /\ device \in Seq(WrittenSet) /\ inbox \in Seq(Nat) /\ Ordered(wo.taken, wo.silent, device)
      /\ Sent(wo.hand, wo.sent, device, inbox) /\ Together(wo, device, inbox)
  BY Entries DEF WoInv, WoOK
<1>3. CASE EndThread
  <2>1. wo.ui = "closing" /\ wo' = [wo EXCEPT !.ui = "resetting", !.hand = ended] /\ device' = device /\ inbox' = inbox
    BY <1>3 DEF EndThread, ended
  <2>2. wo' \in WoSet
    BY <1>1, <1>2, <2>1, Zenon DEF WoSet
  <2>3. /\ wo'.ui = "resetting" /\ wo'.hand = ended /\ wo'.open = wo.open /\ wo'.buffers = wo.buffers /\ wo'.sent = wo.sent
        /\ wo'.taken = wo.taken /\ wo'.silent = wo.silent
    BY <1>2, <2>1 DEF WoSet
  <2>4. Together(wo', device, inbox)
    BY <1>1, <1>2, <2>1, <2>3 DEF Together, Works, Fills
  <2>5. Once(wo'.hand, device, inbox) /\ Sent(wo'.hand, wo'.sent, device, inbox)
    BY <1>1, <1>2, <2>3 DEF Once, Sent, Works, Fills
  <2> QED BY <1>2, <2>1, <2>2, <2>3, <2>4, <2>5 DEF WoInv, WoOK
<1>4. CASE CloseDevice
  <2>1. wo.ui = "resetting" /\ wo' = [wo EXCEPT !.ui = "freeing", !.open = FALSE] /\ device' = <<>> /\ wo.hand.at = "ended" /\ inbox' = inbox
    BY <1>2, <1>4 DEF CloseDevice, Together, Posted
  <2>2. wo' \in WoSet
    BY <1>2, <2>1, Zenon DEF WoSet
  <2>3. /\ wo'.ui = "freeing" /\ wo'.hand = wo.hand /\ ~wo'.open /\ wo'.buffers = wo.buffers /\ wo'.sent = wo.sent
        /\ wo'.taken = wo.taken /\ wo'.silent = wo.silent
    BY <1>2, <2>1 DEF WoSet
  <2>4. Together(wo', device', inbox)
    BY <1>2, <2>1, <2>3 DEF Together, Works, Fills
  <2>5. /\ device' \in Seq(WrittenSet) /\ Once(wo.hand, device', inbox) /\ Sent(wo.hand, wo.sent, device', inbox)
        /\ Ordered(wo.taken, wo.silent, device')
    BY <1>2, <2>1 DEF Once, Sent, Ordered, Works
  <2> QED BY <1>2, <2>1, <2>2, <2>3, <2>4, <2>5 DEF WoInv, WoOK
<1> QED BY <1>3, <1>4

\* For every number of blocks: whoever is slow, refused or ended, no block of the driver
\* is in two places, the device plays what was taken from the source in order, and when
\* the blocks are freed neither the device nor the thread has one (SendBlock, BlockDone
\* and CleanUp of soundwo.cpp).
THEOREM BlocksGoRoundInOrder == WoSpec => []BlocksInOrder
<1>1. WoInit => WoInv
  BY WoAssumption, WoInitOK
<1>2. WoInv /\ [WoNext]_wovars => WoInv'
  <2>1. WoInv /\ WoNext => WoInv'
    BY WoAssumption, MakeOK, OpenDeviceOK, FreeOK, FirstOK, PlayedOK, StartsOK, TakesOK, SendsOK, CloseWoOK, EndOK DEF WoNext
  <2>2. WoInv /\ UNCHANGED wovars => WoInv'
    BY DEF wovars, WoInv
  <2> QED BY <2>1, <2>2
<1>3. WoInv => BlocksInOrder
  <2> SUFFICES ASSUME WoInv PROVE BlocksInOrder
    OBVIOUS
  <2>1. Alive => OncePlaced
    <3> SUFFICES ASSUME Works(wo.hand) PROVE OncePlaced
      BY DEF Alive, Works
    <3>1. Apart(device, inbox) /\ (Fills(wo.hand) => Free(wo.hand.block, device, inbox)) /\ Sent(wo.hand, wo.sent, device, inbox)
      BY DEF WoInv, WoOK, Once
    <3>2. \A b \in wo.sent + 1 .. Blocks : Nowhere(b)
      BY <3>1, Entries, WoAssumption DEF WoAssumption, Sent, Nowhere
    <3> QED BY <3>1, <3>2 DEF OncePlaced, Apart, Free, Fills, Sent, Nowhere
  <2>2. \A i, j \in 1 .. Len(device) : i < j => device[i].holds = 0 \/ device[i].holds < device[j].holds
    BY DEF WoInv, WoOK, Ordered
  <2>3. (device # <<>> \/ wo.hand.at = "filling") => wo.buffers /\ wo.open
    BY DEF WoInv, WoOK, Together, Fills
  <2> QED BY <2>1, <2>2, <2>3 DEF BlocksInOrder
<1> QED BY <1>1, <1>2, <1>3, PTL DEF WoSpec

-----------------------------------------------------------------------------
(* The sound chip in the computer: Piccolo and RegisterLine.  First the ring *)
(* and what it holds.                                                        *)

PicRegisters == Told \union Muted \union {NoRegister}
PicRingOK(e) ==
  e \in [cells : [0 .. RingEntries - 1 -> PicRegisters], read : 0 .. RingEntries - 1, write : 0 .. RingEntries - 1]

\* Sequences with the same entries.
LEMMA SameSequence ==
  ASSUME NEW S, NEW s \in Seq(S), NEW t \in Seq(S), NEW n \in Nat, Len(s) = n, Len(t) = n,
         \A k \in 1 .. n : s[k] = t[k]
  PROVE  s = t
OBVIOUS

\* The next place in the ring.
LEMMA AfterIs ==
  ASSUME NEW k \in 0 .. RingEntries - 1
  PROVE  After(k) = (IF k + 1 = RingEntries THEN 0 ELSE k + 1) /\ After(k) \in 0 .. RingEntries - 1
<1>1. (RingEntries \in Nat \ {0} /\ k + 1 \in Nat /\ k + 1 < 2 * RingEntries) \/ RingEntries = 1
  BY PicAssumption DEF PicAssumption
<1>2. CASE RingEntries = 1
  BY <1>2 DEF After
<1>3. CASE RingEntries # 1
  <2> DEFINE a == k + 1
  <2>1. a \in Nat /\ a < 2 * RingEntries /\ RingEntries \in Nat \ {0}
    BY <1>1, <1>3
  <2>2. After(k) = a % RingEntries
    BY DEF After
  <2> HIDE DEF a
  <2>3. a % RingEntries = IF a >= RingEntries THEN a - RingEntries ELSE a
    BY <2>1, ModUp
  <2>4. After(k) = IF a >= RingEntries THEN a - RingEntries ELSE a
    BY <2>2, <2>3
  <2> QED BY <1>1, <1>3, <2>4 DEF a
<1> QED BY <1>2, <1>3

\* What waits in the ring, as a sequence.
LEMMA HeldIs ==
  ASSUME NEW e, PicRingOK(e)
  PROVE  /\ Waiting(e) \in 0 .. RingEntries - 1
         /\ \A k \in 0 .. RingEntries - 1 : Place(e, k) \in 0 .. RingEntries - 1
         /\ Contents(e) \in Seq(PicRegisters) /\ Len(Contents(e)) = Waiting(e)
         /\ \A k \in 1 .. Waiting(e) : Contents(e)[k] = e.cells[Place(e, k - 1)]
         /\ e.read = e.write <=> Waiting(e) = 0
         /\ e.read = e.write <=> Contents(e) = <<>>
<1>1. RingEntries \in Nat \ {0} /\ e.read \in 0 .. RingEntries - 1 /\ e.write \in 0 .. RingEntries - 1
  BY PicAssumption DEF PicAssumption, PicRingOK
<1>2. Waiting(e) \in 0 .. RingEntries - 1 /\ (e.read = e.write <=> Waiting(e) = 0)
  BY <1>1 DEF Waiting
<1>3. \A k \in 0 .. RingEntries - 1 : Place(e, k) \in 0 .. RingEntries - 1
  BY <1>1 DEF Place
<1>4. \A k \in 1 .. Waiting(e) : e.cells[Place(e, k - 1)] \in PicRegisters
  BY <1>1, <1>2, <1>3 DEF PicRingOK
<1>5. Contents(e) \in Seq(PicRegisters) /\ Len(Contents(e)) = Waiting(e)
  BY <1>2, <1>4 DEF Contents
<1>6. \A k \in 1 .. Waiting(e) : Contents(e)[k] = e.cells[Place(e, k - 1)]
  BY DEF Contents
<1>7. Waiting(e) = 0 <=> Contents(e) = <<>>
  BY <1>2, <1>5
<1> QED BY <1>2, <1>3, <1>5, <1>6, <1>7

\* Push puts a register at the end of the line.
LEMMA PushedIs ==
  ASSUME NEW e, PicRingOK(e), NEW r \in PicRegisters, After(e.write) # e.read,
         NEW f, f = [e EXCEPT !.cells[e.write] = r, !.write = After(@)]
  PROVE  PicRingOK(f) /\ Len(Contents(e)) < RingEntries - 1 /\ Contents(f) = Append(Contents(e), r)
<1>1. RingEntries \in Nat \ {0} /\ e.read \in 0 .. RingEntries - 1 /\ e.write \in 0 .. RingEntries - 1
  BY PicAssumption DEF PicAssumption, PicRingOK
<1>2. /\ f.read = e.read /\ f.write = After(e.write) /\ f.cells = [e.cells EXCEPT ![e.write] = r]
      /\ e.cells \in [0 .. RingEntries - 1 -> PicRegisters]
  BY DEF PicRingOK
<1>3. After(e.write) = (IF e.write + 1 = RingEntries THEN 0 ELSE e.write + 1) /\ After(e.write) \in 0 .. RingEntries - 1
  BY <1>1, AfterIs
<1>4. PicRingOK(f)
  BY <1>2, <1>3 DEF PicRingOK
<1>5. Waiting(f) = Waiting(e) + 1 /\ Waiting(e) < RingEntries - 1 /\ Waiting(e) \in Nat
  BY <1>1, <1>2, <1>3 DEF Waiting
<1>6. \A k \in 0 .. Waiting(e) : Place(f, k) = Place(e, k)
  BY <1>2 DEF Place
<1>7. \A k \in 0 .. Waiting(e) : Place(e, k) = e.write <=> k = Waiting(e)
  BY <1>1, <1>5 DEF Place, Waiting
<1>8. \A k \in 1 .. Waiting(e) : f.cells[Place(f, k - 1)] = e.cells[Place(e, k - 1)]
  <2> TAKE k \in 1 .. Waiting(e)
  <2> DEFINE j == k - 1
  <2>1. j \in 0 .. Waiting(e) /\ j # Waiting(e) /\ j \in 0 .. RingEntries - 1
    BY <1>1, <1>5
  <2> HIDE DEF j
  <2>2. Place(f, j) = Place(e, j) /\ Place(e, j) # e.write
    BY <1>6, <1>7, <2>1
  <2>3. Place(e, j) \in 0 .. RingEntries - 1
    BY <2>1, HeldIs
  <2>4. f.cells[Place(e, j)] = e.cells[Place(e, j)]
    BY <1>1, <1>2, <2>2, <2>3
  <2> QED BY <2>2, <2>4 DEF j
<1>9. f.cells[Place(f, Waiting(e))] = r
  BY <1>1, <1>2, <1>5, <1>6, <1>7
<1> DEFINE c == Contents(e)
           d == Contents(f)
<1>10. /\ c \in Seq(PicRegisters) /\ Len(c) = Waiting(e) /\ d \in Seq(PicRegisters) /\ Len(d) = Waiting(e) + 1
       /\ \A k \in 1 .. Waiting(e) : d[k] = c[k]
       /\ d[Waiting(e) + 1] = r
  <2>1. /\ c \in Seq(PicRegisters) /\ Len(c) = Waiting(e)
        /\ \A k \in 1 .. Waiting(e) : c[k] = e.cells[Place(e, k - 1)]
    BY HeldIs
  <2>2. /\ d \in Seq(PicRegisters) /\ Len(d) = Waiting(f)
        /\ \A k \in 1 .. Waiting(f) : d[k] = f.cells[Place(f, k - 1)]
    BY <1>4, HeldIs
  <2> HIDE DEF c, d
  <2>3. \A k \in 1 .. Waiting(e) : d[k] = c[k]
    BY <1>5, <1>8, <2>1, <2>2
  <2>4. d[Waiting(e) + 1] = f.cells[Place(f, (Waiting(e) + 1) - 1)]
    BY <1>5, <2>2
  <2>5. (Waiting(e) + 1) - 1 = Waiting(e)
    BY <1>5
  <2> QED BY <1>5, <1>9, <2>1, <2>2, <2>3, <2>4, <2>5
<1> HIDE DEF c, d
<1>11. d = Append(c, r)
  BY <1>5, <1>10
<1> QED BY <1>4, <1>5, <1>10, <1>11 DEF c, d

\* Pop takes the first of the line, which Top is.
LEMMA PoppedIs ==
  ASSUME NEW e, PicRingOK(e), e.read # e.write, NEW f, f = [e EXCEPT !.read = After(@)]
  PROVE  /\ PicRingOK(f) /\ Contents(e) # <<>> /\ Head(Contents(e)) = e.cells[e.read]
         /\ Contents(f) = Tail(Contents(e))
<1>1. RingEntries \in Nat \ {0} /\ e.read \in 0 .. RingEntries - 1 /\ e.write \in 0 .. RingEntries - 1
  BY PicAssumption DEF PicAssumption, PicRingOK
<1>2. f.read = After(e.read) /\ f.write = e.write /\ f.cells = e.cells
  BY DEF PicRingOK
<1>3. After(e.read) = (IF e.read + 1 = RingEntries THEN 0 ELSE e.read + 1) /\ After(e.read) \in 0 .. RingEntries - 1
  BY <1>1, AfterIs
<1>4. PicRingOK(f)
  BY <1>2, <1>3 DEF PicRingOK
<1>5. Waiting(e) = Waiting(f) + 1 /\ Waiting(f) \in Nat /\ Waiting(f) < RingEntries - 1
  BY <1>1, <1>2, <1>3 DEF Waiting
<1>6. \A k \in 1 .. Waiting(f) : Place(f, k - 1) = Place(e, k)
  BY <1>1, <1>2, <1>3, <1>5 DEF Place
<1>7. Place(e, 0) = e.read
  BY <1>1 DEF Place
<1> DEFINE c == Contents(e)
           d == Contents(f)
<1>8. /\ c \in Seq(PicRegisters) /\ Len(c) = Waiting(f) + 1 /\ d \in Seq(PicRegisters) /\ Len(d) = Waiting(f)
      /\ c[1] = e.cells[e.read]
      /\ \A k \in 1 .. Waiting(f) : d[k] = e.cells[Place(e, k)]
      /\ \A k \in 1 .. Waiting(f) + 1 : c[k] = e.cells[Place(e, k - 1)]
  <2>1. /\ c \in Seq(PicRegisters) /\ Len(c) = Waiting(e)
        /\ \A k \in 1 .. Waiting(e) : c[k] = e.cells[Place(e, k - 1)]
    BY HeldIs
  <2>2. /\ d \in Seq(PicRegisters) /\ Len(d) = Waiting(f)
        /\ \A k \in 1 .. Waiting(f) : d[k] = f.cells[Place(f, k - 1)]
    BY <1>4, HeldIs
  <2> HIDE DEF c, d
  <2>3. c[1] = e.cells[Place(e, 1 - 1)] /\ 1 - 1 = 0
    BY <1>5, <2>1
  <2>4. \A k \in 1 .. Waiting(f) : d[k] = e.cells[Place(e, k)]
    BY <1>2, <1>6, <2>2
  <2> QED BY <1>5, <1>7, <2>1, <2>2, <2>3, <2>4
<1>9. \A k \in 1 .. Waiting(f) : d[k] = c[k + 1]
  <2> TAKE k \in 1 .. Waiting(f)
  <2>1. k + 1 \in 1 .. Waiting(f) + 1 /\ (k + 1) - 1 = k
    BY <1>5
  <2>2. c[k + 1] = e.cells[Place(e, (k + 1) - 1)]
    BY <1>8, <2>1
  <2> QED BY <1>8, <2>1, <2>2
<1> HIDE DEF c, d
<1>10. c # <<>> /\ Head(c) = c[1] /\ d = Tail(c)
  <2> DEFINE t == Tail(c)
  <2>1. c # <<>> /\ Head(c) = c[1]
    BY <1>5, <1>8
  <2>2. t \in Seq(PicRegisters) /\ Len(t) = Len(c) - 1 /\ \A k \in 1 .. Len(t) : t[k] = c[k + 1]
    BY <1>8, <2>1, Tail1
  <2>4. Len(t) = Waiting(f)
    BY <1>5, <1>8, <2>2
  <2> HIDE DEF t
  <2>5. \A k \in 1 .. Waiting(f) : d[k] = t[k]
    BY <1>9, <2>2, <2>4
  <2>3. d = t
    BY <1>5, <1>8, <2>2, <2>4, <2>5, SameSequence
  <2> QED BY <2>1, <2>3 DEF t
<1> QED BY <1>4, <1>8, <1>10 DEF c, d

-----------------------------------------------------------------------------
(* What OPNIF, the settings, the thread and the card have to do with each    *)
(* other.  While the chip is not let go, a reset mutes an empty ring, so     *)
(* that the thread has nothing to write between an address and its data.     *)

MuteSet == [i : 1 .. Len(MuteRegs) + 1, half : BOOLEAN]
MuteOK(m) ==
  /\ m \in MuteSet
  /\ m.half => m.i <= Len(MuteRegs)
OpnifSet ==
  [use : BOOLEAN, piccolo : BOOLEAN, chip : BOOLEAN,
   masks : [opn : {"none", "most", "all"}, ym : {"none", "most", "all"}],
   at : {"idle", "writing", "muting", "crashed", "ended"}, reg : PicRegisters, mute : MuteSet]
SetterSet == [at : {"idle", "muting", "ending", "gone"}, mute : MuteSet]
PicSet == [made : BOOLEAN, kind : {"none", "romeo", "gimic", "scci"}, avail : 0 .. 3, taken : BOOLEAN,
           entries : {0, RingEntries}, stop : BOOLEAN]
CardSet == [latch : PicRegisters, last : PicRegisters]
PicTyped ==
  /\ opnif \in OpnifSet
  /\ MuteOK(opnif.mute)
  /\ opnif.at = "writing" => opnif.reg \in Told
  /\ setter \in SetterSet
  /\ MuteOK(setter.mute)
  /\ pic \in PicSet
  /\ PicRingOK(evring)
  /\ sender \in {"none", "away", "looking", "writing", "ended"}
  /\ card \in CardSet

\* Nothing waits and nothing is written.
Nobody == evring.read = evring.write /\ sender # "writing"

\* Only a driver that was found has anything to do, and G.I.M.I.C never through the ring.
DriverOK ==
  /\ ~pic.made => pic.kind = "none" /\ ~opnif.chip
  /\ pic.kind = "none" => Nobody /\ ~opnif.chip /\ opnif.at \notin {"writing", "muting"}
  /\ pic.kind = "romeo" => pic.taken
  /\ pic.kind = "gimic" => Nobody
  /\ setter.at = "muting" => opnif.chip

\* Until the chip is let go an address is followed by its own data.
WholeWrites ==
  /\ sender = "writing" => /\ pic.kind = "romeo" /\ evring.read # evring.write
                           /\ LetGo \/ card.latch = Top
  /\ opnif.at = "muting" =>
       /\ pic.kind = "romeo"
       /\ LetGo \/ (Nobody /\ (opnif.mute.half => card.latch = MuteRegs[opnif.mute.i]))

PicOK == PicTyped /\ DriverOK /\ WholeWrites

\* At the start and in every step.
LEMMA PicInitOK == PicInit => PicOK
<1> SUFFICES ASSUME PicInit PROVE PicOK
  OBVIOUS
<1>1. 0 \in 0 .. RingEntries - 1 /\ 1 \in 1 .. Len(MuteRegs) + 1
  BY PicAssumption DEF PicAssumption
<1>2. PicRingOK(evring)
  BY <1>1 DEF PicInit, PicRingOK, PicRegisters
<1> QED BY <1>1, <1>2 DEF PicInit, PicOK, PicTyped, OpnifSet, SetterSet, PicSet, CardSet, DriverOK,
           WholeWrites, MuteOK, MuteSet, Begin, NoPiccolo, Nobody, PicRegisters

\* A mute writes the registers of its list, one step after the other.
LEMMA MuteStepOK ==
  ASSUME PicTyped, NEW m, MuteOK(m), ~AllMuted(m)
  PROVE  /\ MuteOK(MoreMuted(m)) /\ MutedCard(m) \in CardSet
         /\ MuteRegs[m.i] \in Muted
         /\ pic.kind = "romeo" /\ ~m.half =>
              MoreMuted(m) = [m EXCEPT !.half = TRUE] /\ MutedCard(m) = [card EXCEPT !.latch = MuteRegs[m.i]]
         /\ pic.kind = "romeo" /\ m.half => MutedCard(m) = [card EXCEPT !.last = card.latch] /\ ~MoreMuted(m).half
         /\ pic.kind # "romeo" => MutedCard(m) = [card EXCEPT !.last = MuteRegs[m.i]] /\ ~MoreMuted(m).half
<1>1. m.i \in 1 .. Len(MuteRegs) /\ m.half \in BOOLEAN /\ Len(MuteRegs) \in Nat
  BY PicAssumption DEF MuteOK, MuteSet, AllMuted, PicAssumption
<1>2. MuteRegs[m.i] \in Muted
  BY <1>1 DEF Muted
<1>3. MuteOK(MoreMuted(m))
  <2>1. CASE pic.kind = "romeo" /\ ~m.half
    <3> DEFINE n == [m EXCEPT !.half = TRUE]
    <3>1. n \in MuteSet /\ n.i = m.i
      BY DEF MuteOK, MuteSet
    <3>2. MoreMuted(m) = n
      BY <2>1 DEF MoreMuted
    <3> HIDE DEF n
    <3> QED BY <1>1, <3>1, <3>2 DEF MuteOK
  <2>2. CASE ~(pic.kind = "romeo" /\ ~m.half)
    BY <1>1, <2>2 DEF MuteOK, MuteSet, MoreMuted
  <2> QED BY <2>1, <2>2
<1>4. MutedCard(m) \in CardSet
  BY <1>2 DEF MutedCard, PicTyped, OpnifSet, SetterSet, PicSet, CardSet, PicRegisters
<1> QED BY <1>1, <1>2, <1>3, <1>4 DEF MoreMuted, MutedCard

\* The driver and its chip.
LEMMA TurnOnOK == PicOK /\ TurnOn => PicOK'
<1> SUFFICES ASSUME PicOK, TurnOn PROVE PicOK'
  OBVIOUS
<1>1. PicTyped /\ DriverOK /\ WholeWrites /\ setter.at = "idle" /\ setter' = setter /\ evring' = evring
  BY DEF PicOK, TurnOn
<1>2. \A found \in Drivers \union {pic, [kind |-> "none", avail |-> 0]}, chip \in BOOLEAN :
        LET o == Got(found, chip)
        IN /\ o.use /\ o.chip = chip /\ o.at = opnif.at /\ o.mute = opnif.mute /\ o.reg = opnif.reg
           /\ o \in OpnifSet
  <2> TAKE found \in Drivers \union {pic, [kind |-> "none", avail |-> 0]}, chip \in BOOLEAN
  <2> DEFINE mask == IF found.avail \in {2, 3} THEN "all" ELSE "most"
             masks == IF chip THEN [opn |-> mask, ym |-> mask] ELSE opnif.masks
             there == found.kind # "none"
  <2>1. masks \in [opn : {"none", "most", "all"}, ym : {"none", "most", "all"}] /\ there \in BOOLEAN
    BY <1>1 DEF PicTyped, OpnifSet, SetterSet, PicSet, CardSet
  <2>2. Got(found, chip) = [opnif EXCEPT !.use = TRUE, !.piccolo = there, !.chip = chip, !.masks = masks]
    BY <1>1 DEF PicTyped, OpnifSet, SetterSet, PicSet, CardSet, Got
  <2> HIDE DEF masks, there
  <2> QED BY <1>1, <2>1, <2>2 DEF PicTyped, OpnifSet, SetterSet, PicSet, CardSet
<1>3. CASE opnif.piccolo
  <2>1. opnif' = [opnif EXCEPT !.use = TRUE] /\ UNCHANGED <<pic, sender, card>>
    BY <1>3 DEF TurnOn
  <2>2. /\ opnif' \in OpnifSet /\ opnif'.at = opnif.at /\ opnif'.mute = opnif.mute /\ opnif'.reg = opnif.reg
        /\ opnif'.chip = opnif.chip
    BY <1>1, <2>1 DEF PicTyped, OpnifSet
  <2>3. PicTyped'
    BY <1>1, <2>1, <2>2 DEF PicTyped, MuteOK, PicRingOK
  <2> QED BY <1>1, <2>1, <2>2, <2>3 DEF PicOK, DriverOK, WholeWrites, Nobody, LetGo, Top
<1>4. ASSUME NEW found \in Drivers \union {[kind |-> "none", avail |-> 0]}, NEW thread \in BOOLEAN,
             InitHardware(found, thread)
      PROVE  PicOK'
  <2>1. /\ ~pic.made /\ pic.kind = "none" /\ Nobody /\ opnif.at \notin {"writing", "muting"}
        /\ setter.at # "muting" /\ ~opnif.chip
    BY <1>1, <1>4 DEF InitHardware, DriverOK
  <2>2. /\ pic' = [pic EXCEPT !.made = TRUE, !.kind = found.kind, !.avail = found.avail,
                              !.taken = found.kind \in {"romeo", "gimic"}, !.entries = IF thread THEN RingEntries ELSE 0]
        /\ sender' = IF thread THEN "away" ELSE "none"
        /\ card' = IF found.kind = "romeo" THEN [card EXCEPT !.latch = MuteRegs[Len(MuteRegs)]] ELSE card
        /\ opnif' = Got(found, found.kind # "none")
    BY <1>4 DEF InitHardware
  <2>3. found.kind \in {"none", "romeo", "gimic", "scci"} /\ found.avail \in 0 .. 3
    BY DEF Drivers
  <2>4. MuteRegs[Len(MuteRegs)] \in PicRegisters
    BY PicAssumption DEF PicAssumption, PicRegisters, Muted
  <2>5. /\ pic'.made /\ pic'.kind = found.kind /\ (pic'.taken <=> found.kind \in {"romeo", "gimic"})
        /\ pic' \in PicSet
    <3> DEFINE taken == found.kind \in {"romeo", "gimic"}
               entries == IF thread THEN RingEntries ELSE 0
    <3>1. taken \in BOOLEAN /\ entries \in {0, RingEntries}
      OBVIOUS
    <3>2. pic' = [pic EXCEPT !.made = TRUE, !.kind = found.kind, !.avail = found.avail, !.taken = taken, !.entries = entries]
      BY <2>2
    <3>3. taken <=> found.kind \in {"romeo", "gimic"}
      OBVIOUS
    <3> HIDE DEF taken, entries
    <3>4. /\ pic'.made /\ pic'.kind = found.kind /\ pic'.taken = taken
          /\ pic' \in PicSet
      BY <1>1, <2>3, <3>1, <3>2 DEF PicTyped, OpnifSet, SetterSet, PicSet, CardSet
    <3> QED BY <3>3, <3>4
  <2>6. card' \in CardSet
    BY <1>1, <2>2, <2>4 DEF PicTyped, OpnifSet, SetterSet, PicSet, CardSet
  <2>7. /\ opnif'.chip = (found.kind # "none") /\ opnif'.at = opnif.at /\ opnif'.mute = opnif.mute /\ opnif'.reg = opnif.reg
        /\ opnif' \in OpnifSet
    BY <1>2, <2>2
  <2>8. PicTyped'
    BY <1>1, <2>2, <2>5, <2>6, <2>7 DEF PicTyped, MuteOK, PicRingOK
  <2>9. DriverOK'
    BY <1>1, <2>1, <2>2, <2>5, <2>7 DEF DriverOK, Nobody
  <2> QED BY <1>1, <2>1, <2>2, <2>7, <2>8, <2>9 DEF PicOK, WholeWrites
<1>5. CASE AskAgain
  <2>1. pic.made /\ opnif' = Got(pic, pic.kind # "none" /\ ~pic.taken) /\ UNCHANGED <<pic, sender, card>>
    BY <1>5 DEF AskAgain
  <2> DEFINE chip == pic.kind # "none" /\ ~pic.taken
  <2>0. chip \in BOOLEAN
    BY <1>1 DEF PicTyped, PicSet
  <2>2. /\ opnif'.chip = chip /\ opnif'.at = opnif.at /\ opnif'.mute = opnif.mute /\ opnif'.reg = opnif.reg
        /\ opnif' \in OpnifSet
    <3>1. opnif' = Got(pic, chip)
      BY <2>1
    <3> HIDE DEF chip
    <3> QED BY <1>2, <2>0, <3>1
  <2>3. PicTyped' /\ DriverOK'
    <3>1. PicTyped'
      BY <1>1, <2>1, <2>2 DEF PicTyped, MuteOK, PicRingOK
    <3> QED BY <1>1, <2>1, <2>2, <3>1 DEF DriverOK, Nobody
  <2>4. pic.kind = "romeo" => LetGo'
    BY <1>1, <2>1, <2>2 DEF DriverOK, LetGo
  <2> QED BY <1>1, <2>1, <2>2, <2>3, <2>4 DEF PicOK, WholeWrites
<1> QED BY <1>3, <1>4, <1>5 DEF TurnOn

LEMMA TurnOffOK == PicOK /\ (TurnOff \/ DeleteMutes \/ DeleteChip) => PicOK'
<1> SUFFICES ASSUME PicOK, TurnOff \/ DeleteMutes \/ DeleteChip PROVE PicOK'
  OBVIOUS
<1>1. PicTyped /\ DriverOK /\ WholeWrites
  BY DEF PicOK
<1>2. MuteOK(Begin)
  BY PicAssumption DEF PicAssumption, MuteOK, MuteSet, Begin
<1>3. CASE TurnOff
  <2>1. /\ UNCHANGED <<pic, evring, sender, card>>
        /\ \/ /\ opnif.chip /\ opnif' = [opnif EXCEPT !.use = FALSE] /\ setter' = [at |-> "muting", mute |-> Begin]
           \/ /\ ~opnif.chip /\ opnif' = [opnif EXCEPT !.use = FALSE, !.piccolo = FALSE] /\ setter' = setter
    BY <1>3 DEF TurnOff
  <2>2. opnif' \in OpnifSet /\ opnif'.at = opnif.at /\ opnif'.mute = opnif.mute /\ opnif'.reg = opnif.reg /\ opnif'.chip = opnif.chip
    BY <1>1, <2>1 DEF PicTyped, OpnifSet
  <2>3. setter' \in SetterSet /\ MuteOK(setter'.mute) /\ (setter'.at = "muting" => opnif.chip) /\ (LetGo => LetGo')
    BY <1>1, <1>2, <2>1, <2>2 DEF PicTyped, SetterSet, MuteOK, DriverOK, LetGo
  <2>4. PicTyped'
    BY <1>1, <2>1, <2>2, <2>3 DEF PicTyped, MuteOK, PicRingOK
  <2> QED BY <1>1, <2>1, <2>2, <2>3, <2>4 DEF PicOK, DriverOK, WholeWrites, Nobody, Top
<1>4. CASE DeleteMutes
  <2>1. /\ setter.at = "muting" /\ ~AllMuted(setter.mute) /\ card' = MutedCard(setter.mute)
        /\ setter' = [setter EXCEPT !.mute = MoreMuted(setter.mute)] /\ UNCHANGED <<opnif, pic, evring, sender>>
    BY <1>4 DEF DeleteMutes
  <2>2. MuteOK(MoreMuted(setter.mute)) /\ card' \in CardSet
    BY <1>1, <2>1, MuteStepOK DEF PicTyped, OpnifSet, SetterSet, PicSet, CardSet
  <2>3. setter'.at = "muting" /\ setter'.mute = MoreMuted(setter.mute)
        /\ setter' \in SetterSet
    BY <1>1, <2>1, <2>2 DEF PicTyped, OpnifSet, SetterSet, PicSet, CardSet, MuteOK, MuteSet
  <2>4. PicTyped'
    BY <1>1, <2>1, <2>2, <2>3 DEF PicTyped, OpnifSet, SetterSet, PicSet, CardSet, MuteOK, MuteSet, PicRingOK
  <2>5. DriverOK' /\ WholeWrites'
    BY <1>1, <2>1, <2>3 DEF DriverOK, WholeWrites, Nobody, LetGo
  <2> QED BY <2>4, <2>5 DEF PicOK
<1>5. CASE DeleteChip
  <2>1. /\ setter.at = "muting" /\ setter' = [setter EXCEPT !.at = "idle"]
        /\ opnif' = [opnif EXCEPT !.piccolo = FALSE, !.chip = FALSE, !.masks = [opnif.masks EXCEPT !.opn = "none"]]
        /\ UNCHANGED <<pic, evring, sender, card>>
    BY <1>1, <1>5 DEF DeleteChip, PicTyped, OpnifSet, SetterSet, PicSet, CardSet
  <2>2. [opnif.masks EXCEPT !.opn = "none"] \in [opn : {"none", "most", "all"}, ym : {"none", "most", "all"}]
    BY <1>1 DEF PicTyped, OpnifSet, SetterSet, PicSet, CardSet
  <2>3. opnif' \in OpnifSet /\ opnif'.at = opnif.at /\ opnif'.mute = opnif.mute /\ opnif'.reg = opnif.reg /\ ~opnif'.chip
    BY <1>1, <2>1, <2>2 DEF PicTyped, OpnifSet
  <2>4. setter' \in SetterSet /\ setter'.mute = setter.mute /\ setter'.at = "idle"
    BY <1>1, <2>1 DEF PicTyped, SetterSet
  <2>5. PicTyped'
    BY <1>1, <2>1, <2>3, <2>4 DEF PicTyped, MuteOK, PicRingOK
  <2> QED BY <1>1, <2>1, <2>3, <2>4, <2>5 DEF PicOK, DriverOK, WholeWrites, Nobody, LetGo
<1> QED BY <1>3, <1>4, <1>5

\* The machine.
LEMMA WriteDataOK ==
  ASSUME PicOK, NEW r \in Told, WriteData(r)
  PROVE  PicOK'
<1>1. PicTyped /\ DriverOK /\ WholeWrites
  BY DEF PicOK
<1>2. /\ opnif.chip /\ opnif' = [opnif EXCEPT !.at = "writing", !.reg = r] /\ opnif.at = "idle"
      /\ UNCHANGED <<setter, pic, evring, sender, card>>
  BY DEF WriteData
<1>3. r \in PicRegisters
  BY DEF PicRegisters
<1>4. /\ opnif' \in OpnifSet /\ opnif'.at = "writing" /\ opnif'.mute = opnif.mute /\ opnif'.reg = r
      /\ opnif'.chip = opnif.chip
  BY <1>1, <1>2, <1>3 DEF PicTyped, OpnifSet
<1>5. PicTyped'
  BY <1>1, <1>2, <1>4 DEF PicTyped, MuteOK, PicRingOK
<1> QED BY <1>1, <1>2, <1>4, <1>5 DEF PicOK, DriverOK, WholeWrites, Nobody, LetGo, Top

LEMMA SetRegOK == PicOK /\ (SetReg \/ SetRegOfDeleted) => PicOK'
<1> SUFFICES ASSUME PicOK, SetReg \/ SetRegOfDeleted PROVE PicOK'
  OBVIOUS
<1>1. PicTyped /\ DriverOK /\ WholeWrites
  BY DEF PicOK
<1>3. ASSUME opnif.at = "writing", UNCHANGED <<setter, pic, evring, sender>>,
             opnif' = [opnif EXCEPT !.at = "idle"] \/ opnif' = [opnif EXCEPT !.at = "crashed"],
             \/ card' = card
             \/ pic.kind = "gimic" /\ card' = [card EXCEPT !.last = opnif.reg]
      PROVE  PicOK'
  <2>1. card' \in CardSet /\ card'.latch = card.latch
    BY <1>1, <1>3 DEF PicTyped, OpnifSet, SetterSet, PicSet, CardSet
  <2> QED BY <1>1, <1>3, <2>1 DEF PicOK, PicTyped, OpnifSet, SetterSet, PicSet, CardSet, DriverOK,
             WholeWrites, MuteOK, MuteSet, PicRingOK, Nobody, LetGo, Top
<1>4. ASSUME pic.kind # "gimic", ~Held, ~Full, SetReg, opnif' = [opnif EXCEPT !.at = "idle"], card' = card,
             evring' = [evring EXCEPT !.cells[evring.write] = opnif.reg, !.write = After(@)]
      PROVE  PicOK'
  <2>1. /\ opnif.at = "writing" /\ UNCHANGED <<setter, pic, sender>> /\ PicRingOK(evring) /\ opnif.reg \in PicRegisters
        /\ After(evring.write) # evring.read /\ pic.kind # "none" /\ sender # "writing"
    BY <1>1, <1>4 DEF SetReg, Full, Held, DriverOK, PicTyped, OpnifSet, SetterSet, PicSet, CardSet
  <2>2. PicRingOK(evring')
    BY <1>4, <2>1, PushedIs
  <2> QED BY <1>1, <1>4, <2>1, <2>2 DEF PicOK, PicTyped, OpnifSet, SetterSet, PicSet, CardSet, DriverOK,
             WholeWrites, MuteOK, MuteSet, Nobody, LetGo, PicRingOK
<1>5. CASE SetRegOfDeleted
  BY <1>3, <1>5 DEF SetRegOfDeleted
<1>6. CASE SetReg
  BY <1>3, <1>4, <1>6 DEF SetReg, WriteDone
<1> QED BY <1>5, <1>6

LEMMA ResetOK == PicOK /\ (ResetChip \/ ResetMutes \/ ResetCard) => PicOK'
<1> SUFFICES ASSUME PicOK, ResetChip \/ ResetMutes \/ ResetCard PROVE PicOK'
  OBVIOUS
<1>1. PicTyped /\ DriverOK /\ WholeWrites
  BY DEF PicOK
<1>2. 0 \in 0 .. RingEntries - 1 /\ MuteOK(Begin) /\ ~Begin.half
  BY PicAssumption DEF PicAssumption, MuteOK, MuteSet, Begin
<1>3. CASE ResetChip
  <2>1. /\ opnif.at = "idle" /\ opnif.chip /\ UNCHANGED <<setter, pic, sender>>
        /\ \/ pic.kind = "scci" /\ evring' = evring
           \/ pic.kind # "scci" /\ ~Held /\ evring' = [evring EXCEPT !.read = 0, !.write = 0]
        /\ \/ pic.kind = "romeo" /\ opnif' = [opnif EXCEPT !.at = "muting", !.mute = Begin] /\ card' = card
           \/ pic.kind # "romeo" /\ opnif' = opnif /\ card' = [card EXCEPT !.last = NoRegister]
    BY <1>3 DEF ResetChip, Emptied
  <2>2. PicRingOK(evring') /\ (pic.kind = "scci" \/ evring'.read = evring'.write)
    <3>1. PicRingOK(evring)
      BY <1>1 DEF PicTyped
    <3>2. evring' = evring \/ (pic.kind # "scci" /\ evring' = [evring EXCEPT !.read = 0, !.write = 0])
      BY <2>1
    <3> QED BY <1>2, <2>1, <3>1, <3>2 DEF PicRingOK
  <2>3. card' \in CardSet
    BY <1>1, <2>1 DEF PicTyped, OpnifSet, SetterSet, PicSet, CardSet, PicRegisters
  <2>4. /\ opnif' \in OpnifSet /\ opnif'.chip = opnif.chip /\ MuteOK(opnif'.mute) /\ opnif'.at \in {"idle", "muting"}
        /\ opnif'.at = "muting" => pic.kind = "romeo" /\ ~opnif'.mute.half
    BY <1>1, <1>2, <2>1 DEF PicTyped, OpnifSet, MuteOK
  <2>5. PicTyped'
    BY <1>1, <2>1, <2>2, <2>3, <2>4 DEF PicTyped, MuteOK
  <2>6. sender # "writing" \/ (pic.kind = "scci" /\ evring' = evring)
    BY <1>1, <2>1 DEF Held
  <2>7. DriverOK'
    BY <1>1, <2>1, <2>2, <2>4, <2>6 DEF DriverOK, Nobody
  <2>8. WholeWrites'
    BY <1>1, <2>1, <2>2, <2>4, <2>6 DEF WholeWrites, Nobody, LetGo
  <2> QED BY <2>5, <2>7, <2>8 DEF PicOK
<1>4. CASE ResetMutes
  <2>1. /\ opnif.at = "muting" /\ ~AllMuted(opnif.mute) /\ card' = MutedCard(opnif.mute) /\ pic.kind = "romeo"
        /\ opnif' = [opnif EXCEPT !.mute = MoreMuted(opnif.mute)] /\ UNCHANGED <<setter, pic, evring, sender>>
    BY <1>1, <1>4 DEF ResetMutes, WholeWrites
  <2>2. /\ MuteOK(MoreMuted(opnif.mute)) /\ card' \in CardSet
        /\ ~opnif.mute.half =>
             MoreMuted(opnif.mute) = [opnif.mute EXCEPT !.half = TRUE] /\ card' = [card EXCEPT !.latch = MuteRegs[opnif.mute.i]]
        /\ opnif.mute.half => ~MoreMuted(opnif.mute).half
    BY <1>1, <2>1, MuteStepOK DEF PicTyped, OpnifSet, SetterSet, PicSet, CardSet
  <2>3. /\ opnif'.at = "muting" /\ opnif'.mute = MoreMuted(opnif.mute) /\ opnif'.chip = opnif.chip
        /\ opnif' \in OpnifSet
    BY <1>1, <2>1, <2>2 DEF PicTyped, OpnifSet, SetterSet, PicSet, CardSet, MuteOK, MuteSet
  <2>4. PicTyped'
    BY <1>1, <2>1, <2>2, <2>3 DEF PicTyped, MuteOK, PicRingOK
  <2>5. opnif'.mute.half => card'.latch = MuteRegs[opnif'.mute.i]
    <3>1. CASE opnif.mute.half
      BY <2>2, <2>3, <3>1
    <3>2. CASE ~opnif.mute.half
      BY <1>1, <2>2, <2>3, <3>2 DEF PicTyped, MuteOK, MuteSet, CardSet
    <3> QED BY <3>1, <3>2
  <2> QED BY <1>1, <2>1, <2>3, <2>4, <2>5 DEF PicOK, DriverOK, WholeWrites, Nobody, LetGo
<1>5. CASE ResetCard
  <2>1. /\ opnif' = [opnif EXCEPT !.at = "idle"] /\ card' = [card EXCEPT !.last = NoRegister]
        /\ UNCHANGED <<setter, pic, evring, sender>>
    BY <1>5 DEF ResetCard, WriteDone
  <2>2. card' \in CardSet /\ card'.latch = card.latch
    BY <1>1, <2>1 DEF PicTyped, OpnifSet, SetterSet, PicSet, CardSet, PicRegisters
  <2> QED BY <1>1, <2>1, <2>2 DEF PicOK, PicTyped, OpnifSet, SetterSet, PicSet, CardSet, DriverOK,
             WholeWrites, MuteOK, MuteSet, PicRingOK, Nobody, LetGo, Top
<1> QED BY <1>3, <1>4, <1>5

\* The thread, and the end.
LEMMA SenderOK ==
  PicOK /\ (SenderLooks \/ SendDue \/ SendData \/ SenderWaits \/ MachineEnds \/ DeleteInstance \/ SenderStopped) => PicOK'
<1> SUFFICES ASSUME PicOK, SenderLooks \/ SendDue \/ SendData \/ SenderWaits \/ MachineEnds \/ DeleteInstance \/ SenderStopped
             PROVE  PicOK'
  OBVIOUS
<1>1. PicTyped /\ DriverOK /\ WholeWrites
  BY DEF PicOK
<1>2. CASE SenderLooks \/ SenderWaits
  <2>1. sender' \in {"looking", "away", "ended"} /\ sender # "writing" /\ UNCHANGED <<opnif, setter, pic, evring, card>>
    BY <1>2 DEF SenderLooks, SenderWaits
  <2>2. PicTyped'
    BY <1>1, <2>1 DEF PicTyped, MuteOK, PicRingOK
  <2> QED BY <1>1, <2>1, <2>2 DEF PicOK, DriverOK, WholeWrites, Nobody, LetGo, Top
<1>3. CASE MachineEnds \/ DeleteInstance \/ SenderStopped
  <2>1. /\ opnif' = opnif \/ (opnif.at = "idle" /\ opnif' = [opnif EXCEPT !.at = "ended"])
        /\ \/ setter' = setter
           \/ setter.at \in {"idle", "ending"} /\ setter' = [setter EXCEPT !.at = "ending"]
           \/ setter.at \in {"idle", "ending"} /\ setter' = [setter EXCEPT !.at = "gone"]
        /\ pic' = pic \/ pic' = [pic EXCEPT !.stop = TRUE]
        /\ sender' = sender \/ sender' \in {"none", "ended"}
        /\ UNCHANGED <<evring, card>>
    BY <1>3 DEF MachineEnds, DeleteInstance, SenderStopped
  <2>2. /\ opnif' \in OpnifSet /\ opnif'.mute = opnif.mute /\ opnif'.reg = opnif.reg /\ opnif'.chip = opnif.chip
        /\ opnif'.at = opnif.at \/ opnif'.at = "ended"
    BY <1>1, <2>1 DEF PicTyped, OpnifSet
  <2>3. /\ setter' \in SetterSet /\ setter'.mute = setter.mute /\ (setter'.at = "muting" <=> setter.at = "muting")
    BY <1>1, <2>1 DEF PicTyped, SetterSet
  <2>4. pic' \in PicSet /\ pic'.kind = pic.kind /\ pic'.made = pic.made /\ pic'.taken = pic.taken
    BY <1>1, <2>1 DEF PicTyped, PicSet
  <2>5. PicTyped'
    BY <1>1, <2>1, <2>2, <2>3, <2>4 DEF PicTyped, MuteOK, PicRingOK
  <2>6. DriverOK'
    BY <1>1, <2>1, <2>2, <2>3, <2>4 DEF DriverOK, Nobody
  <2>7. WholeWrites'
    BY <1>1, <2>1, <2>2, <2>3, <2>4 DEF WholeWrites, Nobody, LetGo, Top
  <2> QED BY <2>5, <2>6, <2>7 DEF PicOK
<1>4. CASE SendDue
  <2>1. /\ sender = "looking" /\ evring.read # evring.write /\ UNCHANGED <<opnif, setter, pic>>
        /\ \/ /\ pic.kind = "romeo" /\ sender' = "writing" /\ card' = [card EXCEPT !.latch = Top] /\ evring' = evring
           \/ /\ pic.kind # "romeo" /\ card' = [card EXCEPT !.last = Top] /\ evring' = [evring EXCEPT !.read = After(@)]
              /\ sender' = sender
    BY <1>4 DEF SendDue, Popped
  <2>2. Top \in PicRegisters /\ PicRingOK(evring')
    BY <1>1, <2>1, PoppedIs DEF PicTyped, OpnifSet, SetterSet, PicSet, CardSet, PicRingOK, Top
  <2>3. card' \in CardSet /\ (pic.kind = "romeo" => card'.latch = Top)
    BY <1>1, <2>1, <2>2 DEF PicTyped, OpnifSet, SetterSet, PicSet, CardSet
  <2>4. pic.kind \notin {"gimic", "none"} /\ (opnif.at = "muting" => LetGo)
    BY <1>1, <2>1 DEF DriverOK, WholeWrites, Nobody
  <2>5. PicTyped'
    BY <1>1, <2>1, <2>2, <2>3 DEF PicTyped, OpnifSet, SetterSet, PicSet, CardSet, MuteOK, MuteSet, PicRingOK
  <2> QED BY <1>1, <2>1, <2>3, <2>4, <2>5 DEF PicOK, DriverOK, WholeWrites, LetGo, Top
<1>5. CASE SendData
  <2>1. /\ sender = "writing" /\ sender' = "looking" /\ UNCHANGED <<opnif, setter, pic>>
        /\ card' = [card EXCEPT !.last = card.latch] /\ evring' = [evring EXCEPT !.read = After(@)]
    BY <1>5 DEF SendData, Popped
  <2>2. pic.kind = "romeo" /\ evring.read # evring.write /\ (opnif.at = "muting" => LetGo)
    BY <1>1, <2>1 DEF WholeWrites, Nobody
  <2>3. PicRingOK(evring')
    BY <1>1, <2>1, <2>2, PoppedIs DEF PicTyped, OpnifSet, SetterSet, PicSet, CardSet
  <2>4. card' \in CardSet
    BY <1>1, <2>1 DEF PicTyped, OpnifSet, SetterSet, PicSet, CardSet
  <2>5. PicTyped'
    BY <1>1, <2>1, <2>3, <2>4 DEF PicTyped, OpnifSet, SetterSet, PicSet, CardSet, MuteOK, MuteSet, PicRingOK
  <2> QED BY <1>1, <2>1, <2>2, <2>5 DEF PicOK, DriverOK, WholeWrites, LetGo
<1> QED BY <1>2, <1>3, <1>4, <1>5

\* All of it.
LEMMA PicNextOK == PicOK /\ [PicNext]_picvars => PicOK'
<1>1. PicOK /\ UNCHANGED picvars => PicOK'
  BY DEF picvars, PicOK, PicTyped, OpnifSet, SetterSet, PicSet, CardSet, DriverOK, WholeWrites, MuteOK,
       MuteSet, PicRingOK, Nobody, LetGo, Top
<1>2. PicOK /\ PicNext => PicOK'
  BY TurnOnOK, TurnOffOK, WriteDataOK, SetRegOK, ResetOK, SenderOK DEF PicNext
<1> QED BY <1>1, <1>2

-----------------------------------------------------------------------------
(* What the chip hears is what RegisterLine promises.                        *)

\* The line after a step, and what it comes down to.
LEMMA LineAfter == Contents(evring)' = Contents(evring')
  BY DEF Contents, Waiting, Place

LEMMA LineStep ==
  ASSUME Way' = Way, NEW c, c = Contents(evring), NEW d, d = Contents(evring'), NEW l, l = card'.last,
         \/ l = card.last /\ d \in {c, <<>>}
         \/ l = NoRegister /\ d = c
         \/ Way # "mixed" /\ c = <<>> /\ d = c /\ l \in Muted
         \/ Way = "direct" /\ c = <<>> /\ d = c /\ l \in Told
         \/ Way = "mixed" /\ l \in PicRegisters /\ d = c
         \/ Way # "direct" /\ l = card.last /\ Len(c) < RingEntries - 1 /\ (\E r \in Told : d = Append(c, r))
                           /\ l \in PicRegisters
         \/ Way # "direct" /\ c # <<>> /\ d = Tail(c) /\ l \in PicRegisters /\ (Way = "queued" => l = Head(c))
  PROVE  [Line!RlNext]_Line!rlvars
<1>1. Way \in {"queued", "direct", "mixed"}
  BY DEF Way
<1>2. Contents(evring)' = d
  BY LineAfter
<1> USE <1>1, <1>2 DEF Line!RlNext, Line!rlvars, PicRegisters
<1>3. CASE l = card.last /\ d \in {c, <<>>}
  BY <1>3 DEF Line!Forget
<1>4. CASE l = NoRegister /\ d = c
  BY <1>4 DEF Line!Restart
<1>5. CASE Way # "mixed" /\ c = <<>> /\ d = c /\ l \in Muted
  BY <1>5 DEF Line!Mute
<1>6. CASE Way = "direct" /\ c = <<>> /\ d = c /\ l \in Told
  BY <1>6 DEF Line!TellDirectly
<1>7. CASE Way = "mixed" /\ l \in PicRegisters /\ d = c
  BY <1>7 DEF Line!Mix
<1>8. ASSUME Way # "direct", l = card.last, Len(c) < RingEntries - 1, NEW r \in Told, d = Append(c, r), l \in PicRegisters
      PROVE  Line!RlNext
  BY <1>8 DEF Line!Tell, Line!Mix
<1>9. CASE Way # "direct" /\ c # <<>> /\ d = Tail(c) /\ l \in PicRegisters /\ (Way = "queued" => l = Head(c))
  BY <1>9 DEF Line!Hear, Line!Mix
<1> QED BY <1>3, <1>4, <1>5, <1>6, <1>7, <1>8, <1>9

\* A step that tells the chip nothing may let it go or take it.
LEMMA LineStays ==
  ASSUME evring' = evring, card'.last = card.last
  PROVE  [Line!RlNext]_Line!rlvars
<1>1. Contents(evring)' = Contents(evring) /\ Way' \in {"queued", "direct", "mixed"}
  BY LineAfter DEF Way
<1> QED BY <1>1 DEF Line!RlNext, Line!ChangeWay, Line!rlvars

\* The settings and the end change nothing, but for the mute.
LEMMA SettingsTell ==
  ASSUME PicOK, \/ TurnOn \/ TurnOff \/ DeleteMutes \/ DeleteChip
                \/ MachineEnds \/ DeleteInstance \/ SenderStopped \/ SenderLooks \/ SenderWaits
  PROVE  [Line!RlNext]_Line!rlvars
<1>1. CASE TurnOn
  <2>1. evring' = evring
    BY <1>1 DEF TurnOn
  <2>2. card' = card \/ card' = [card EXCEPT !.latch = MuteRegs[Len(MuteRegs)]]
    BY <1>1 DEF TurnOn, InitHardware, AskAgain
  <2>3. card'.last = card.last
    BY <2>2 DEF PicOK, PicTyped, CardSet
  <2> QED BY <2>1, <2>3, LineStays
<1>2. CASE TurnOff \/ DeleteChip \/ MachineEnds \/ DeleteInstance \/ SenderStopped \/ SenderLooks \/ SenderWaits
  <2>1. evring' = evring /\ card' = card
    BY <1>2 DEF TurnOff, DeleteChip, MachineEnds, DeleteInstance, SenderStopped, SenderLooks, SenderWaits
  <2> QED BY <2>1, LineStays
<1>3. CASE DeleteMutes
  <2>1. /\ setter.at = "muting" /\ setter'.at = "muting" /\ ~AllMuted(setter.mute) /\ card' = MutedCard(setter.mute)
        /\ UNCHANGED <<opnif, pic, evring>>
    BY <1>3 DEF DeleteMutes, PicOK, PicTyped, SetterSet
  <2>2. Way' = Way /\ (Way = "mixed" \/ (Way = "direct" /\ pic.kind = "gimic"))
    BY <2>1 DEF Way, LetGo
  <2>3. card' \in CardSet /\ MuteRegs[setter.mute.i] \in Muted
        /\ (pic.kind # "romeo" => card' = [card EXCEPT !.last = MuteRegs[setter.mute.i]])
    BY <2>1, MuteStepOK DEF PicOK, PicTyped
  <2>4. card'.last \in PicRegisters /\ (pic.kind # "romeo" => card'.last \in Muted)
    BY <2>3 DEF PicOK, PicTyped, CardSet
  <2>5. Way = "direct" => Contents(evring) = <<>>
    BY <2>2, HeldIs DEF PicOK, PicTyped, DriverOK, Nobody
  <2> QED BY <2>1, <2>2, <2>4, <2>5, LineStep
<1> QED BY <1>1, <1>2, <1>3

\* The machine tells its registers.
LEMMA MachineTells ==
  ASSUME PicOK, (\E r \in Told : WriteData(r)) \/ SetReg \/ SetRegOfDeleted
  PROVE  [Line!RlNext]_Line!rlvars
<1>1. CASE (\E r \in Told : WriteData(r)) \/ SetRegOfDeleted
  <2>1. evring' = evring /\ card' = card
    BY <1>1 DEF WriteData, SetRegOfDeleted
  <2> QED BY <2>1, LineStays
<1>2. CASE SetReg
  <2>1. /\ opnif.at = "writing" /\ UNCHANGED <<setter, pic>> /\ opnif.reg \in Told /\ PicRingOK(evring)
        /\ opnif'.chip = opnif.chip
    BY <1>2 DEF SetReg, WriteDone, PicOK, PicTyped, OpnifSet
  <2>2. Way' = Way /\ (pic.kind = "gimic" <=> Way = "direct")
    BY <2>1 DEF Way, LetGo
  <2>3. CASE evring' = evring /\ card' = card
    BY <2>3, LineStays
  <2>4. CASE pic.kind = "gimic" /\ card' = [card EXCEPT !.last = opnif.reg] /\ evring' = evring
    <3>1. card'.last = opnif.reg /\ Contents(evring) = <<>>
      BY <2>1, <2>4, HeldIs DEF PicOK, PicTyped, CardSet, DriverOK, Nobody
    <3> QED BY <2>1, <2>2, <2>4, <3>1, LineStep
  <2>5. CASE /\ pic.kind # "gimic" /\ ~Full /\ card' = card
             /\ evring' = [evring EXCEPT !.cells[evring.write] = opnif.reg, !.write = After(@)]
    <3>1. opnif.reg \in PicRegisters /\ After(evring.write) # evring.read /\ card'.last \in PicRegisters
      BY <2>1, <2>5 DEF PicRegisters, Full, PicOK, PicTyped, CardSet
    <3>2. Len(Contents(evring)) < RingEntries - 1 /\ Contents(evring') = Append(Contents(evring), opnif.reg)
      BY <2>1, <2>5, <3>1, PushedIs
    <3> QED BY <2>1, <2>2, <2>5, <3>1, <3>2, LineStep
  <2> QED BY <1>2, <2>3, <2>4, <2>5 DEF SetReg
<1> QED BY <1>1, <1>2

\* A reset forgets what waits, then mutes.
LEMMA ResetTells ==
  ASSUME PicOK, ResetChip \/ ResetMutes \/ ResetCard
  PROVE  [Line!RlNext]_Line!rlvars
<1>0. PicRingOK(evring) /\ card \in CardSet /\ opnif \in OpnifSet
  BY DEF PicOK, PicTyped
<1>1. CASE ResetChip
  <2>1. /\ opnif.at = "idle" /\ opnif.chip /\ UNCHANGED <<setter, pic>>
        /\ \/ pic.kind = "scci" /\ evring' = evring
           \/ pic.kind # "scci" /\ evring' = [evring EXCEPT !.read = 0, !.write = 0]
        /\ \/ pic.kind = "romeo" /\ opnif' = [opnif EXCEPT !.at = "muting", !.mute = Begin] /\ card' = card
           \/ pic.kind # "romeo" /\ opnif' = opnif /\ card' = [card EXCEPT !.last = NoRegister]
    BY <1>1 DEF ResetChip, Emptied
  <2>2. opnif'.chip = opnif.chip
    BY <1>0, <2>1 DEF OpnifSet
  <2>3. Way' = Way
    BY <2>1, <2>2 DEF Way, LetGo
  <2>4. card'.last = IF pic.kind = "romeo" THEN card.last ELSE NoRegister
    BY <1>0, <2>1 DEF CardSet
  <2>5. pic.kind # "scci" => Contents(evring') = <<>>
    <3>1. 0 \in 0 .. RingEntries - 1
      BY PicAssumption DEF PicAssumption
    <3>2. pic.kind # "scci" => PicRingOK(evring') /\ evring'.read = evring'.write
      BY <1>0, <2>1, <3>1 DEF PicRingOK
    <3> QED BY <3>2, HeldIs
  <2>6. pic.kind \notin {"romeo", "scci"} => Contents(evring) = <<>>
    BY <1>0, HeldIs DEF PicOK, PicTyped, PicSet, DriverOK, Nobody
  <2> QED BY <2>1, <2>3, <2>4, <2>5, <2>6, LineStep
<1>2. CASE ResetMutes
  <2>1. /\ opnif.at = "muting" /\ ~AllMuted(opnif.mute) /\ card' = MutedCard(opnif.mute) /\ pic.kind = "romeo"
        /\ opnif' = [opnif EXCEPT !.mute = MoreMuted(opnif.mute)] /\ UNCHANGED <<setter, pic, evring>>
        /\ MuteOK(opnif.mute)
    BY <1>2 DEF ResetMutes, PicOK, PicTyped, WholeWrites
  <2>2. opnif'.chip = opnif.chip
    BY <1>0, <2>1 DEF OpnifSet
  <2>3. Way' = Way /\ (Way = "mixed" <=> LetGo)
    BY <2>1, <2>2 DEF Way, LetGo
  <2>4. CASE opnif.mute.half
    <3>1. card' = [card EXCEPT !.last = card.latch] /\ MuteRegs[opnif.mute.i] \in Muted
      BY <2>1, <2>4, MuteStepOK DEF PicOK
    <3>2. card'.last = card.latch /\ card.latch \in PicRegisters
      BY <1>0, <3>1 DEF CardSet
    <3>3. ~LetGo => Contents(evring) = <<>> /\ card'.last \in Muted
      BY <1>0, <2>1, <2>4, <3>1, <3>2, HeldIs DEF PicOK, WholeWrites, Nobody
    <3> QED BY <2>1, <2>3, <3>2, <3>3, LineStep
  <2>5. CASE ~opnif.mute.half
    <3>1. card' = [card EXCEPT !.latch = MuteRegs[opnif.mute.i]]
      BY <2>1, <2>5, MuteStepOK DEF PicOK
    <3>2. card'.last = card.last
      BY <1>0, <3>1 DEF CardSet
    <3> QED BY <2>1, <3>2, LineStays
  <2> QED BY <2>4, <2>5
<1>3. CASE ResetCard
  <2>1. /\ card' = [card EXCEPT !.last = NoRegister] /\ opnif' = [opnif EXCEPT !.at = "idle"]
        /\ UNCHANGED <<setter, pic, evring>>
    BY <1>3 DEF ResetCard, WriteDone
  <2>2. card'.last = NoRegister /\ opnif'.chip = opnif.chip
    BY <1>0, <2>1 DEF CardSet, OpnifSet
  <2>3. Way' = Way
    BY <2>1, <2>2 DEF Way, LetGo
  <2> QED BY <2>1, <2>2, <2>3, LineStep
<1> QED BY <1>1, <1>2, <1>3

\* The thread passes on the first of the line.
LEMMA SenderTells ==
  ASSUME PicOK, SendDue \/ SendData
  PROVE  [Line!RlNext]_Line!rlvars
<1>0. PicRingOK(evring) /\ card \in CardSet
  BY DEF PicOK, PicTyped
<1>1. CASE SendDue /\ pic.kind = "romeo"
  <2>1. evring' = evring /\ card' = [card EXCEPT !.latch = Top]
    BY <1>1 DEF SendDue
  <2>2. card'.last = card.last
    BY <1>0, <2>1 DEF CardSet
  <2> QED BY <2>1, <2>2, LineStays
<1>2. CASE SendData \/ (SendDue /\ pic.kind # "romeo")
  <2>1. /\ evring.read # evring.write /\ evring' = [evring EXCEPT !.read = After(@)] /\ UNCHANGED <<opnif, setter, pic>>
        /\ \/ pic.kind = "romeo" /\ sender = "writing" /\ card' = [card EXCEPT !.last = card.latch]
           \/ pic.kind # "romeo" /\ card' = [card EXCEPT !.last = Top]
    BY <1>2 DEF SendDue, SendData, Popped, PicOK, WholeWrites
  <2>2. pic.kind # "gimic"
    BY <2>1 DEF PicOK, DriverOK, Nobody
  <2>3. Way' = Way /\ Way # "direct" /\ (Way = "queued" => ~LetGo)
    BY <2>1, <2>2 DEF Way, LetGo
  <2>4. Contents(evring) # <<>> /\ Head(Contents(evring)) = Top /\ Contents(evring') = Tail(Contents(evring))
    BY <1>0, <2>1, PoppedIs DEF Top
  <2>5. card'.last \in PicRegisters /\ (Way = "queued" => card'.last = Top)
    <3>1. Top \in PicRegisters
      BY <1>0 DEF Top, PicRingOK
    <3>2. pic.kind = "romeo" /\ ~LetGo => card.latch = Top
      BY <2>1 DEF PicOK, WholeWrites
    <3> QED BY <1>0, <2>1, <2>3, <3>1, <3>2 DEF CardSet
  <2> QED BY <2>3, <2>4, <2>5, LineStep
<1> QED BY <1>1, <1>2

\* HeardAsTold: however the machine, the settings and the thread of win32/romeo/piccolo.cpp
\* interleave, what is told comes to the chip in order, once and to its own register, and a
\* mute never between.
THEOREM ChipHearsAsTold == PicSpec => HeardAsTold
<1>1. PicInit => PicOK
  BY PicInitOK
<1>2. PicOK /\ [PicNext]_picvars => PicOK'
  BY PicNextOK
<1>3. PicInit => Line!RlInit
  <2> SUFFICES ASSUME PicInit PROVE Line!RlInit
    OBVIOUS
  <2>1. PicRingOK(evring) /\ evring.read = evring.write
    BY PicInitOK DEF PicOK, PicTyped, PicInit
  <2>2. Contents(evring) = <<>>
    BY <2>1, HeldIs
  <2> QED BY <2>2 DEF Line!RlInit, PicInit, Way, LetGo, NoPiccolo
<1>4. PicOK /\ [PicNext]_picvars => [Line!RlNext]_Line!rlvars
  <2>1. PicOK /\ PicNext => [Line!RlNext]_Line!rlvars
    BY SettingsTell, MachineTells, ResetTells, SenderTells DEF PicNext
  <2>2. UNCHANGED picvars => [Line!RlNext]_Line!rlvars
    BY LineStays DEF picvars
  <2> QED BY <2>1, <2>2
<1> QED BY <1>1, <1>2, <1>3, <1>4, PTL DEF PicSpec, HeardAsTold, Line!RlSpec
====

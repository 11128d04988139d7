---- MODULE MemoryProofs ----
(***************************************************************************)
(* Proofs about MemoryManager, for any number of devices and of pages: the *)
(* lists keep naming the first claimant of each page, and the page table   *)
(* its owner and its pointer.  And about Memory, for whatever programs     *)
(* write to the ports and whichever ROMs there are: each region shows the  *)
(* bank that the ports ask for, and a snapshot brings the banks back.      *)
(*                                                                         *)
(* The state of Memory is one record m.  An Update function is described   *)
(* by Keeps(m, q, S, R), the fields S and the regions R it may change, and *)
(* by the banks it leaves there; a port is then proved to keep MemoryOK    *)
(* from what the Update functions it calls are known to do.                *)
(***************************************************************************)
EXTENDS Memory, MemoryManager, TLAPS

\* The second half of OwnersAnswer needs that claimants are connected.
Types ==
  /\ inst \in [Pid -> Owners \union {Founder, NoOwner}]
  /\ priority \in [Page -> [Pid -> Pid]]
  /\ claims \in [Page -> SUBSET Pid]
  /\ DOMAIN table = Page
  /\ DOMAIN local = Pid /\ \A q \in Pid : DOMAIN local[q] = Page
ClaimantsPresent ==
  /\ inst[Lowest] # NoOwner
  /\ \A p \in Page, q \in Pid : q \in claims[p] => inst[q] # NoOwner
MmInv == Types /\ PrioritiesKept /\ ClaimantsPresent /\ OwnersAnswer

\* IsFirst for one page's list and the set of its claimants.
NamesFirst(list, set) ==
  \A i \in Pid : /\ list[i] \in i..Lowest /\ list[i] \in set \union {Lowest}
                 /\ \A j \in i..(list[i] - 1) : j \notin set

LEMMA DeviceNumbers ==
  /\ Lowest \in Pid /\ 0 \in Pid /\ Lowest \in Nat \ {0}
  /\ \A i \in Pid : i \in Nat /\ i <= Lowest
  BY DevicesAssumption DEF Lowest, Pid

\* What a claim does to one page's list: the claimant comes first for itself and
\* all devices above that nobody claims for first.
LEMMA ClaimedFirst ==
  ASSUME NEW list \in [Pid -> Pid], NEW set \in SUBSET Pid, NEW pid \in Pid,
         NamesFirst(list, set)
  PROVE  Claimed(list, pid) \in [Pid -> Pid] /\ NamesFirst(Claimed(list, pid), set \union {pid})
<1> USE DEF NamesFirst
<1>1. ASSUME NEW i \in Pid
      PROVE  /\ Claimed(list, pid)[i] \in i..Lowest
             /\ Claimed(list, pid)[i] \in set \union {pid} \union {Lowest}
             /\ \A j \in i..(Claimed(list, pid)[i] - 1) : j \notin set \union {pid}
  <2>1. CASE i <= pid /\ \A j \in i..pid : list[j] > pid
    <3>1. Claimed(list, pid)[i] = pid
      BY <2>1 DEF Claimed
    <3>2. \A j \in i..(pid - 1) : j \notin set
      BY <2>1, DeviceNumbers DEF Pid
    <3>3. \A j \in i..(pid - 1) : j # pid
      BY DeviceNumbers
    <3>. QED
      BY <2>1, <3>1, <3>2, <3>3, DeviceNumbers
  <2>2. CASE i <= pid /\ \E j \in i..pid : list[j] <= pid
    <3>1. Claimed(list, pid)[i] = list[i]
      BY <2>2, DeviceNumbers DEF Claimed, Pid
    <3>2. PICK j \in i..pid : list[j] <= pid
      BY <2>2
    <3>3. j \in Pid /\ j >= i
      BY DeviceNumbers DEF Pid
    <3>4. list[i] <= pid
      <4>1. CASE list[i] <= j
        BY <4>1, <3>3, DeviceNumbers DEF Pid
      <4>2. CASE list[i] > j
        <5>1. list[j] \notin i..(list[i] - 1) \/ list[j] \notin set
          OBVIOUS
        <5>2. list[j] \in j..Lowest
          BY <3>3
        <5>3. list[j] \in set \/ list[j] = Lowest
          BY <3>3
        <5>4. list[i] \in i..Lowest
          OBVIOUS
        <5>. QED
          BY <3>2, <3>3, <4>2, <5>1, <5>2, <5>3, <5>4, DeviceNumbers, SMTT(30) DEF Pid
      <4>. QED
        BY <4>1, <4>2, <3>3, DeviceNumbers DEF Pid
    <3>. QED
      BY <3>1, <3>4, DeviceNumbers DEF Pid
  <2>3. CASE i > pid
    <3>1. Claimed(list, pid)[i] = list[i]
      BY <2>3, DeviceNumbers DEF Claimed, Pid
    <3>. QED
      BY <3>1, <2>3, DeviceNumbers DEF Pid
  <2>. QED
    BY <2>1, <2>2, <2>3, DeviceNumbers DEF Pid
<1>. QED
  BY <1>1, DeviceNumbers DEF Claimed, Pid

\* What a release does to it: the claimants below take over.
LEMMA YieldedFirst ==
  ASSUME NEW list \in [Pid -> Pid], NEW set \in SUBSET Pid, NEW pid \in Pid, pid # Lowest, list[pid] = pid,
         NamesFirst(list, set)
  PROVE  Yielded(list, pid) \in [Pid -> Pid] /\ NamesFirst(Yielded(list, pid), set \ {pid})
<1> USE DEF NamesFirst
<1>1. pid + 1 \in Pid /\ pid \in set
  BY DeviceNumbers DEF Pid, Lowest
<1>2. ASSUME NEW i \in Pid, i <= pid
      PROVE  (\A j \in i..pid : list[j] >= pid) <=> list[i] = pid
  <2>1. list[i] <= pid
    BY <1>1, <1>2, DeviceNumbers DEF Pid
  <2>2. ASSUME list[i] = pid, NEW j \in i..pid PROVE list[j] >= pid
    <3>1. j \in Pid
      BY DeviceNumbers DEF Pid
    <3>2. list[j] \in set \/ list[j] = Lowest
      BY <3>1
    <3>3. list[j] \in j..Lowest
      BY <3>1
    <3>4. \A k \in i..(pid - 1) : k \notin set
      BY <2>2
    <3>. QED
      BY <3>1, <3>2, <3>3, <3>4, DeviceNumbers DEF Pid
  <2>3. i \in i..pid
    BY <1>2, DeviceNumbers
  <2>. QED
    BY <2>1, <2>2, <2>3, DeviceNumbers DEF Pid
<1>3. ASSUME NEW i \in Pid
      PROVE  Yielded(list, pid)[i] = IF i <= pid /\ list[i] = pid THEN list[pid + 1] ELSE list[i]
  <2>1. CASE i = 0
    BY <2>1, DeviceNumbers DEF Yielded, Pid
  <2>2. CASE i \in 1..pid
    <3>1. i # 0 /\ i <= pid
      BY <2>2, DeviceNumbers
    <3>2. Yielded(list, pid)[i] = IF \A j \in i..pid : list[j] >= pid THEN list[pid + 1] ELSE list[i]
      BY <2>2, <3>1 DEF Yielded
    <3>. QED
      BY <1>2, <3>1, <3>2
  <2>3. CASE i > pid
    <3>1. i # 0 /\ i \notin 1..pid /\ ~(i <= pid)
      BY <2>3, DeviceNumbers
    <3>. QED
      BY <3>1 DEF Yielded
  <2>. QED
    BY <2>1, <2>2, <2>3, DeviceNumbers
<1>4. ASSUME NEW i \in Pid
      PROVE  /\ Yielded(list, pid)[i] \in i..Lowest
             /\ Yielded(list, pid)[i] \in (set \ {pid}) \union {Lowest}
             /\ \A j \in i..(Yielded(list, pid)[i] - 1) : j \notin set \ {pid}
  <2>1. CASE i <= pid /\ list[i] = pid
    <3>1. Yielded(list, pid)[i] = list[pid + 1]
      BY <1>3, <2>1
    <3>2. list[pid + 1] \in (pid + 1)..Lowest /\ list[pid + 1] \in set \union {Lowest}
      BY <1>1
    <3>3. \A j \in (pid + 1)..(list[pid + 1] - 1) : j \notin set
      BY <1>1
    <3>4. \A j \in i..(pid - 1) : j \notin set
      BY <2>1
    <3>. QED
      BY <2>1, <3>1, <3>2, <3>3, <3>4, DeviceNumbers DEF Pid
  <2>2. CASE ~(i <= pid /\ list[i] = pid)
    <3>1. Yielded(list, pid)[i] = list[i]
      BY <1>3, <2>2
    <3>2. list[i] # pid
      BY <2>2, DeviceNumbers DEF Pid
    <3>. QED
      BY <3>1, <3>2, DeviceNumbers DEF Pid
  <2>. QED
    BY <2>1, <2>2
<1>. QED
  BY <1>1, <1>4, DeviceNumbers DEF Yielded, Pid

\* PrioritiesKept, page by page, in the form of the two lemmas.
LEMMA ListOfPage ==
  ASSUME Types, PrioritiesKept, NEW p \in Page
  PROVE  priority[p] \in [Pid -> Pid] /\ claims[p] \in SUBSET Pid /\ NamesFirst(priority[p], claims[p])
  BY DEF Types, PrioritiesKept, IsFirst, NamesFirst

LEMMA Initially == MmInit => MmInv
<1> SUFFICES ASSUME MmInit PROVE MmInv
  OBVIOUS
<1>1. Types
  BY DeviceNumbers DEF MmInit, Types
<1>2. PrioritiesKept
  BY DeviceNumbers DEF MmInit, PrioritiesKept, IsFirst, Pid
<1>3. ClaimantsPresent
  BY DeviceNumbers, OwnersAssumption DEF MmInit, ClaimantsPresent
<1>4. OwnersAnswer
  BY DeviceNumbers, OwnersAssumption DEF MmInit, OwnersAnswer
<1>. QED
  BY <1>1, <1>2, <1>3, <1>4 DEF MmInv

\* The owner of a page is connected.
LEMMA OwnerPresent ==
  ASSUME MmInv, NEW p \in Page
  PROVE  priority[p][0] \in Pid /\ inst[priority[p][0]] # NoOwner
  BY ListOfPage, DeviceNumbers DEF MmInv, ClaimantsPresent, NamesFirst

\* A device that comes takes a slot nobody has, so that no page is affected.
LEMMA ConnectKeeps ==
  ASSUME MmInv, NEW owner \in Owners, NEW high \in BOOLEAN, Connect(owner, high)
  PROVE  MmInv'
<1>1. PICK k \in 1..Lowest :
        LET pid == Searched(high)[k]
        IN /\ inst[pid] = NoOwner
           /\ inst' = [inst EXCEPT ![pid] = owner]
           /\ local' = [local EXCEPT ![pid] = [p \in Page |-> [local[pid][p] EXCEPT !.ptr = NullPointer]]]
           /\ UNCHANGED <<priority, table, claims>>
  BY DEF Connect
<1> DEFINE pid == Searched(high)[k]
<1>2. pid \in Pid
  BY DevicesAssumption DEF Searched, Pid, Lowest
<1>3. Types'
  BY <1>1, <1>2 DEF MmInv, Types
<1>4. PrioritiesKept'
  BY <1>1 DEF MmInv, PrioritiesKept, IsFirst
<1>5. owner # NoOwner
  BY OwnersAssumption
<1>6. ClaimantsPresent'
  BY <1>1, <1>2, <1>5, DeviceNumbers DEF MmInv, Types, ClaimantsPresent
<1>7. ASSUME NEW p \in Page PROVE priority[p][0] \in Pid \ {pid}
  BY <1>1, OwnerPresent
<1>8. OwnersAnswer'
  BY <1>1, <1>2, <1>7 DEF MmInv, Types, OwnersAnswer
<1>. QED
  BY <1>3, <1>4, <1>6, <1>8 DEF MmInv

LEMMA AllocKeeps ==
  ASSUME MmInv, NEW pid \in Pid, NEW pages, NEW ptr, NEW func, Alloc(pid, pages, ptr, func)
  PROVE  MmInv'
<1>1. ASSUME NEW p \in Page, p \in pages
      PROVE  /\ priority'[p] = Claimed(priority[p], pid)
             /\ claims'[p] = claims[p] \union {pid}
  BY <1>1 DEF Alloc
<1>2. ASSUME NEW p \in Page, p \notin pages
      PROVE  priority'[p] = priority[p] /\ claims'[p] = claims[p]
  BY <1>2 DEF Alloc
<1>3. ASSUME NEW p \in Page, p \in pages
      PROVE  /\ Claimed(priority[p], pid) \in [Pid -> Pid]
             /\ NamesFirst(Claimed(priority[p], pid), claims[p] \union {pid})
  <2>1. MmInv => Types /\ PrioritiesKept
    BY DEF MmInv
  <2>. QED
    BY <2>1, ListOfPage, ClaimedFirst
<1>4. Types'
  <2>1. \A p \in Page : priority'[p] \in [Pid -> Pid] /\ claims'[p] \in SUBSET Pid
    <3> SUFFICES ASSUME NEW p \in Page PROVE priority'[p] \in [Pid -> Pid] /\ claims'[p] \in SUBSET Pid
      OBVIOUS
    <3>1. CASE p \in pages
      <4>1. priority'[p] \in [Pid -> Pid]
        BY <1>1, <1>3, <3>1
      <4>2. claims[p] \in SUBSET Pid
        BY DEF MmInv, Types
      <4>. QED
        BY <1>1, <3>1, <4>1, <4>2
    <3>2. CASE p \notin pages
      BY <1>2, <3>2 DEF MmInv, Types
    <3>. QED
      BY <3>1, <3>2
  <2>. QED
    BY <2>1 DEF MmInv, Types, Alloc
<1>5. PrioritiesKept'
  BY <1>1, <1>2, <1>3 DEF MmInv, PrioritiesKept, IsFirst, NamesFirst
<1>6. ClaimantsPresent'
  BY <1>1, <1>2, DeviceNumbers DEF MmInv, ClaimantsPresent, Alloc
<1>7. OwnersAnswer'
  <2> SUFFICES ASSUME NEW p \in Page
               PROVE  /\ table'[p].inst = inst'[priority'[p][0]] /\ table'[p].inst # NoOwner
                      /\ table'[p].ptr = local'[priority'[p][0]][p].ptr
    BY DEF OwnersAnswer
  <2>1. priority'[p][0] \in Pid
    BY <1>4, DeviceNumbers DEF Types
  <2>2. CASE p \in pages /\ priority'[p][0] = pid
    BY <2>2, DeviceNumbers DEF Alloc, MmInv, Types
  <2>3. CASE ~(p \in pages /\ priority'[p][0] = pid)
    <3>1. table'[p] = table[p] /\ inst' = inst
      BY <2>3 DEF Alloc
    <3>2. priority'[p][0] = priority[p][0]
      BY <1>1, <1>2, <2>3, DeviceNumbers DEF Claimed
    <3>3. local'[priority[p][0]][p] = local[priority[p][0]][p]
      BY <2>1, <2>3, <3>2 DEF Alloc, MmInv, Types
    <3>. QED
      BY <3>1, <3>2, <3>3 DEF MmInv, OwnersAnswer
  <2>. QED
    BY <2>2, <2>3
<1>. QED
  BY <1>4, <1>5, <1>6, <1>7 DEF MmInv

\* A device that gives up pages, and the one that leaves for good.
LEMMA ReleaseKeeps ==
  ASSUME MmInv, NEW pid \in Pid, NEW pages, Release(pid, pages),
         \/ inst' = inst
         \/ Page \subseteq pages /\ inst' = [inst EXCEPT ![pid] = NoOwner]
  PROVE  MmInv'
<1>1. ASSUME NEW p \in Page, p \in pages
      PROVE  /\ priority'[p] = IF priority[p][pid] = pid THEN Yielded(priority[p], pid) ELSE priority[p]
             /\ claims'[p] = claims[p] \ {pid}
  BY <1>1 DEF Release
<1>2. ASSUME NEW p \in Page, p \notin pages
      PROVE  priority'[p] = priority[p] /\ claims'[p] = claims[p]
  BY <1>2 DEF Release
<1>3. pid # Lowest
  BY DEF Release
<1>4. ASSUME NEW p \in Page, p \in pages
      PROVE  /\ priority'[p] \in [Pid -> Pid]
             /\ NamesFirst(priority'[p], claims[p] \ {pid})
  <2>1. Types /\ PrioritiesKept
    BY DEF MmInv
  <2>2. CASE priority[p][pid] = pid
    BY <1>1, <1>3, <1>4, <2>1, <2>2, ListOfPage, YieldedFirst
  <2>3. CASE priority[p][pid] # pid
    <3>1. pid \notin claims[p]
      BY <2>1, <2>3, ListOfPage, DeviceNumbers DEF Pid, NamesFirst
    <3>2. priority'[p] = priority[p] /\ claims[p] \ {pid} = claims[p]
      BY <1>1, <1>4, <2>3, <3>1
    <3>. QED
      BY <2>1, <3>2, ListOfPage
  <2>. QED
    BY <2>2, <2>3
<1>5. Types'
  <2>1. \A p \in Page : priority'[p] \in [Pid -> Pid] /\ claims'[p] \in SUBSET Pid
    <3> SUFFICES ASSUME NEW p \in Page PROVE priority'[p] \in [Pid -> Pid] /\ claims'[p] \in SUBSET Pid
      OBVIOUS
    <3>1. CASE p \in pages
      <4>1. priority'[p] \in [Pid -> Pid]
        BY <1>1, <1>4, <3>1
      <4>2. claims[p] \in SUBSET Pid
        BY DEF MmInv, Types
      <4>. QED
        BY <1>1, <3>1, <4>1, <4>2
    <3>2. CASE p \notin pages
      BY <1>2, <3>2 DEF MmInv, Types
    <3>. QED
      BY <3>1, <3>2
  <2>2. inst' \in [Pid -> Owners \union {Founder, NoOwner}]
    BY DEF MmInv, Types
  <2>. QED
    BY <2>1, <2>2 DEF MmInv, Types, Release
<1>6. PrioritiesKept'
  BY <1>1, <1>2, <1>4 DEF MmInv, PrioritiesKept, IsFirst, NamesFirst
<1>7. ClaimantsPresent'
  <2>1. inst'[Lowest] # NoOwner
    BY <1>3, DeviceNumbers DEF MmInv, Types, ClaimantsPresent
  <2>2. ASSUME NEW p \in Page, NEW q \in Pid, q \in claims'[p] PROVE inst'[q] # NoOwner
    <3>1. q \in claims[p]
      BY <1>1, <1>2, <2>2
    <3>2. inst' # inst => q # pid
      BY <1>1, <2>2
    <3>. QED
      BY <3>1, <3>2 DEF MmInv, Types, ClaimantsPresent
  <2>. QED
    BY <2>1, <2>2 DEF ClaimantsPresent
<1>8. OwnersAnswer'
  <2> SUFFICES ASSUME NEW p \in Page
               PROVE  /\ table'[p].inst = inst'[priority'[p][0]] /\ table'[p].inst # NoOwner
                      /\ table'[p].ptr = local'[priority'[p][0]][p].ptr
    BY DEF OwnersAnswer
  <2> DEFINE top == priority'[p][0]
  <2>1. top \in Pid /\ top \in claims'[p] \union {Lowest}
    BY <1>5, <1>6, DeviceNumbers DEF Types, PrioritiesKept, IsFirst
  <2>2. inst'[top] # NoOwner
    BY <1>7, <2>1 DEF ClaimantsPresent
  <2>3. CASE p \in pages /\ priority[p][pid] = pid /\ priority[p][0] = pid
    <3>1. top = priority[p][pid + 1]
      BY <1>1, <2>3, DeviceNumbers DEF Yielded
    <3>2. top # pid
      BY <1>1, <1>3, <2>1, <2>3
    <3>3. table'[p] = [inst |-> inst[top], ptr |-> local[top][p].ptr, func |-> table[p].func]
      BY <2>3, <3>1 DEF Release, Left
    <3>4. inst'[top] = inst[top] /\ local'[top] = local[top]
      BY <2>1, <3>2 DEF Release, MmInv, Types
    <3>. QED
      BY <2>2, <3>3, <3>4
  <2>4. CASE p \in pages /\ ~(priority[p][pid] = pid /\ priority[p][0] = pid)
    <3>1. priority[p][0] # pid
      <4>1. Types /\ PrioritiesKept
        BY DEF MmInv
      <4>2. priority[p][0] = pid => pid \in claims[p]
        BY <4>1, <1>3, ListOfPage, DeviceNumbers DEF NamesFirst
      <4>3. pid \in claims[p] => priority[p][pid] = pid
        BY <4>1, ListOfPage, DeviceNumbers DEF Pid, NamesFirst
      <4>. QED
        BY <2>4, <4>2, <4>3
    <3>2. top = priority[p][0]
      <4>1. CASE priority[p][pid] # pid
        BY <1>1, <2>4, <4>1
      <4>2. CASE priority[p][pid] = pid
        <5>1. 0 \in Pid /\ 0 \notin 1..pid
          BY DeviceNumbers
        <5>. QED
          BY <1>1, <2>4, <3>1, <4>2, <5>1 DEF Yielded
      <4>. QED
        BY <4>1, <4>2
    <3>3. table'[p] = table[p]
      BY <2>4 DEF Release, Left
    <3>4. inst'[top] = inst[top] /\ local'[top] = local[top]
      BY <2>1, <3>1, <3>2 DEF Release, MmInv, Types
    <3>. QED
      BY <3>2, <3>3, <3>4 DEF MmInv, OwnersAnswer
  <2>5. CASE p \notin pages
    <3>1. top = priority[p][0] /\ table'[p] = table[p] /\ inst' = inst
      BY <1>2, <2>5 DEF Release
    <3>2. local'[top][p].ptr = local[top][p].ptr
      BY <2>1, <2>5 DEF Release, MmInv, Types
    <3>. QED
      BY <3>1, <3>2 DEF MmInv, OwnersAnswer
  <2>. QED
    BY <2>3, <2>4, <2>5
<1>. QED
  BY <1>5, <1>6, <1>7, <1>8 DEF MmInv

LEMMA StepKeeps == MmInv /\ [MmNext]_mmvars => MmInv'
<1> SUFFICES ASSUME MmInv, [MmNext]_mmvars PROVE MmInv'
  OBVIOUS
<1>1. CASE \E owner \in Owners, high \in BOOLEAN : Connect(owner, high)
  BY <1>1, ConnectKeeps
<1>2. CASE \E pid \in Pid, s \in Spans, ptr \in Pointers, func \in BOOLEAN :
             Alloc(pid, Touched(s.addr, s.length), ptr, func)
  BY <1>2, AllocKeeps
<1>3. CASE \E pid \in Pid, s \in Spans : Release(pid, Touched(s.addr, s.length)) /\ UNCHANGED inst
  BY <1>3, ReleaseKeeps
<1>4. ASSUME NEW pid \in Pid, MmDisconnect(pid) PROVE MmInv'
  BY <1>4, ReleaseKeeps DEF MmDisconnect
<1>5. CASE \E pid \in Pid : MmDisconnect(pid)
  BY <1>4, <1>5
<1>6. CASE \E owner \in Owners : DisconnectOwner(owner)
  BY <1>4, <1>6 DEF DisconnectOwner
<1>7. CASE UNCHANGED mmvars
  BY <1>7 DEF mmvars, MmInv, Types, PrioritiesKept, IsFirst, ClaimantsPresent, OwnersAnswer
<1>. QED
  BY <1>1, <1>2, <1>3, <1>5, <1>6, <1>7 DEF MmNext

\* Whatever devices claim and release, each page's list names its claimants in
\* the order of their rank (Alloc and Release of memory_manager.h).
THEOREM ListsKept == MmSpec => []PrioritiesKept
<1>1. MmInv => PrioritiesKept
  BY DEF MmInv
<1>. QED
  BY Initially, StepKeeps, <1>1, PTL DEF MmSpec

\* The page table shows, for each page, the object and the pointer of the first
\* claimant, which is connected.
THEOREM TableKept == MmSpec => []OwnersAnswer
<1>1. MmInv => OwnersAnswer
  BY DEF MmInv
<1>. QED
  BY Initially, StepKeeps, <1>1, PTL DEF MmSpec

\* Both: whatever devices claim, release and leave, every access of the CPU or of
\* a device (Read8, Read8P and the others) meets the first claimant it should meet.
THEOREM MmIsCorrect == MmSpec => []MmCorrect
<1>1. MmInv => MmCorrect
  BY DEF MmInv, MmCorrect
<1>. QED
  BY Initially, StepKeeps, <1>1, PTL DEF MmSpec

-----------------------------------------------------------------------------
(* Bank switching: what the regions show is what the ports ask for.          *)

Fields ==
  {"p31", "p32", "p33", "p34", "p35", "p40", "p5x", "p70", "p71", "p99", "e2", "e3", "f0", "sw31",
   "mode", "n80mode", "n80sr", "seldic", "selgvram", "enablewait", "waitmode", "waittype", "waits",
   "banks", "neweram", "r00", "r60", "w00", "rc0", "rd", "wr", "gvram",
   "alureg", "dirty"}

\* The low regions, of either mode, and what the memory manager was told of them.
LowRd00(m) == IF m.n80mode THEN N80Rd00(m) ELSE Rd00(m)
LowRd60(m) == IF m.n80mode THEN N80Rd60(m) ELSE Rd60(m)
LowWr(m) == IF m.n80mode THEN N80Wr00(m) ELSE Wr00(m)
LowOK(m) ==
  /\ m.rd["00"] = LowRd00(m) /\ m.r00 = LowRd00(m)
  /\ m.rd["60"] = LowRd60(m) /\ m.r60 = LowRd60(m)
  /\ m.wr["00"] = LowWr(m) /\ m.wr["60"] = LowWr(m) /\ m.w00 = LowWr(m)

\* The text window of the N88 modes.
MidOK(m) ==
  /\ m.rd["80"] = Bank80(m) /\ m.wr["80"] = Bank80(m)
  /\ m.rd["84"] = RAM /\ m.wr["84"] = RAM

\* Graphics memory is selected, in the one and in the other kind of mode.
Chosen(m) == (6 \in m.p32 /\ 7 \in m.p35) \/ (6 \notin m.p32 /\ m.p5x < 3)
ChosenN80(m) == (6 \in m.p33 /\ 7 \in m.p35) \/ (6 \notin m.p33 /\ m.p5x < 3)

\* Whatever rc0 remembers is what is there.
HighTold(m) ==
  m.rc0 \in {Neither, RAM, m.rd["C0"]} /\ (m.rc0 = RAM => m.rd["C0"] = RAM) /\ (m.rc0 \notin {Neither, RAM} => m.rd["F0"] = m.rc0)
HighRd(m, r) == IF m.seldic THEN Jisyo(m) ELSE GetHiBank(m, r)
HighWr(m, r) == IF 6 \in m.p32 /\ 7 \in m.p35 THEN <<"ALU", ALUFunction(m)>> ELSE GetHiBank(m, r)
HighC0(m) ==
  /\ m.selgvram <=> Chosen(m)
  /\ m.rd["C0"] = HighRd(m, "C0") /\ m.wr["C0"] = HighWr(m, "C0")
  /\ HighTold(m)
HighF0(m) == m.rd["F0"] = HighRd(m, "F0") /\ (~m.seldic => m.wr["F0"] = HighWr(m, "F0"))

GraphicsN80(m, alu) ==
  IF 6 \in m.p33 /\ 7 \in m.p35 THEN <<"ALU", alu>> ELSE IF 6 \notin m.p33 /\ m.p5x < 3 THEN <<"GVRAM", m.p5x>> ELSE RAM
N80OK(m) ==
  /\ m.selgvram <=> ChosenN80(m)
  /\ m.rd["84"] = GraphicsN80(m, 0) /\ m.wr["84"] = GraphicsN80(m, ALUFunction(m))

\* The N80 modes have nothing but RAM above.
Upper == {"C0", "F0"}
UpperPlain(m) == \A r \in Upper : m.rd[r] = RAM /\ m.wr[r] = RAM

\* The dictionary and the CD BIOS are selected only if they are there.
RomsThere(m) == (m.seldic => "Jisyo" \in Has) /\ ("CDBIOS" \in Has \/ m.p99 = {})
MemTypeOK(m) ==
  /\ DOMAIN m = Fields
  /\ m.n80mode \in BOOLEAN /\ m.seldic \in BOOLEAN /\ m.selgvram \in BOOLEAN

MemoryOK(m) ==
  /\ MemTypeOK(m) /\ RomsThere(m) /\ LowOK(m)
  /\ m.n80mode => N80OK(m) /\ UpperPlain(m)
  /\ ~m.n80mode => MidOK(m) /\ HighC0(m) /\ HighF0(m)

\* A step of the program touches the fields S, and the banks of the regions R.
Keeps(m, q, S, R) ==
  /\ DOMAIN q = DOMAIN m
  /\ \A f \in DOMAIN m \ (S \union {"rd", "wr"}) : q[f] = m[f]
  /\ \A r \in RegionIds \ R : q.rd[r] = m.rd[r] /\ q.wr[r] = m.wr[r]

LEMMA KeepsMore ==
  ASSUME NEW m, NEW q, NEW S, NEW T, NEW R, NEW Q, Keeps(m, q, S, R), S \subseteq T, R \subseteq Q
  PROVE  Keeps(m, q, T, Q)
BY DEF Keeps

LEMMA KeepsThen ==
  ASSUME NEW m, NEW p, NEW q, NEW S, NEW R, Keeps(m, p, S, R), Keeps(p, q, S, R)
  PROVE  Keeps(m, q, S, R)
BY DEF Keeps

LEMMA KeepsSelf == ASSUME NEW m, NEW S, NEW R PROVE Keeps(m, m, S, R)
BY DEF Keeps

LEMMA AllocIs ==
  ASSUME NEW m, DOMAIN m = Fields, NEW R \in SUBSET RegionIds, NEW bank
  PROVE  /\ Keeps(m, AllocRd(m, R, bank), {}, R) /\ AllocRd(m, R, bank).wr = m.wr
         /\ Keeps(m, AllocWr(m, R, bank), {}, R) /\ AllocWr(m, R, bank).rd = m.rd
         /\ \A r \in R : AllocRd(m, R, bank).rd[r] = bank /\ AllocWr(m, R, bank).wr[r] = bank
BY DEF Keeps, AllocRd, AllocWr, Mapped, Fields

LEMMA AllocRWIs ==
  ASSUME NEW m, DOMAIN m = Fields, NEW R \in SUBSET RegionIds, NEW bank
  PROVE  /\ Keeps(m, AllocRW(m, R, bank), {}, R)
         /\ \A r \in R : AllocRW(m, R, bank).rd[r] = bank /\ AllocRW(m, R, bank).wr[r] = bank
BY DEF Keeps, AllocRW, AllocRd, AllocWr, Mapped, Fields

\* The memory manager is told of a bank unless it has been.
LEMMA ToldRdIs ==
  ASSUME NEW m, DOMAIN m = Fields, NEW cache \in {"r00", "r60", "rc0"}, NEW R \in SUBSET RegionIds, NEW bank,
         bank # Neither, m[cache] = Neither \/ \A r \in R : m.rd[r] = m[cache]
  PROVE  LET q == ToldRd(m, cache, R, bank)
         IN /\ Keeps(m, q, {cache}, R) /\ q.wr = m.wr
            /\ q[cache] = bank /\ \A r \in R : q.rd[r] = bank
BY DEF Keeps, ToldRd, AllocRd, Mapped, Fields

LEMMA ToldWr00Is ==
  ASSUME NEW m, DOMAIN m = Fields, NEW bank,
         bank # Neither, m.w00 = Neither \/ \A r \in LowRam : m.wr[r] = m.w00
  PROVE  LET q == ToldWr00(m, bank)
         IN /\ Keeps(m, q, {"w00"}, LowRam) /\ q.rd = m.rd
            /\ q.w00 = bank /\ \A r \in LowRam : q.wr[r] = bank
BY DEF Keeps, ToldWr00, AllocWr, Mapped, Fields, LowRam, RegionIds

\* No bank is the one that stands for none.
LEMMA BanksAreReal ==
  ASSUME NEW m
  PROVE  /\ Rd00(m) # Neither /\ Rd60(m) # Neither /\ Wr00(m) # Neither
         /\ N80Rd00(m) # Neither /\ N80Rd60(m) # Neither /\ N80Wr00(m) # Neither
         /\ Jisyo(m) # Neither /\ RAM # Neither /\ Jisyo(m) # RAM
BY DEF Rd00, Rd60, Wr00, N80Rd00, N80Rd60, N80Wr00, Jisyo, RAM, Neither, Eram, N80V2Rom, N80Rom, Null

-----------------------------------------------------------------------------
(* The Update functions.                                                     *)

LowPorts == {"n80mode", "e2", "e3", "banks", "p31", "p99", "p71", "p32", "p33"}
LowCaches == {"r00", "r60", "w00"}

LEMMA LowDepends ==
  ASSUME NEW m, NEW q, DOMAIN m = Fields, \A f \in LowPorts : q[f] = m[f]
  PROVE  /\ Rd00(q) = Rd00(m) /\ Rd60(q) = Rd60(m) /\ Wr00(q) = Wr00(m)
         /\ N80Rd00(q) = N80Rd00(m) /\ N80Rd60(q) = N80Rd60(m) /\ N80Wr00(q) = N80Wr00(m)
         /\ LowRd00(q) = LowRd00(m) /\ LowRd60(q) = LowRd60(m) /\ LowWr(q) = LowWr(m)
<1>1. /\ q.n80mode = m.n80mode /\ q.e2 = m.e2 /\ q.e3 = m.e3 /\ q.banks = m.banks /\ q.p31 = m.p31
      /\ q.p99 = m.p99 /\ q.p71 = m.p71 /\ q.p32 = m.p32 /\ q.p33 = m.p33
  BY DEF LowPorts
<1>2. Eram(q) = Eram(m) /\ (\A b : EramAt(q, b) <=> EramAt(m, b)) /\ Highest(q) = Highest(m) /\ InternalBank(q) = InternalBank(m)
      /\ (\A b : ExtendedN80(q, b) <=> ExtendedN80(m, b))
  BY <1>1 DEF Eram, EramAt, Highest, InternalBank, ExtendedN80
<1>3. Rd00(q) = Rd00(m)
  BY <1>1, <1>2 DEF Rd00
<1>4. Rd60(q) = Rd60(m)
  BY <1>1, <1>2 DEF Rd60
<1>5. Wr00(q) = Wr00(m) /\ N80Wr00(q) = N80Wr00(m)
  BY <1>1, <1>2 DEF Wr00, N80Wr00
<1>6. N80Rd00(q) = N80Rd00(m)
  BY <1>1, <1>2 DEF N80Rd00
<1>7. N80Rd60(q) = N80Rd60(m)
  BY <1>1, <1>2, <1>6 DEF N80Rd60
<1> QED BY <1>1, <1>3, <1>4, <1>5, <1>6, <1>7 DEF LowRd00, LowRd60, LowWr

\* What is remembered of the low regions is there, or nothing is remembered.
LowTold(m) ==
  /\ m.r00 = Neither \/ m.rd["00"] = m.r00
  /\ m.r60 = Neither \/ m.rd["60"] = m.r60
  /\ m.w00 = Neither \/ (m.wr["00"] = m.w00 /\ m.wr["60"] = m.w00)

LEMMA LowOKTold == ASSUME NEW m, LowOK(m) PROVE LowTold(m)
BY DEF LowOK, LowTold

LEMMA LowUnchanged ==
  ASSUME NEW m, NEW q, DOMAIN m = Fields, LowOK(m), NEW S, NEW R, Keeps(m, q, S, R),
         S \intersect (LowPorts \union LowCaches) = {}, R \intersect LowRam = {}
  PROVE  LowOK(q)
<1>1. \A f \in LowPorts \union LowCaches : f \in Fields /\ q[f] = m[f]
  BY DEF Keeps, LowPorts, LowCaches, Fields
<1>2. \A r \in LowRam : q.rd[r] = m.rd[r] /\ q.wr[r] = m.wr[r]
  BY DEF Keeps, LowRam, RegionIds
<1> QED BY <1>1, <1>2, LowDepends DEF LowOK, LowCaches, LowRam

LEMMA Update00RIs ==
  ASSUME NEW m, DOMAIN m = Fields, LowTold(m)
  PROVE  LET q == Update00R(m)
         IN Keeps(m, q, {"r00"}, {"00"}) /\ q.wr = m.wr /\ q.rd["00"] = Rd00(m) /\ q.r00 = Rd00(m)
BY ToldRdIs, BanksAreReal DEF Update00R, LowTold, RegionIds

LEMMA Update60RIs ==
  ASSUME NEW m, DOMAIN m = Fields, LowTold(m)
  PROVE  LET q == Update60R(m)
         IN Keeps(m, q, {"r60"}, {"60"}) /\ q.wr = m.wr /\ q.rd["60"] = Rd60(m) /\ q.r60 = Rd60(m)
BY ToldRdIs, BanksAreReal DEF Update60R, LowTold, RegionIds

LEMMA Update00WIs ==
  ASSUME NEW m, DOMAIN m = Fields, LowTold(m)
  PROVE  LET q == Update00W(m)
         IN Keeps(m, q, {"w00"}, LowRam) /\ q.rd = m.rd /\ q.w00 = Wr00(m) /\ q.wr["00"] = Wr00(m) /\ q.wr["60"] = Wr00(m)
BY ToldWr00Is, BanksAreReal DEF Update00W, LowTold, LowRam

LEMMA UpdateN80WIs ==
  ASSUME NEW m, DOMAIN m = Fields, LowTold(m)
  PROVE  LET q == UpdateN80W(m)
         IN Keeps(m, q, {"w00"}, LowRam) /\ q.rd = m.rd /\ q.w00 = N80Wr00(m) /\ q.wr["00"] = N80Wr00(m) /\ q.wr["60"] = N80Wr00(m)
BY ToldWr00Is, BanksAreReal DEF UpdateN80W, LowTold, LowRam

LEMMA UpdateN80RIs ==
  ASSUME NEW m, DOMAIN m = Fields, LowTold(m)
  PROVE  LET q == UpdateN80R(m)
         IN /\ Keeps(m, q, {"r00", "r60"}, {"00", "60"}) /\ q.wr = m.wr
            /\ q.rd["00"] = N80Rd00(m) /\ q.r00 = N80Rd00(m) /\ q.rd["60"] = N80Rd60(m) /\ q.r60 = N80Rd60(m)
<1> DEFINE p == ToldRd(m, "r00", {"00"}, N80Rd00(m))
           q == ToldRd(p, "r60", {"60"}, N80Rd60(m))
<1>1. Keeps(m, p, {"r00"}, {"00"}) /\ p.wr = m.wr /\ p.rd["00"] = N80Rd00(m) /\ p.r00 = N80Rd00(m)
  BY ToldRdIs, BanksAreReal DEF LowTold, RegionIds
<1> HIDE DEF p
<1>2. p.r60 = m.r60 /\ p.rd["60"] = m.rd["60"] /\ DOMAIN p = Fields
  BY <1>1 DEF Keeps, Fields, RegionIds
<1>3. Keeps(p, q, {"r60"}, {"60"}) /\ q.wr = p.wr /\ q.rd["60"] = N80Rd60(m) /\ q.r60 = N80Rd60(m)
  BY <1>2, ToldRdIs, BanksAreReal DEF LowTold, RegionIds
<1> HIDE DEF q
<1>4. q.r00 = p.r00 /\ q.rd["00"] = p.rd["00"]
  BY <1>2, <1>3 DEF Keeps, Fields, RegionIds
<1>5. Keeps(m, q, {"r00", "r60"}, {"00", "60"})
  BY <1>1, <1>3, KeepsMore, KeepsThen, SMTT(30)
<1>6. q = UpdateN80R(m)
  BY DEF q, p, UpdateN80R
<1> QED BY <1>1, <1>3, <1>4, <1>5, <1>6

LEMMA TargetsKept ==
  ASSUME NEW m, NEW q, DOMAIN m = Fields, NEW S \in SUBSET (Fields \ LowPorts), NEW R, Keeps(m, q, S, R)
  PROVE  /\ DOMAIN q = Fields /\ q.n80mode = m.n80mode
         /\ Rd00(q) = Rd00(m) /\ Rd60(q) = Rd60(m) /\ Wr00(q) = Wr00(m)
         /\ N80Rd00(q) = N80Rd00(m) /\ N80Rd60(q) = N80Rd60(m) /\ N80Wr00(q) = N80Wr00(m)
<1>1. \A f \in LowPorts : q[f] = m[f]
  BY DEF Keeps, LowPorts, Fields
<1> QED BY <1>1, LowDepends DEF Keeps, LowPorts

\* Both reading regions of the N88 modes, then what is written.
LEMMA Low88Is ==
  ASSUME NEW m, DOMAIN m = Fields, LowTold(m)
  PROVE  LET q == Update60R(Update00R(m))
         IN /\ Keeps(m, q, LowCaches, LowRam) /\ q.wr = m.wr /\ q.w00 = m.w00
            /\ q.rd["00"] = Rd00(m) /\ q.r00 = Rd00(m) /\ q.rd["60"] = Rd60(m) /\ q.r60 = Rd60(m)
<1> DEFINE p == Update00R(m)
           q == Update60R(p)
<1>1. Keeps(m, p, {"r00"}, {"00"}) /\ p.wr = m.wr /\ p.rd["00"] = Rd00(m) /\ p.r00 = Rd00(m)
  BY Update00RIs
<1> HIDE DEF p
<1>2. p.r60 = m.r60 /\ p.rd["60"] = m.rd["60"] /\ DOMAIN p = Fields /\ p.w00 = m.w00
  BY <1>1 DEF Keeps, Fields, RegionIds
<1>3. Rd60(p) = Rd60(m)
  BY <1>1, TargetsKept DEF Fields, LowPorts
<1>4. LowTold(p)
  BY <1>1, <1>2 DEF LowTold
<1>5. Keeps(p, q, {"r60"}, {"60"}) /\ q.wr = p.wr /\ q.rd["60"] = Rd60(m) /\ q.r60 = Rd60(m)
  BY <1>2, <1>3, <1>4, Update60RIs
<1> HIDE DEF q
<1>6. q.r00 = p.r00 /\ q.rd["00"] = p.rd["00"] /\ q.w00 = p.w00
  BY <1>2, <1>5 DEF Keeps, Fields, RegionIds
<1>7. Keeps(m, p, LowCaches, LowRam) /\ Keeps(p, q, LowCaches, LowRam)
  BY <1>1, <1>5 DEF Keeps, LowCaches, LowRam
<1> QED BY <1>1, <1>2, <1>5, <1>6, <1>7, KeepsThen DEF q, p

LEMMA Update80Is ==
  ASSUME NEW m, DOMAIN m = Fields
  PROVE  /\ Keeps(m, Update80(m), {}, {"80"})
         /\ Update80(m).rd["80"] = Bank80(m) /\ Update80(m).wr["80"] = Bank80(m)
BY AllocRWIs DEF Update80, RegionIds

LEMMA LowUpdatedIs ==
  ASSUME NEW m, DOMAIN m = Fields, LowTold(m), m.n80mode \in BOOLEAN
  PROVE  LowOK(LowUpdated(m)) /\ Keeps(m, LowUpdated(m), LowCaches, LowRam)
<1>1. CASE m.n80mode
  <2> DEFINE p == UpdateN80R(m)
             q == UpdateN80W(p)
  <2>1. /\ Keeps(m, p, {"r00", "r60"}, {"00", "60"}) /\ p.wr = m.wr
        /\ p.rd["00"] = N80Rd00(m) /\ p.r00 = N80Rd00(m) /\ p.rd["60"] = N80Rd60(m) /\ p.r60 = N80Rd60(m)
    BY UpdateN80RIs
  <2> HIDE DEF p
  <2>2. LowTold(p)
    BY <2>1 DEF LowTold, Keeps, Fields
  <2>3. DOMAIN p = Fields /\ p.n80mode = m.n80mode /\ N80Wr00(p) = N80Wr00(m) /\ N80Rd00(p) = N80Rd00(m) /\ N80Rd60(p) = N80Rd60(m)
    BY <2>1, TargetsKept DEF Fields, LowPorts
  <2>4. /\ Keeps(p, q, {"w00"}, LowRam) /\ q.rd = p.rd
        /\ q.w00 = N80Wr00(p) /\ q.wr["00"] = N80Wr00(p) /\ q.wr["60"] = N80Wr00(p)
    BY <2>2, <2>3, UpdateN80WIs
  <2> HIDE DEF q
  <2>5. q.n80mode = m.n80mode /\ N80Wr00(q) = N80Wr00(m) /\ N80Rd00(q) = N80Rd00(m) /\ N80Rd60(q) = N80Rd60(m)
    BY <2>3, <2>4, TargetsKept DEF Fields, LowPorts
  <2>6. q.r00 = p.r00 /\ q.r60 = p.r60
    BY <2>3, <2>4 DEF Keeps, Fields
  <2>7. LowOK(q)
    BY <1>1, <2>1, <2>3, <2>4, <2>5, <2>6 DEF LowOK, LowRd00, LowRd60, LowWr
  <2>8. Keeps(m, p, LowCaches, LowRam) /\ Keeps(p, q, LowCaches, LowRam)
    BY <2>1, <2>4 DEF Keeps, LowCaches, LowRam
  <2> QED BY <1>1, <2>7, <2>8, KeepsThen DEF q, p, LowUpdated
<1>2. CASE ~m.n80mode
  <2> DEFINE p == Update60R(Update00R(m))
             q == Update00W(p)
  <2>1. /\ Keeps(m, p, LowCaches, LowRam) /\ p.wr = m.wr /\ p.w00 = m.w00
        /\ p.rd["00"] = Rd00(m) /\ p.r00 = Rd00(m) /\ p.rd["60"] = Rd60(m) /\ p.r60 = Rd60(m)
    BY Low88Is
  <2> HIDE DEF p
  <2>2. LowTold(p)
    BY <2>1 DEF LowTold
  <2>3. DOMAIN p = Fields /\ p.n80mode = m.n80mode /\ Wr00(p) = Wr00(m) /\ Rd00(p) = Rd00(m) /\ Rd60(p) = Rd60(m)
    BY <2>1, TargetsKept DEF Fields, LowPorts, LowCaches
  <2>4. Keeps(p, q, {"w00"}, LowRam) /\ q.rd = p.rd /\ q.w00 = Wr00(p) /\ q.wr["00"] = Wr00(p) /\ q.wr["60"] = Wr00(p)
    BY <2>2, <2>3, Update00WIs
  <2> HIDE DEF q
  <2>5. q.n80mode = m.n80mode /\ Wr00(q) = Wr00(m) /\ Rd00(q) = Rd00(m) /\ Rd60(q) = Rd60(m)
    BY <2>3, <2>4, TargetsKept DEF Fields, LowPorts
  <2>6. q.r00 = p.r00 /\ q.r60 = p.r60
    BY <2>3, <2>4 DEF Keeps, Fields
  <2>7. LowOK(q)
    BY <1>2, <2>1, <2>3, <2>4, <2>5, <2>6 DEF LowOK, LowRd00, LowRd60, LowWr
  <2>8. Keeps(p, q, LowCaches, LowRam)
    BY <2>4 DEF Keeps, LowCaches
  <2> QED BY <1>2, <2>1, <2>7, <2>8, KeepsThen DEF q, p, LowUpdated
<1> QED BY <1>1, <1>2

\* Graphics memory is selected and left.
Waits == {"selgvram", "waittype", "waits"}

LEMMA GraphicsChosenIs ==
  ASSUME NEW m, DOMAIN m = Fields, m.selgvram \in BOOLEAN
  PROVE  LET q == GraphicsChosen(m)
         IN Keeps(m, q, Waits, {}) /\ q.rd = m.rd /\ q.wr = m.wr /\ q.selgvram = TRUE
BY DEF GraphicsChosen, SetWait, Keeps, Fields, Waits

LEMMA NormalRAMIs ==
  ASSUME NEW m, DOMAIN m = Fields, m.selgvram \in BOOLEAN, NEW R \in SUBSET RegionIds
  PROVE  LET q == NormalRAM(m, R)
         IN /\ Keeps(m, q, Waits, R) /\ q.selgvram = FALSE
            /\ m.selgvram => \A r \in R : q.rd[r] = RAM /\ q.wr[r] = RAM
            /\ ~m.selgvram => q = m
<1>1. CASE m.selgvram
  <2> DEFINE p == AllocRW(m, R, RAM)
             q == SetWait([p EXCEPT !.selgvram = FALSE, !.waittype[2] = 0])
  <2>1. Keeps(m, p, {}, R) /\ \A r \in R : p.rd[r] = RAM /\ p.wr[r] = RAM
    BY DEF p, Keeps, AllocRW, AllocRd, AllocWr, Mapped, Fields
  <2> HIDE DEF p
  <2>2. Keeps(p, q, Waits, {}) /\ q.rd = p.rd /\ q.wr = p.wr /\ q.selgvram = FALSE
    BY <2>1 DEF SetWait, Keeps, Fields, Waits
  <2>3. NormalRAM(m, R) = q
    BY <1>1 DEF NormalRAM, p
  <2> HIDE DEF q
  <2>4. Keeps(m, q, Waits, R)
    BY <2>1, <2>2 DEF Keeps
  <2> QED BY <1>1, <2>1, <2>2, <2>3, <2>4
<1>2. CASE ~m.selgvram
  BY <1>2 DEF NormalRAM, Keeps
<1> QED BY <1>1, <1>2

LEMMA SelectJisyoIs ==
  ASSUME NEW m, DOMAIN m = Fields, m.seldic \in BOOLEAN,
         m.rc0 = Jisyo(m) => m.rd["C0"] = Jisyo(m) /\ m.rd["F0"] = Jisyo(m)
  PROVE  LET q == SelectJisyo(m)
         IN /\ Keeps(m, q, {"rc0"}, {"C0", "F0"}) /\ q.wr = m.wr
            /\ m.seldic => q.rc0 = Jisyo(m) /\ q.rd["C0"] = Jisyo(m) /\ q.rd["F0"] = Jisyo(m)
            /\ ~m.seldic => q = m
BY DEF SelectJisyo, AllocRd, Mapped, Keeps, Fields, RegionIds

HighPorts == {"p32", "p35", "p5x", "seldic", "f0", "sw31"}

LEMMA HighDepends ==
  ASSUME NEW m, NEW q, \A f \in HighPorts : q[f] = m[f]
  PROVE  /\ Jisyo(q) = Jisyo(m) /\ (Chosen(q) <=> Chosen(m))
         /\ \A r : GetHiBank(q, r) = GetHiBank(m, r) /\ HighRd(q, r) = HighRd(m, r) /\ HighWr(q, r) = HighWr(m, r)
<1>1. q.p32 = m.p32 /\ q.p35 = m.p35 /\ q.p5x = m.p5x /\ q.seldic = m.seldic /\ q.f0 = m.f0 /\ q.sw31 = m.sw31
  BY DEF HighPorts
<1>2. Jisyo(q) = Jisyo(m) /\ (Chosen(q) <=> Chosen(m)) /\ (TVRAMShown(q) <=> TVRAMShown(m))
  BY <1>1 DEF Jisyo, Chosen, TVRAMShown
<1>3. \A r : GetHiBank(q, r) = GetHiBank(m, r)
  BY <1>1, <1>2 DEF GetHiBank
<1>4. ALUFunction(q) = ALUFunction(m)
  BY <1>1 DEF ALUFunction
<1> QED BY <1>1, <1>2, <1>3, <1>4 DEF HighRd, HighWr

\* UpdateC0 settles C000-EFFF, and F000-FFFF where graphics memory or the dictionary is.
HighFields == {"p5x", "rc0"} \union Waits
HighC0Settled(q) ==
  /\ HighC0(q) /\ q.selgvram \in BOOLEAN
  /\ (q.selgvram \/ q.seldic) => q.rd["F0"] = HighRd(q, "F0")
  /\ (q.selgvram /\ ~q.seldic) => q.wr["F0"] = HighWr(q, "F0")

\* p: the banks as they are once graphics memory has been chosen in c, which UpdateC0 started from m.
Graphics(m, c, p, bank, wbank) ==
  /\ DOMAIN m = Fields /\ m.seldic \in BOOLEAN
  /\ Keeps(m, c, HighFields, {}) /\ DOMAIN c = Fields /\ c.rc0 = Neither /\ c.seldic = m.seldic
  /\ Keeps(c, p, Waits, Upper) /\ p.selgvram = TRUE
  /\ Chosen(c)
  /\ \A i \in Upper : p.rd[i] = bank /\ p.wr[i] = wbank
  /\ \A i \in Upper : GetHiBank(c, i) = bank /\ HighWr(c, i) = wbank

\* Graphics memory, through the ALU or a plane of it, and the dictionary before it.
LEMMA GraphicsSettled ==
  ASSUME NEW m, NEW c, NEW p, NEW bank, NEW wbank, Graphics(m, c, p, bank, wbank)
  PROVE  Keeps(m, SelectJisyo(p), HighFields, Upper) /\ HighC0Settled(SelectJisyo(p))
<1> DEFINE q == SelectJisyo(p)
<1> USE DEF Graphics
<1>1. DOMAIN p = Fields /\ p.rc0 = Neither /\ p.seldic = m.seldic /\ \A f \in HighPorts : p[f] = c[f]
  BY DEF Keeps, Fields, Waits, HighPorts
<1>2. /\ Keeps(p, q, {"rc0"}, Upper) /\ q.wr = p.wr
      /\ m.seldic => q.rc0 = Jisyo(p) /\ q.rd["C0"] = Jisyo(p) /\ q.rd["F0"] = Jisyo(p)
      /\ ~m.seldic => q = p
  BY <1>1, SelectJisyoIs, BanksAreReal DEF Upper
<1> HIDE DEF q
<1>3. \A f \in HighPorts : q[f] = c[f]
  BY <1>1, <1>2 DEF Keeps, Fields, HighPorts
<1>4. /\ Jisyo(q) = Jisyo(p) /\ Chosen(q) /\ q.seldic = m.seldic
      /\ \A i \in Upper : GetHiBank(q, i) = bank /\ HighWr(q, i) = wbank
  <2>1. Chosen(q) /\ Jisyo(q) = Jisyo(c) /\ \A i \in Upper : GetHiBank(q, i) = bank /\ HighWr(q, i) = wbank
    BY <1>3, HighDepends
  <2>2. Jisyo(p) = Jisyo(c)
    BY <1>1, HighDepends
  <2> QED BY <1>3, <2>1, <2>2 DEF HighPorts
<1>5. q.selgvram = TRUE
  BY <1>1, <1>2 DEF Keeps, Fields
<1>6. \A i \in Upper : q.rd[i] = HighRd(q, i) /\ q.wr[i] = HighWr(q, i)
  BY <1>2, <1>4 DEF HighRd, Upper
<1>7. HighTold(q)
  BY <1>1, <1>2, BanksAreReal DEF HighTold
<1>8. HighC0Settled(q)
  BY <1>4, <1>5, <1>6, <1>7 DEF HighC0Settled, HighC0, Upper
<1>9. Keeps(m, q, HighFields, Upper)
  BY <1>2 DEF Keeps, HighFields
<1> QED BY <1>8, <1>9 DEF q

LEMMA UpdateC0Is ==
  ASSUME NEW m, DOMAIN m = Fields, m.selgvram \in BOOLEAN, m.seldic \in BOOLEAN,
         ~m.selgvram => m.wr["C0"] = RAM /\ HighTold(m)
  PROVE  Keeps(m, UpdateC0(m), HighFields, Upper) /\ HighC0Settled(UpdateC0(m))
<1> DEFINE s == IF 6 \in m.p32 THEN [m EXCEPT !.p5x = 3] ELSE m
           cleared == [s EXCEPT !.rc0 = Neither]
           r == NormalRAM(s, {"C0"})
           normal == [r EXCEPT !.rc0 = IF s.selgvram THEN RAM ELSE @]
           q == UpdateC0(m)
<1>1. /\ Keeps(m, s, {"p5x"}, {}) /\ s.rd = m.rd /\ s.wr = m.wr /\ s.p32 = m.p32 /\ s.p35 = m.p35 /\ s.seldic = m.seldic
      /\ DOMAIN s = Fields /\ s.selgvram = m.selgvram /\ s.rc0 = m.rc0 /\ (6 \in s.p32 => s.p5x = 3)
  BY DEF Keeps, Fields
<1>2. ~s.selgvram => s.wr["C0"] = RAM /\ HighTold(s)
  BY <1>1 DEF HighTold
<1>3. q = IF 6 \in s.p32 /\ 7 \in s.p35 THEN SelectJisyo(SelectALU(cleared, Upper))
          ELSE IF 6 \notin s.p32 /\ s.p5x < 3 THEN SelectJisyo(SelectGVRAM(cleared, Upper))
          ELSE IF s.seldic THEN SelectJisyo(normal)
          ELSE ToldRd(normal, "rc0", {"C0"}, RAM)
  BY DEF UpdateC0, Upper
<1>4. DOMAIN cleared = Fields /\ Keeps(m, cleared, HighFields, {}) /\ cleared.selgvram = m.selgvram /\ cleared.rc0 = Neither
      /\ cleared.p32 = s.p32 /\ cleared.p35 = s.p35 /\ cleared.p5x = s.p5x /\ cleared.seldic = s.seldic
  BY <1>1 DEF Keeps, Fields, HighFields
<1> HIDE DEF cleared, s, q
<1>5. CASE 6 \in s.p32 /\ 7 \in s.p35
  <2> DEFINE al == AllocRd(cleared, Upper, <<"ALU", 0>>)
             aw == AllocWr(al, Upper, <<"ALU", ALUFunction(cleared)>>)
             p == GraphicsChosen(aw)
  <2>1. q = SelectJisyo(p)
    BY <1>3, <1>5 DEF SelectALU
  <2>2. Keeps(cleared, al, {}, Upper) /\ al.wr = cleared.wr /\ \A i \in Upper : al.rd[i] = <<"ALU", 0>>
    BY <1>4, AllocIs DEF Upper, RegionIds
  <2> HIDE DEF al
  <2>3. DOMAIN al = Fields
    BY <1>4, <2>2 DEF Keeps
  <2>4. Keeps(al, aw, {}, Upper) /\ aw.rd = al.rd /\ \A i \in Upper : aw.wr[i] = <<"ALU", ALUFunction(cleared)>>
    BY <2>3, AllocIs DEF Upper, RegionIds
  <2> HIDE DEF aw
  <2>5. DOMAIN aw = Fields /\ aw.selgvram = m.selgvram
    BY <1>4, <2>2, <2>4 DEF Keeps, Fields
  <2>6. Keeps(aw, p, Waits, {}) /\ p.rd = aw.rd /\ p.wr = aw.wr /\ p.selgvram = TRUE
    BY <2>5, GraphicsChosenIs
  <2> HIDE DEF p
  <2>7. Keeps(cleared, p, Waits, Upper)
    BY <2>2, <2>4, <2>6 DEF Keeps
  <2>9. Chosen(cleared) /\ \A i \in Upper : GetHiBank(cleared, i) = <<"ALU", 0>> /\ HighWr(cleared, i) = <<"ALU", ALUFunction(cleared)>>
    BY <1>4, <1>5 DEF Chosen, GetHiBank, HighWr
  <2>10. \A i \in Upper : p.rd[i] = <<"ALU", 0>> /\ p.wr[i] = <<"ALU", ALUFunction(cleared)>>
    BY <2>2, <2>4, <2>6
  <2> DEFINE bank == <<"ALU", 0>>
             wbank == <<"ALU", ALUFunction(cleared)>>
  <2> HIDE DEF bank, wbank
  <2>12. /\ Chosen(cleared) /\ p.selgvram = TRUE
         /\ \A i \in Upper : p.rd[i] = bank /\ p.wr[i] = wbank
         /\ \A i \in Upper : GetHiBank(cleared, i) = bank /\ HighWr(cleared, i) = wbank
    BY <2>6, <2>9, <2>10 DEF bank, wbank
  <2>13. cleared.seldic = m.seldic
    BY <1>1, <1>4
  <2>14. DOMAIN m = Fields /\ m.seldic \in BOOLEAN /\ Keeps(m, cleared, HighFields, {}) /\ DOMAIN cleared = Fields
         /\ cleared.rc0 = Neither
    BY <1>4
  <2>15. Graphics(m, cleared, p, bank, wbank)
    BY <2>7, <2>12, <2>13, <2>14 DEF Graphics
  <2>11. Keeps(m, q, HighFields, Upper) /\ HighC0Settled(q)
    BY <2>1, <2>15, GraphicsSettled
  <2> QED BY <2>11 DEF q
<1>6. CASE ~(6 \in s.p32 /\ 7 \in s.p35) /\ 6 \notin s.p32 /\ s.p5x < 3
  <2> DEFINE al == AllocRW(cleared, Upper, <<"GVRAM", cleared.p5x>>)
             p == GraphicsChosen(al)
  <2>1. q = SelectJisyo(p)
    BY <1>3, <1>6 DEF SelectGVRAM
  <2>2. Keeps(cleared, al, {}, Upper) /\ \A i \in Upper : al.rd[i] = <<"GVRAM", cleared.p5x>> /\ al.wr[i] = <<"GVRAM", cleared.p5x>>
    BY <1>4, AllocRWIs DEF Upper, RegionIds
  <2> HIDE DEF al
  <2>3. DOMAIN al = Fields /\ al.selgvram = m.selgvram
    BY <1>4, <2>2 DEF Keeps, Fields
  <2>4. Keeps(al, p, Waits, {}) /\ p.rd = al.rd /\ p.wr = al.wr /\ p.selgvram = TRUE
    BY <2>3, GraphicsChosenIs
  <2> HIDE DEF p
  <2>5. Keeps(cleared, p, Waits, Upper)
    BY <2>2, <2>4 DEF Keeps
  <2>7. /\ Chosen(cleared)
        /\ \A i \in Upper : GetHiBank(cleared, i) = <<"GVRAM", cleared.p5x>> /\ HighWr(cleared, i) = <<"GVRAM", cleared.p5x>>
    BY <1>4, <1>6 DEF Chosen, GetHiBank, HighWr
  <2>8. \A i \in Upper : p.rd[i] = <<"GVRAM", cleared.p5x>> /\ p.wr[i] = <<"GVRAM", cleared.p5x>>
    BY <2>2, <2>4
  <2> DEFINE bank == <<"GVRAM", cleared.p5x>>
  <2> HIDE DEF bank
  <2>12. /\ Chosen(cleared) /\ p.selgvram = TRUE
         /\ \A i \in Upper : p.rd[i] = bank /\ p.wr[i] = bank
         /\ \A i \in Upper : GetHiBank(cleared, i) = bank /\ HighWr(cleared, i) = bank
    BY <2>4, <2>7, <2>8 DEF bank
  <2>13. cleared.seldic = m.seldic
    BY <1>1, <1>4
  <2>14. DOMAIN m = Fields /\ m.seldic \in BOOLEAN /\ Keeps(m, cleared, HighFields, {}) /\ DOMAIN cleared = Fields
         /\ cleared.rc0 = Neither
    BY <1>4
  <2>15. Graphics(m, cleared, p, bank, bank)
    BY <2>5, <2>12, <2>13, <2>14 DEF Graphics
  <2>9. Keeps(m, q, HighFields, Upper) /\ HighC0Settled(q)
    BY <2>1, <2>15, GraphicsSettled
  <2> QED BY <2>9 DEF q
\* No graphics memory.
<1>7. ASSUME ~(6 \in s.p32 /\ 7 \in s.p35), ~(6 \notin s.p32 /\ s.p5x < 3)
      PROVE  Keeps(m, q, HighFields, Upper) /\ HighC0Settled(q)
  <2>1. s.selgvram \in BOOLEAN /\ {"C0"} \in SUBSET RegionIds
    BY <1>1 DEF RegionIds
  <2>2. /\ Keeps(s, r, Waits, {"C0"}) /\ r.selgvram = FALSE
        /\ s.selgvram => \A i \in {"C0"} : r.rd[i] = RAM /\ r.wr[i] = RAM
        /\ ~s.selgvram => r = s
    BY <1>1, <2>1, NormalRAMIs
  <2> HIDE DEF r
  <2>3. DOMAIN r = Fields /\ r.rc0 = s.rc0 /\ \A f \in HighPorts : r[f] = s[f]
    BY <1>1, <2>2 DEF Keeps, Fields, HighPorts, Waits
  <2>4. normal.rc0 = (IF s.selgvram THEN RAM ELSE r.rc0) /\ Keeps(r, normal, {"rc0"}, {})
    BY <2>3 DEF Keeps, Fields
  <2>5. normal.rd = r.rd /\ normal.wr = r.wr /\ normal.selgvram = FALSE
    BY <2>2, <2>3 DEF Fields
  <2>6. /\ DOMAIN normal = Fields /\ Keeps(s, normal, HighFields, {"C0"}) /\ normal.selgvram = FALSE
        /\ \A f \in HighPorts : normal[f] = s[f]
        /\ normal.rd = r.rd /\ normal.wr = r.wr
        /\ normal.rc0 = IF s.selgvram THEN RAM ELSE s.rc0
    <3> HIDE DEF normal
    <3>1. DOMAIN normal = Fields /\ Keeps(s, normal, HighFields, {"C0"})
      BY <1>1, <2>2, <2>3, <2>4, <2>5 DEF Keeps, HighFields
    <3>2. \A f \in HighPorts : normal[f] = s[f]
      BY <2>3, <2>4 DEF Keeps, HighPorts, Fields
    <3> QED BY <2>3, <2>4, <2>5, <3>1, <3>2
  <2> HIDE DEF normal
  <2>7. HighTold(normal) /\ normal.wr["C0"] = RAM
    BY <1>2, <2>2, <2>6 DEF HighTold, RAM
  <2>8. ~Chosen(s) /\ GetHiBank(s, "C0") = RAM /\ HighWr(s, "C0") = RAM
    BY <1>7 DEF Chosen, GetHiBank, HighWr
  <2>9. CASE s.seldic
    <3>1. q = SelectJisyo(normal) /\ normal.seldic = s.seldic
      BY <1>3, <1>7, <2>6, <2>9 DEF HighPorts
    <3>2. normal.rc0 = Jisyo(normal) => normal.rd["C0"] = Jisyo(normal) /\ normal.rd["F0"] = Jisyo(normal)
      BY <2>7, BanksAreReal DEF HighTold
    <3>3. /\ Keeps(normal, q, {"rc0"}, Upper) /\ q.wr = normal.wr
          /\ q.rc0 = Jisyo(normal) /\ q.rd["C0"] = Jisyo(normal) /\ q.rd["F0"] = Jisyo(normal)
      BY <1>1, <2>6, <2>9, <3>1, <3>2, SelectJisyoIs DEF Upper
    <3>4. \A f \in HighPorts : q[f] = s[f] /\ q[f] = normal[f]
      BY <2>6, <3>3 DEF Keeps, Fields, HighPorts
    <3>5. Jisyo(q) = Jisyo(normal) /\ ~Chosen(q) /\ HighWr(q, "C0") = RAM /\ q.seldic = s.seldic
      BY <2>8, <3>4, HighDepends DEF HighPorts
    <3>6. q.selgvram = FALSE
      BY <2>6, <3>3 DEF Keeps, Fields
    <3>7. HighC0Settled(q)
      BY <2>7, <2>9, <3>3, <3>5, <3>6, BanksAreReal DEF HighC0Settled, HighC0, HighRd, HighTold
    <3>8. Keeps(m, q, HighFields, Upper)
      BY <1>1, <2>6, <3>3 DEF Keeps, HighFields, Upper
    <3> QED BY <3>7, <3>8 DEF q
  <2>10. CASE ~s.seldic
    <3>1. q = ToldRd(normal, "rc0", {"C0"}, RAM)
      BY <1>3, <1>7, <2>10
    <3>2. normal.rc0 = Neither \/ normal.rd["C0"] = normal.rc0
      BY <2>7 DEF HighTold
    <3>3. Keeps(normal, q, {"rc0"}, {"C0"}) /\ q.wr = normal.wr /\ q.rc0 = RAM /\ q.rd["C0"] = RAM
      BY <2>6, <3>1, <3>2, ToldRdIs, BanksAreReal DEF RegionIds
    <3>4. \A f \in HighPorts : q[f] = s[f]
      BY <2>6, <3>3 DEF Keeps, Fields, HighPorts
    <3>5. ~Chosen(q) /\ GetHiBank(q, "C0") = RAM /\ HighWr(q, "C0") = RAM /\ q.seldic = s.seldic
      BY <2>8, <3>4, HighDepends DEF HighPorts
    <3>6. q.selgvram = FALSE
      BY <2>6, <3>3 DEF Keeps, Fields
    <3>7. HighC0Settled(q)
      BY <2>7, <2>10, <3>3, <3>5, <3>6 DEF HighC0Settled, HighC0, HighRd, HighTold
    <3>8. Keeps(m, q, HighFields, Upper)
      BY <1>1, <2>6, <3>3 DEF Keeps, HighFields, Upper
    <3> QED BY <3>7, <3>8 DEF q
  <2> QED BY <2>9, <2>10
<1> QED BY <1>5, <1>6, <1>7 DEF q

\* UpdateF0 settles the rest.
LEMMA UpdateF0Is ==
  ASSUME NEW m, DOMAIN m = Fields, m.seldic \in BOOLEAN, HighC0Settled(m)
  PROVE  LET q == UpdateF0(m) IN Keeps(m, q, {}, {"F0"}) /\ HighC0(q) /\ HighF0(q)
<1> DEFINE q == UpdateF0(m)
<1>1. CASE m.selgvram \/ m.seldic
  <2>1. q = m
    BY <1>1 DEF UpdateF0
  <2>2. m.selgvram \/ (m.seldic /\ ~m.selgvram)
    BY <1>1 DEF HighC0Settled
  <2>3. HighC0(m) /\ HighF0(m)
    BY <1>1, <2>2 DEF HighC0Settled, HighF0
  <2> QED BY <2>1, <2>3, KeepsSelf
<1>2. CASE ~(m.selgvram \/ m.seldic)
  <2> DEFINE bank == IF TVRAMShown(m) THEN <<"TVRAM", 0>> ELSE RAM
  <2>1. q = AllocRW(m, {"F0"}, bank)
    BY <1>2 DEF UpdateF0
  <2>2. Keeps(m, q, {}, {"F0"}) /\ q.rd["F0"] = bank /\ q.wr["F0"] = bank
    BY <2>1, AllocRWIs DEF RegionIds
  <2>3. bank = GetHiBank(m, "F0") /\ bank = HighWr(m, "F0") /\ GetHiBank(m, "C0") = RAM /\ HighWr(m, "C0") = RAM /\ ~Chosen(m)
    BY <1>2 DEF GetHiBank, HighWr, RAM, HighC0Settled, HighC0, Chosen
  <2> HIDE DEF bank, q
  <2>4. \A f \in HighPorts \union {"rc0", "selgvram"} : q[f] = m[f]
    BY <2>2 DEF Keeps, Fields, HighPorts
  <2>5. q.rd["C0"] = m.rd["C0"] /\ q.wr["C0"] = m.wr["C0"]
    BY <2>2 DEF Keeps, RegionIds
  <2>6. /\ GetHiBank(q, "C0") = RAM /\ GetHiBank(q, "F0") = bank /\ ~Chosen(q)
        /\ HighWr(q, "C0") = RAM /\ HighWr(q, "F0") = bank
        /\ q.seldic = m.seldic /\ q.rc0 = m.rc0 /\ q.selgvram = m.selgvram
    BY <2>3, <2>4, HighDepends DEF HighPorts
  <2>7. HighC0(m) /\ m.rd["C0"] = RAM
    BY <1>2, <2>3 DEF HighC0Settled, HighC0, HighRd
  <2>8. HighTold(q)
    BY <2>5, <2>6, <2>7 DEF HighC0, HighTold
  <2>9. HighC0(q) /\ HighF0(q)
    BY <1>2, <2>2, <2>3, <2>5, <2>6, <2>7, <2>8 DEF HighC0, HighF0, HighRd
  <2> QED BY <2>2, <2>9 DEF q
<1> QED BY <1>1, <1>2

LEMMA HighIs ==
  ASSUME NEW m, DOMAIN m = Fields, m.selgvram \in BOOLEAN, m.seldic \in BOOLEAN,
         ~m.selgvram => m.wr["C0"] = RAM /\ HighTold(m)
  PROVE  LET q == UpdateF0(UpdateC0(m))
         IN Keeps(m, q, HighFields, Upper) /\ HighC0(q) /\ HighF0(q) /\ q.selgvram \in BOOLEAN
<1> DEFINE p == UpdateC0(m)
           q == UpdateF0(p)
<1>1. Keeps(m, p, HighFields, Upper) /\ HighC0Settled(p)
  BY UpdateC0Is
<1> HIDE DEF p
<1>2. DOMAIN p = Fields /\ p.seldic = m.seldic
  BY <1>1 DEF Keeps, Fields, HighFields, Waits
<1>3. Keeps(p, q, {}, {"F0"}) /\ HighC0(q) /\ HighF0(q)
  BY <1>1, <1>2, UpdateF0Is
<1> HIDE DEF q
<1>4. q.selgvram \in BOOLEAN
  BY <1>1, <1>2, <1>3 DEF Keeps, Fields, HighC0Settled
<1>5. Keeps(m, q, HighFields, Upper)
  BY <1>1, <1>3 DEF Keeps, Upper
<1> QED BY <1>3, <1>4, <1>5 DEF q, p

\* The graphics window of the N80 modes.
LEMMA UpdateN80GIs ==
  ASSUME NEW m, DOMAIN m = Fields, m.selgvram \in BOOLEAN,
         ~m.selgvram => m.rd["84"] = RAM /\ m.wr["84"] = RAM
  PROVE  LET q == UpdateN80G(m)
         IN /\ Keeps(m, q, HighFields, {"80", "84"}) /\ N80OK(q) /\ q.selgvram \in BOOLEAN
            /\ 6 \notin m.p33 => q.p5x = m.p5x
<1> DEFINE s == IF 6 \in m.p33 THEN [m EXCEPT !.p5x = 3] ELSE m
           cleared == [s EXCEPT !.rc0 = Neither]
           Both == {"80", "84"}
           q == UpdateN80G(m)
<1>1. /\ Keeps(m, s, {"p5x"}, {}) /\ s.rd = m.rd /\ s.wr = m.wr /\ s.p33 = m.p33 /\ s.p35 = m.p35
      /\ DOMAIN s = Fields /\ s.selgvram = m.selgvram /\ (6 \notin m.p33 => s.p5x = m.p5x)
  BY DEF Keeps, Fields
<1>2. q = IF 6 \in s.p33 /\ 7 \in s.p35 THEN SelectALU(cleared, Both)
          ELSE IF 6 \notin s.p33 /\ s.p5x < 3 THEN SelectGVRAM(cleared, Both)
          ELSE NormalRAM(s, Both)
  BY DEF UpdateN80G
<1>3. /\ DOMAIN cleared = Fields /\ Keeps(m, cleared, HighFields, {}) /\ cleared.selgvram = m.selgvram
      /\ cleared.p33 = s.p33 /\ cleared.p35 = s.p35 /\ cleared.p5x = s.p5x
  BY <1>1 DEF Keeps, Fields, HighFields
<1> HIDE DEF cleared, s
<1>4. CASE 6 \in s.p33 /\ 7 \in s.p35
  <2> DEFINE al == AllocRd(cleared, Both, <<"ALU", 0>>)
             aw == AllocWr(al, Both, <<"ALU", ALUFunction(cleared)>>)
             p == GraphicsChosen(aw)
  <2>1. q = p
    BY <1>2, <1>4 DEF SelectALU
  <2>2. Keeps(cleared, al, {}, Both) /\ al.wr = cleared.wr /\ \A i \in Both : al.rd[i] = <<"ALU", 0>>
    BY <1>3, AllocIs DEF RegionIds
  <2> HIDE DEF al
  <2>3. DOMAIN al = Fields
    BY <1>3, <2>2 DEF Keeps
  <2>4. Keeps(al, aw, {}, Both) /\ aw.rd = al.rd /\ \A i \in Both : aw.wr[i] = <<"ALU", ALUFunction(cleared)>>
    BY <2>3, AllocIs DEF RegionIds
  <2> HIDE DEF aw
  <2>5. DOMAIN aw = Fields /\ aw.selgvram = m.selgvram
    BY <1>3, <2>2, <2>4 DEF Keeps, Fields
  <2>6. Keeps(aw, p, Waits, {}) /\ p.rd = aw.rd /\ p.wr = aw.wr /\ p.selgvram = TRUE
    BY <2>5, GraphicsChosenIs
  <2> HIDE DEF p
  <2>7. Keeps(m, p, HighFields, Both)
    BY <1>3, <2>2, <2>4, <2>6 DEF Keeps, HighFields
  <2>8. p.p33 = s.p33 /\ p.p35 = s.p35 /\ p.p5x = s.p5x
    BY <1>3, <2>2, <2>4, <2>5, <2>6 DEF Keeps, Fields, Waits
  <2>9. ALUFunction(p) = ALUFunction(cleared)
    BY <1>3, <2>8 DEF ALUFunction
  <2>10. p.rd["84"] = <<"ALU", 0>> /\ p.wr["84"] = <<"ALU", ALUFunction(p)>>
    BY <2>2, <2>4, <2>6, <2>9
  <2>11. N80OK(p)
    BY <1>4, <2>6, <2>8, <2>10 DEF N80OK, GraphicsN80, ChosenN80
  <2> QED BY <1>1, <2>1, <2>6, <2>7, <2>8, <2>11 DEF q
<1>5. CASE ~(6 \in s.p33 /\ 7 \in s.p35) /\ 6 \notin s.p33 /\ s.p5x < 3
  <2> DEFINE al == AllocRW(cleared, Both, <<"GVRAM", cleared.p5x>>)
             p == GraphicsChosen(al)
  <2>1. q = p
    BY <1>2, <1>5 DEF SelectGVRAM
  <2>2. Keeps(cleared, al, {}, Both) /\ \A i \in Both : al.rd[i] = <<"GVRAM", cleared.p5x>> /\ al.wr[i] = <<"GVRAM", cleared.p5x>>
    BY <1>3, AllocRWIs DEF RegionIds
  <2> HIDE DEF al
  <2>3. DOMAIN al = Fields /\ al.selgvram = m.selgvram
    BY <1>3, <2>2 DEF Keeps, Fields
  <2>4. Keeps(al, p, Waits, {}) /\ p.rd = al.rd /\ p.wr = al.wr /\ p.selgvram = TRUE
    BY <2>3, GraphicsChosenIs
  <2> HIDE DEF p
  <2>5. Keeps(m, p, HighFields, Both)
    BY <1>3, <2>2, <2>4 DEF Keeps, HighFields
  <2>6. p.p33 = s.p33 /\ p.p35 = s.p35 /\ p.p5x = s.p5x
    BY <1>3, <2>2, <2>3, <2>4 DEF Keeps, Fields, Waits
  <2>7. p.rd["84"] = <<"GVRAM", p.p5x>> /\ p.wr["84"] = <<"GVRAM", p.p5x>>
    BY <1>3, <2>2, <2>4, <2>6
  <2>8. N80OK(p)
    BY <1>5, <2>4, <2>6, <2>7 DEF N80OK, GraphicsN80, ChosenN80
  <2> QED BY <1>1, <2>1, <2>4, <2>5, <2>6, <2>8 DEF q
<1>6. CASE ~(6 \in s.p33 /\ 7 \in s.p35) /\ ~(6 \notin s.p33 /\ s.p5x < 3)
  <2>1. q = NormalRAM(s, Both)
    BY <1>2, <1>6
  <2>2. Both \in SUBSET RegionIds
    BY DEF RegionIds
  <2> DEFINE r == NormalRAM(s, Both)
  <2> HIDE DEF q
  <2>3. /\ Keeps(s, r, Waits, Both) /\ r.selgvram = FALSE
        /\ s.selgvram => \A i \in Both : r.rd[i] = RAM /\ r.wr[i] = RAM
        /\ ~s.selgvram => r = s
    BY <1>1, <2>2, NormalRAMIs
  <2> HIDE DEF r
  <2>4. r.rd["84"] = RAM /\ r.wr["84"] = RAM
    BY <1>1, <2>3
  <2>5. r.p33 = s.p33 /\ r.p35 = s.p35 /\ r.p5x = s.p5x
    BY <1>1, <2>3 DEF Keeps, Fields, Waits
  <2>6. N80OK(r)
    BY <1>6, <2>3, <2>4, <2>5 DEF N80OK, GraphicsN80, ChosenN80
  <2>7. Keeps(m, r, HighFields, Both)
    BY <1>1, <2>3 DEF Keeps, HighFields
  <2> QED BY <1>1, <2>1, <2>3, <2>5, <2>6, <2>7 DEF q, r
<1> QED BY <1>4, <1>5, <1>6

-----------------------------------------------------------------------------
(* What a step that touches other things leaves as it was.                   *)

LEMMA MidUnchanged ==
  ASSUME NEW m, NEW q, DOMAIN m = Fields, MidOK(m), NEW S, NEW R, Keeps(m, q, S, R),
         S \intersect {"p31", "p70"} = {}, R \intersect {"80", "84"} = {}
  PROVE  MidOK(q)
<1>1. q.p31 = m.p31 /\ q.p70 = m.p70
  BY DEF Keeps, Fields
<1>2. \A r \in {"80", "84"} : q.rd[r] = m.rd[r] /\ q.wr[r] = m.wr[r]
  BY DEF Keeps, RegionIds
<1> QED BY <1>1, <1>2 DEF MidOK, Bank80, Window

LEMMA HighUnchanged ==
  ASSUME NEW m, NEW q, DOMAIN m = Fields, HighC0(m), HighF0(m), NEW S, NEW R, Keeps(m, q, S, R),
         S \intersect (HighPorts \union {"rc0", "selgvram"}) = {}, R \intersect Upper = {}
  PROVE  HighC0(q) /\ HighF0(q)
<1>1. \A f \in HighPorts \union {"rc0", "selgvram"} : q[f] = m[f]
  BY DEF Keeps, Fields, HighPorts
<1>2. \A r \in Upper : q.rd[r] = m.rd[r] /\ q.wr[r] = m.wr[r]
  BY DEF Keeps, RegionIds, Upper
<1>3. (Chosen(q) <=> Chosen(m)) /\ \A r : HighRd(q, r) = HighRd(m, r) /\ HighWr(q, r) = HighWr(m, r)
  BY <1>1, HighDepends
<1>4. q.rc0 = m.rc0 /\ q.selgvram = m.selgvram /\ q.seldic = m.seldic
  BY <1>1 DEF HighPorts
<1>5. HighTold(q)
  BY <1>2, <1>4 DEF HighC0, HighTold, Upper
<1> QED BY <1>2, <1>3, <1>4, <1>5 DEF HighC0, HighF0, Upper

LEMMA N80Unchanged ==
  ASSUME NEW m, NEW q, DOMAIN m = Fields, N80OK(m), NEW S, NEW R, Keeps(m, q, S, R),
         S \intersect {"selgvram", "p33", "p35", "p5x"} = {}, R \intersect {"84"} = {}
  PROVE  N80OK(q)
<1>1. q.selgvram = m.selgvram /\ q.p33 = m.p33 /\ q.p35 = m.p35 /\ q.p5x = m.p5x
  BY DEF Keeps, Fields
<1>2. q.rd["84"] = m.rd["84"] /\ q.wr["84"] = m.wr["84"]
  BY DEF Keeps, RegionIds
<1> QED BY <1>1, <1>2 DEF N80OK, GraphicsN80, ALUFunction, ChosenN80

LEMMA PlainUnchanged ==
  ASSUME NEW m, NEW q, UpperPlain(m), NEW S, NEW R, Keeps(m, q, S, R), R \intersect Upper = {}
  PROVE  UpperPlain(q)
BY DEF Keeps, UpperPlain, Upper, RegionIds

LEMMA TypeUnchanged ==
  ASSUME NEW m, NEW q, MemTypeOK(m), RomsThere(m), NEW S, NEW R, Keeps(m, q, S, R),
         S \intersect {"n80mode", "seldic", "selgvram", "p99"} = {}
  PROVE  MemTypeOK(q) /\ RomsThere(q) /\ q.n80mode = m.n80mode
<1>1. DOMAIN q = Fields /\ q.n80mode = m.n80mode /\ q.seldic = m.seldic /\ q.selgvram = m.selgvram /\ q.p99 = m.p99
  BY DEF Keeps, Fields, MemTypeOK
<1> QED BY <1>1 DEF MemTypeOK, RomsThere

\* The low regions of the N80 modes depend on fewer ports.
LEMMA N80LowUnchanged ==
  ASSUME NEW m, NEW q, DOMAIN m = Fields, LowOK(m), m.n80mode, NEW S, NEW R, Keeps(m, q, S, R),
         S \intersect ({"n80mode", "e2", "e3", "banks", "p31", "p33"} \union LowCaches) = {}, R \intersect LowRam = {}
  PROVE  LowOK(q)
<1>1. /\ q.n80mode = m.n80mode /\ q.e2 = m.e2 /\ q.e3 = m.e3 /\ q.banks = m.banks /\ q.p31 = m.p31 /\ q.p33 = m.p33
      /\ q.r00 = m.r00 /\ q.r60 = m.r60 /\ q.w00 = m.w00
  BY DEF Keeps, Fields, LowCaches
<1>2. \A r \in LowRam : q.rd[r] = m.rd[r] /\ q.wr[r] = m.wr[r]
  BY DEF Keeps, LowRam, RegionIds
<1>3. Eram(q) = Eram(m) /\ \A b : ExtendedN80(q, b) <=> ExtendedN80(m, b)
  BY <1>1 DEF Eram, ExtendedN80
<1>4. N80Rd00(q) = N80Rd00(m) /\ N80Wr00(q) = N80Wr00(m)
  BY <1>1, <1>3 DEF N80Rd00, N80Wr00
<1>5. N80Rd60(q) = N80Rd60(m)
  BY <1>1, <1>3, <1>4 DEF N80Rd60
<1> QED BY <1>1, <1>2, <1>4, <1>5 DEF LowOK, LowRd00, LowRd60, LowWr, LowRam

\* The regions above keep their banks while only the low ones change.
LEMMA LowChanged ==
  ASSUME NEW m, MemoryOK(m), NEW q, NEW S, Keeps(m, q, S, LowRam), LowOK(q),
         S \intersect ({"n80mode", "selgvram", "p33", "p70", "rc0"} \union HighPorts) = {},
         m.n80mode \/ "p31" \notin S, "CDBIOS" \in Has \/ q.p99 = {}
  PROVE  MemoryOK(q)
<1>1. DOMAIN m = Fields /\ DOMAIN q = Fields
  BY DEF MemoryOK, MemTypeOK, Keeps
<1>2. q.n80mode = m.n80mode /\ q.seldic = m.seldic /\ q.selgvram = m.selgvram
  BY <1>1 DEF Keeps, Fields, HighPorts
<1>3. MemTypeOK(q) /\ RomsThere(q)
  BY <1>1, <1>2 DEF MemoryOK, MemTypeOK, RomsThere
<1>4. LowRam \intersect {"80", "84"} = {} /\ LowRam \intersect Upper = {}
  BY DEF LowRam, Upper
<1>5. CASE m.n80mode
  <2>1. N80OK(q)
    BY <1>1, <1>4, <1>5, N80Unchanged DEF MemoryOK, HighPorts
  <2>2. UpperPlain(q)
    BY <1>4, <1>5, PlainUnchanged DEF MemoryOK
  <2> QED BY <1>2, <1>3, <1>5, <2>1, <2>2 DEF MemoryOK
<1>6. CASE ~m.n80mode
  <2>1. MidOK(q)
    BY <1>1, <1>4, <1>6, MidUnchanged DEF MemoryOK
  <2>2. HighC0(q) /\ HighF0(q)
    BY <1>1, <1>4, <1>6, HighUnchanged DEF MemoryOK
  <2> QED BY <1>2, <1>3, <1>6, <2>1, <2>2 DEF MemoryOK
<1> QED BY <1>5, <1>6 DEF MemoryOK, MemTypeOK

\* Fields that no bank depends on.
Others ==
  {"p34", "p40", "mode", "n80sr", "enablewait", "waitmode", "waittype", "waits", "neweram", "gvram", "alureg", "dirty"}

LEMMA OthersChanged ==
  ASSUME NEW m, MemoryOK(m), NEW q, NEW S \in SUBSET Others, Keeps(m, q, S, {})
  PROVE  MemoryOK(q)
<1>1. DOMAIN m = Fields
  BY DEF MemoryOK, MemTypeOK
<1>2. LowOK(q)
  BY <1>1, LowUnchanged DEF MemoryOK, Others, LowPorts, LowCaches
<1>3. Keeps(m, q, S, LowRam)
  BY KeepsMore
<1>4. q.p99 = m.p99
  BY <1>1 DEF Keeps, Fields, Others
<1> QED BY <1>2, <1>3, <1>4, LowChanged DEF MemoryOK, RomsThere, Others, HighPorts

LEMMA SetWaitIs == ASSUME NEW m, DOMAIN m = Fields PROVE Keeps(m, SetWait(m), {"waits"}, {})
BY DEF SetWait, Keeps, Fields

-----------------------------------------------------------------------------
(* The ports.                                                                *)

LEMMA Low88Refreshed ==
  ASSUME NEW s, DOMAIN s = Fields, LowTold(s), ~s.n80mode,
         s.w00 = Wr00(s), s.wr["00"] = Wr00(s), s.wr["60"] = Wr00(s)
  PROVE  LET q == Update60R(Update00R(s)) IN LowOK(q) /\ Keeps(s, q, LowCaches, LowRam)
<1> DEFINE q == Update60R(Update00R(s))
<1>1. /\ Keeps(s, q, LowCaches, LowRam) /\ q.wr = s.wr /\ q.w00 = s.w00
      /\ q.rd["00"] = Rd00(s) /\ q.r00 = Rd00(s) /\ q.rd["60"] = Rd60(s) /\ q.r60 = Rd60(s)
  BY Low88Is
<1> HIDE DEF q
<1>2. q.n80mode = s.n80mode /\ Wr00(q) = Wr00(s) /\ Rd00(q) = Rd00(s) /\ Rd60(q) = Rd60(s)
  BY <1>1, TargetsKept DEF Fields, LowPorts, LowCaches
<1>3. LowOK(q)
  BY <1>1, <1>2 DEF LowOK, LowRd00, LowRd60, LowWr
<1> QED BY <1>1, <1>3 DEF q

LEMMA Out31OK == ASSUME NEW m, NEW d, MemoryOK(m) PROVE MemoryOK(Out31(m, d))
<1> DEFINE of == IF m.n80mode THEN {0, 1} ELSE {1, 2}
           s == [m EXCEPT !.p31 = d \intersect of]
           q == Out31(m, d)
<1>1. DOMAIN m = Fields /\ m.n80mode \in BOOLEAN /\ LowTold(m)
  BY LowOKTold DEF MemoryOK, MemTypeOK
<1>2. Keeps(m, s, {"p31"}, {}) /\ s.rd = m.rd /\ s.wr = m.wr /\ DOMAIN s = Fields
  BY <1>1 DEF Keeps, Fields
<1>3. q = IF Toggled(d, m.p31) \intersect of = {} THEN m
          ELSE IF m.n80mode THEN LowUpdated(s) ELSE Update80(Update60R(Update00R(s)))
  BY <1>1, <1>2 DEF Out31, LowUpdated, Keeps, Fields
<1> HIDE DEF s
<1>4. s.n80mode = m.n80mode /\ s.p99 = m.p99 /\ s.r00 = m.r00 /\ s.r60 = m.r60 /\ s.w00 = m.w00 /\ s.e2 = m.e2 /\ s.e3 = m.e3 /\ s.banks = m.banks
  BY <1>1, <1>2 DEF Keeps, Fields
<1>5. LowTold(s)
  BY <1>1, <1>2, <1>4 DEF LowTold
<1>6. ASSUME m.n80mode, q = LowUpdated(s) PROVE MemoryOK(q)
  <2> HIDE DEF q
  <2>1. LowOK(q) /\ Keeps(s, q, LowCaches, LowRam)
    BY <1>1, <1>2, <1>4, <1>5, <1>6, LowUpdatedIs
  <2>2. Keeps(m, q, {"p31"} \union LowCaches, LowRam)
    BY <1>2, <2>1 DEF Keeps
  <2>3. q.p99 = m.p99
    BY <1>1, <2>2 DEF Keeps, Fields, LowCaches
  <2> QED BY <1>6, <2>1, <2>2, <2>3, LowChanged DEF LowCaches, HighPorts, MemoryOK, RomsThere
<1>7. ASSUME ~m.n80mode, q = Update80(Update60R(Update00R(s))) PROVE MemoryOK(q)
  <2> DEFINE p == Update60R(Update00R(s))
  <2>1. Wr00(s) = Wr00(m) /\ LowWr(m) = Wr00(m)
    BY <1>4, <1>7 DEF Wr00, LowWr, EramAt, Eram
  <2>2. LowOK(p) /\ Keeps(s, p, LowCaches, LowRam)
    BY <1>2, <1>4, <1>5, <1>7, <2>1, Low88Refreshed DEF MemoryOK, LowOK
  <2>3. q = Update80(p)
    BY <1>7
  <2> HIDE DEF p, q
  <2>4. DOMAIN p = Fields
    BY <1>2, <2>2 DEF Keeps
  <2>5. Keeps(p, q, {}, {"80"}) /\ q.rd["80"] = Bank80(p) /\ q.wr["80"] = Bank80(p)
    BY <2>3, <2>4, Update80Is
  <2>6. LowOK(q)
    BY <2>2, <2>4, <2>5, LowUnchanged DEF LowRam
  <2>7. Keeps(m, q, {"p31"} \union LowCaches, LowRam \union {"80"})
    BY <1>2, <2>2, <2>5 DEF Keeps
  <2>8. Bank80(q) = Bank80(p)
    BY <2>4, <2>5 DEF Bank80, Window, Keeps, Fields
  <2>9. q.rd["84"] = m.rd["84"] /\ q.wr["84"] = m.wr["84"]
    BY <2>7 DEF Keeps, LowRam, RegionIds
  <2>10. MidOK(q)
    BY <1>7, <2>5, <2>8, <2>9 DEF MemoryOK, MidOK
  <2>11. MemTypeOK(q) /\ RomsThere(q) /\ q.n80mode = m.n80mode
    BY <2>7, TypeUnchanged DEF MemoryOK, LowCaches
  <2>12. HighC0(q) /\ HighF0(q)
    BY <1>1, <1>7, <2>7, HighUnchanged DEF MemoryOK, LowCaches, HighPorts, LowRam, Upper
  <2> QED BY <1>7, <2>6, <2>10, <2>11, <2>12 DEF MemoryOK
<1> QED BY <1>1, <1>3, <1>6, <1>7 DEF q

LEMMA OuteOK ==
  ASSUME NEW m, NEW d, MemoryOK(m) PROVE MemoryOK(Oute2(m, d)) /\ MemoryOK(Oute3(m, d))
<1>1. DOMAIN m = Fields /\ m.n80mode \in BOOLEAN /\ LowTold(m)
  BY LowOKTold DEF MemoryOK, MemTypeOK
<1>2. ASSUME NEW s, Keeps(m, s, {"e2", "e3"}, {}), s.rd = m.rd, s.wr = m.wr PROVE MemoryOK(LowUpdated(s))
  <2>1. /\ DOMAIN s = Fields /\ s.n80mode = m.n80mode /\ s.p99 = m.p99
        /\ s.r00 = m.r00 /\ s.r60 = m.r60 /\ s.w00 = m.w00
    BY <1>1, <1>2 DEF Keeps, Fields
  <2>2. LowTold(s)
    BY <1>1, <1>2, <2>1 DEF LowTold
  <2> DEFINE q == LowUpdated(s)
  <2>3. LowOK(q) /\ Keeps(s, q, LowCaches, LowRam)
    BY <1>1, <2>1, <2>2, LowUpdatedIs
  <2> HIDE DEF q
  <2>4. Keeps(m, q, {"e2", "e3"} \union LowCaches, LowRam)
    BY <1>2, <2>3 DEF Keeps
  <2>5. q.p99 = m.p99
    BY <1>1, <2>4 DEF Keeps, Fields, LowCaches
  <2>6. MemoryOK(q)
    BY <2>3, <2>4, <2>5, LowChanged DEF LowCaches, HighPorts, MemoryOK, RomsThere
  <2> QED BY <2>6 DEF q
<1> DEFINE s2 == [m EXCEPT !.e2 = d]
           s3 == [m EXCEPT !.e3 = d]
<1>3. Keeps(m, s2, {"e2", "e3"}, {}) /\ s2.rd = m.rd /\ s2.wr = m.wr
  BY <1>1 DEF Keeps, Fields
<1>4. Keeps(m, s3, {"e2", "e3"}, {}) /\ s3.rd = m.rd /\ s3.wr = m.wr
  BY <1>1 DEF Keeps, Fields
<1> HIDE DEF s2, s3
<1>5. MemoryOK(LowUpdated(s2))
  BY <1>2, <1>3
<1>6. MemoryOK(LowUpdated(s3))
  BY <1>2, <1>4
<1> QED BY <1>5, <1>6 DEF Oute2, Oute3, s2, s3

LEMMA Out34OK == ASSUME NEW m, NEW d, MemoryOK(m) PROVE MemoryOK(Out34(m, d))
<1>1. DOMAIN m = Fields
  BY DEF MemoryOK, MemTypeOK
<1> DEFINE q == Out34(m, d)
<1>2. Keeps(m, q, {"p34"}, {}) /\ {"p34"} \in SUBSET Others
  BY <1>1 DEF Out34, Keeps, Fields, Others
<1> HIDE DEF q
<1>3. MemoryOK(q)
  BY <1>2, OthersChanged
<1> QED BY <1>3 DEF q

LEMMA Out40OK == ASSUME NEW m, NEW d, MemoryOK(m) PROVE MemoryOK(Out40(m, d))
<1>1. DOMAIN m = Fields
  BY DEF MemoryOK, MemTypeOK
<1> DEFINE q == Out40(m, d)
           S == {"p40", "waittype", "waits"}
<1>2. Keeps(m, q, S, {}) /\ S \in SUBSET Others
  BY <1>1 DEF Out40, SetWait, Keeps, Fields, Others
<1> HIDE DEF q, S
<1>3. MemoryOK(q)
  BY <1>2, OthersChanged
<1> QED BY <1>3 DEF q

\* Windows: the ports 70 and 78.
LEMMA WindowedOK ==
  ASSUME NEW m, MemoryOK(m), NEW p PROVE MemoryOK(Windowed([m EXCEPT !.p70 = p]))
<1> DEFINE s == [m EXCEPT !.p70 = p]
           q == Windowed(s)
<1>1. DOMAIN m = Fields
  BY DEF MemoryOK, MemTypeOK
<1>2. Keeps(m, s, {"p70"}, {}) /\ s.rd = m.rd /\ s.wr = m.wr /\ DOMAIN s = Fields /\ s.p31 = m.p31
  BY <1>1 DEF Keeps, Fields
<1> HIDE DEF s
<1>3. /\ Keeps(s, q, {}, {"80"})
      /\ s.p31 \intersect {1, 2} = {} => q.rd["80"] = Bank80(s) /\ q.wr["80"] = Bank80(s)
      /\ s.p31 \intersect {1, 2} # {} => q = s
  <2>1. CASE s.p31 \intersect {1, 2} = {}
    BY <1>2, <2>1, Update80Is DEF Windowed
  <2>2. CASE s.p31 \intersect {1, 2} # {}
    BY <1>2, <2>2 DEF Windowed, Keeps
  <2> QED BY <2>1, <2>2
<1> HIDE DEF q
<1>4. Keeps(m, q, {"p70"}, {"80"}) /\ q.p31 = s.p31
  BY <1>2, <1>3 DEF Keeps, Fields
<1>5. MemTypeOK(q) /\ RomsThere(q) /\ q.n80mode = m.n80mode
  BY <1>4, TypeUnchanged DEF MemoryOK
<1>6. LowOK(q)
  BY <1>1, <1>4, LowUnchanged DEF MemoryOK, LowPorts, LowCaches, LowRam
<1>7. ASSUME m.n80mode PROVE N80OK(q) /\ UpperPlain(q)
  BY <1>1, <1>4, <1>7, N80Unchanged, PlainUnchanged DEF MemoryOK, Upper
<1>8. ASSUME ~m.n80mode PROVE MidOK(q) /\ HighC0(q) /\ HighF0(q)
  <2>1. q.rd["84"] = m.rd["84"] /\ q.wr["84"] = m.wr["84"]
    BY <1>4 DEF Keeps, RegionIds
  <2>2. Bank80(q) = Bank80(s)
    BY <1>2, <1>3 DEF Bank80, Window, Keeps, Fields
  <2>3. MidOK(q)
    <3>1. CASE s.p31 \intersect {1, 2} = {}
      BY <1>3, <1>8, <2>1, <2>2, <3>1 DEF MemoryOK, MidOK
    <3>2. CASE s.p31 \intersect {1, 2} # {}
      BY <1>2, <1>3, <1>8, <2>1, <2>2, <3>2 DEF MemoryOK, MidOK, Bank80
    <3> QED BY <3>1, <3>2
  <2>4. HighC0(q) /\ HighF0(q)
    BY <1>1, <1>4, <1>8, HighUnchanged DEF MemoryOK, HighPorts, Upper
  <2> QED BY <2>3, <2>4
<1> QED BY <1>5, <1>6, <1>7, <1>8 DEF MemoryOK, q, s

LEMMA Out70OK == ASSUME NEW m, NEW d, MemoryOK(m) PROVE MemoryOK(Out70(m, d)) /\ MemoryOK(Out78(m))
BY WindowedOK DEF Out70, Out78

LEMMA Out71OK == ASSUME NEW m, NEW d, MemoryOK(m) PROVE MemoryOK(Out71(m, d))
<1> DEFINE s == [m EXCEPT !.p71 = d \union ((1..7) \ ERoms)]
           q == Out71(m, d)
<1>1. DOMAIN m = Fields /\ m.n80mode \in BOOLEAN /\ LowTold(m)
  BY LowOKTold DEF MemoryOK, MemTypeOK
<1>2. Keeps(m, s, {"p71"}, {}) /\ s.rd = m.rd /\ s.wr = m.wr /\ DOMAIN s = Fields
  BY <1>1 DEF Keeps, Fields
<1>3. q = IF m.n80mode THEN IF 7 \in m.p33 THEN UpdateN80R(s) ELSE s
          ELSE IF m.p31 \intersect {1, 2} = {} THEN Update60R(s) ELSE s
  BY DEF Out71
<1> HIDE DEF s
<1>4. /\ s.n80mode = m.n80mode /\ s.p99 = m.p99 /\ s.p31 = m.p31 /\ s.r00 = m.r00 /\ s.r60 = m.r60 /\ s.w00 = m.w00
      /\ s.e2 = m.e2 /\ s.e3 = m.e3 /\ s.banks = m.banks /\ s.p32 = m.p32 /\ s.p33 = m.p33
  BY <1>1, <1>2 DEF Keeps, Fields
<1>5. LowTold(s) /\ (\A b : EramAt(s, b) <=> EramAt(m, b)) /\ Eram(s) = Eram(m)
  BY <1>1, <1>2, <1>4 DEF LowTold, EramAt, Eram
<1>6. Rd00(s) = Rd00(m) /\ Wr00(s) = Wr00(m)
  BY <1>4, <1>5 DEF Rd00, Wr00
<1>7. ASSUME m.n80mode PROVE LowOK(q) /\ Keeps(m, q, {"p71"} \union LowCaches, LowRam)
  <2>1. LowOK(s)
    BY <1>1, <1>2, <1>7, N80LowUnchanged DEF MemoryOK, LowCaches
  <2>2. CASE 7 \in m.p33
    <3> DEFINE p == UpdateN80R(s)
    <3>1. /\ Keeps(s, p, {"r00", "r60"}, {"00", "60"}) /\ p.wr = s.wr
          /\ p.rd["00"] = N80Rd00(s) /\ p.r00 = N80Rd00(s) /\ p.rd["60"] = N80Rd60(s) /\ p.r60 = N80Rd60(s)
      BY <1>2, <1>5, UpdateN80RIs
    <3>2. q = p
      BY <1>3, <1>7, <2>2
    <3> HIDE DEF p, q
    <3>3. p.n80mode = s.n80mode /\ N80Rd00(p) = N80Rd00(s) /\ N80Rd60(p) = N80Rd60(s) /\ N80Wr00(p) = N80Wr00(s)
      BY <1>2, <3>1, TargetsKept DEF Fields, LowPorts
    <3>4. p.w00 = s.w00
      BY <1>2, <3>1 DEF Fields, Keeps
    <3>5. LowOK(p)
      BY <1>4, <1>7, <2>1, <3>1, <3>4, <3>3 DEF LowOK, LowRd00, LowRd60, LowWr
    <3>6. Keeps(m, p, {"p71"} \union LowCaches, LowRam)
      BY <1>2, <3>1 DEF Keeps, LowCaches, LowRam
    <3> QED BY <3>2, <3>5, <3>6
  <2>3. CASE 7 \notin m.p33
    <3>1. q = s
      BY <1>3, <1>7, <2>3
    <3> QED BY <1>2, <2>1, <3>1 DEF Keeps
  <2> QED BY <2>2, <2>3
<1>8. ASSUME ~m.n80mode PROVE LowOK(q) /\ Keeps(m, q, {"p71"} \union LowCaches, LowRam)
  <2>1. CASE m.p31 \intersect {1, 2} = {}
    <3> DEFINE p == Update60R(s)
    <3>1. Keeps(s, p, {"r60"}, {"60"}) /\ p.wr = s.wr /\ p.rd["60"] = Rd60(s) /\ p.r60 = Rd60(s)
      BY <1>2, <1>5, Update60RIs
    <3>2. q = p
      BY <1>3, <1>8, <2>1
    <3> HIDE DEF p, q
    <3>3. p.n80mode = s.n80mode /\ Rd00(p) = Rd00(s) /\ Rd60(p) = Rd60(s) /\ Wr00(p) = Wr00(s)
      BY <1>2, <3>1, TargetsKept DEF Fields, LowPorts
    <3>4. p.w00 = s.w00 /\ p.r00 = s.r00 /\ p.rd["00"] = s.rd["00"]
      BY <1>2, <3>1 DEF Fields, Keeps, RegionIds
    <3>5. LowOK(p)
      BY <1>2, <1>4, <1>6, <1>8, <3>1, <3>4, <3>3 DEF LowOK, LowRd00, LowRd60, LowWr, MemoryOK
    <3>6. Keeps(m, p, {"p71"} \union LowCaches, LowRam)
      BY <1>2, <3>1 DEF Keeps, LowCaches, LowRam
    <3> QED BY <3>2, <3>5, <3>6
  <2>2. CASE m.p31 \intersect {1, 2} # {}
    <3>1. q = s
      BY <1>3, <1>8, <2>2
    <3>2. Rd60(s) = Rd60(m)
      BY <1>4, <1>5, <2>2 DEF Rd60
    <3>3. LowOK(s)
      BY <1>2, <1>4, <1>6, <1>8, <3>2 DEF LowOK, LowRd00, LowRd60, LowWr, MemoryOK
    <3> QED BY <1>2, <3>1, <3>3 DEF Keeps
  <2> QED BY <2>1, <2>2
<1> HIDE DEF q
<1>9. LowOK(q) /\ Keeps(m, q, {"p71"} \union LowCaches, LowRam)
  BY <1>1, <1>7, <1>8
<1>10. q.p99 = m.p99
  BY <1>1, <1>9 DEF Keeps, Fields, LowCaches
<1>11. MemoryOK(q)
  BY <1>9, <1>10, LowChanged DEF LowCaches, HighPorts, MemoryOK, RomsThere
<1> QED BY <1>11 DEF q

LEMMA Out99OK == ASSUME NEW m, NEW d, MemoryOK(m) PROVE MemoryOK(Out99(m, d))
<1>1. DOMAIN m = Fields /\ m.n80mode \in BOOLEAN /\ LowTold(m)
  BY LowOKTold DEF MemoryOK, MemTypeOK
<1>2. CASE "CDBIOS" \in Has /\ ~m.n80mode
  <2> DEFINE s == [m EXCEPT !.p99 = d \intersect {0, 4}]
             q == Update60R(Update00R(s))
  <2>1. Keeps(m, s, {"p99"}, {}) /\ s.rd = m.rd /\ s.wr = m.wr /\ DOMAIN s = Fields
    BY <1>1 DEF Keeps, Fields
  <2> HIDE DEF s
  <2>2. /\ s.n80mode = m.n80mode /\ s.r00 = m.r00 /\ s.r60 = m.r60 /\ s.w00 = m.w00
        /\ s.e2 = m.e2 /\ s.e3 = m.e3 /\ s.banks = m.banks
    BY <1>1, <2>1 DEF Keeps, Fields
  <2>3. LowTold(s) /\ Wr00(s) = Wr00(m)
    BY <1>1, <2>1, <2>2 DEF LowTold, Wr00, EramAt, Eram
  <2>4. s.w00 = Wr00(s) /\ s.wr["00"] = Wr00(s) /\ s.wr["60"] = Wr00(s)
    BY <1>2, <2>1, <2>2, <2>3 DEF MemoryOK, LowOK, LowWr
  <2>5. LowOK(q) /\ Keeps(s, q, LowCaches, LowRam)
    BY <1>2, <2>1, <2>2, <2>3, <2>4, Low88Refreshed
  <2> HIDE DEF q
  <2>6. Keeps(m, q, {"p99"} \union LowCaches, LowRam)
    BY <2>1, <2>5 DEF Keeps
  <2>7. MemoryOK(q)
    BY <1>2, <2>5, <2>6, LowChanged DEF LowCaches, HighPorts
  <2> QED BY <1>2, <2>7 DEF q, s, Out99
<1>3. CASE ~("CDBIOS" \in Has /\ ~m.n80mode)
  <2> DEFINE s == [m EXCEPT !.p99 = {}]
  <2>1. Keeps(m, s, {"p99"}, {}) /\ s.p99 = {}
    BY <1>1 DEF Keeps, Fields
  <2>2. s = Out99(m, d)
    BY <1>3 DEF Out99
  <2> HIDE DEF s
  <2>3. LowOK(s)
    <3>1. CASE m.n80mode
      BY <1>1, <2>1, <3>1, N80LowUnchanged DEF MemoryOK, LowCaches
    <3>2. CASE ~m.n80mode
      <4>1. s.p99 = m.p99
        BY <1>3, <2>1, <3>2 DEF MemoryOK, RomsThere
      <4>2. Keeps(m, s, {}, {})
        BY <2>1, <4>1 DEF Keeps
      <4> QED BY <1>1, <4>2, LowUnchanged DEF MemoryOK
    <3> QED BY <1>1, <3>1, <3>2
  <2>4. Keeps(m, s, {"p99"}, LowRam)
    BY <2>1, KeepsMore
  <2>5. MemoryOK(s)
    BY <2>1, <2>3, <2>4, LowChanged DEF HighPorts
  <2> QED BY <2>2, <2>5
<1> QED BY <1>2, <1>3

-----------------------------------------------------------------------------
(* The ports of the upper regions.                                           *)

\* With no graphics memory selected there is none, and rc0 is right.
LEMMA HighBefore ==
  ASSUME NEW m, HighC0(m), ~m.selgvram PROVE m.wr["C0"] = RAM /\ HighTold(m)
BY DEF HighC0, Chosen, GetHiBank, HighWr

LEMMA HighRefreshed ==
  ASSUME NEW m, MemoryOK(m), ~m.n80mode, NEW s, Keeps(m, s, {"p35", "p5x", "f0", "seldic"}, {}), s.rd = m.rd, s.wr = m.wr,
         s.seldic \in BOOLEAN, s.seldic => "Jisyo" \in Has
  PROVE  MemoryOK(UpdateF0(UpdateC0(s)))
<1> DEFINE q == UpdateF0(UpdateC0(s))
           S == {"p35", "p5x", "f0", "seldic"} \union HighFields
<1>1. DOMAIN m = Fields /\ m.n80mode = FALSE /\ m.selgvram \in BOOLEAN
  BY DEF MemoryOK, MemTypeOK
<1>2. DOMAIN s = Fields /\ s.selgvram = m.selgvram /\ s.rc0 = m.rc0
  BY <1>1 DEF Keeps, Fields
<1>3. ~s.selgvram => s.wr["C0"] = RAM /\ HighTold(s)
  BY <1>2, HighBefore DEF MemoryOK, HighTold
<1>4. Keeps(s, q, HighFields, Upper) /\ HighC0(q) /\ HighF0(q) /\ q.selgvram \in BOOLEAN
  BY <1>1, <1>2, <1>3, HighIs
<1> HIDE DEF q
<1>5. Keeps(m, q, S, Upper)
  BY <1>4 DEF Keeps
<1>6. LowOK(q)
  BY <1>1, <1>5, LowUnchanged DEF MemoryOK, HighFields, Waits, LowPorts, LowCaches, Upper, LowRam
<1>7. MidOK(q)
  BY <1>1, <1>5, MidUnchanged DEF MemoryOK, HighFields, Waits, Upper
<1>8. q.n80mode = m.n80mode /\ q.p99 = m.p99 /\ DOMAIN q = Fields
  BY <1>1, <1>5 DEF Keeps, Fields, HighFields, Waits
<1>9. q.seldic = s.seldic
  BY <1>2, <1>4 DEF Keeps, Fields, HighFields, Waits
<1>10. MemTypeOK(q) /\ RomsThere(q)
  BY <1>1, <1>4, <1>8, <1>9 DEF MemoryOK, MemTypeOK, RomsThere
<1> QED BY <1>1, <1>4, <1>6, <1>7, <1>8, <1>10 DEF MemoryOK, q

\* The graphics window of the N80 modes, worked out from other ports.
LEMMA N80Refreshed ==
  ASSUME NEW m, MemTypeOK(m), RomsThere(m), m.n80mode, NEW s, Keeps(m, s, {"p35", "p5x", "f0"}, {}), s.rd = m.rd, s.wr = m.wr,
         LowOK(m), UpperPlain(m), ~m.selgvram => m.rd["84"] = RAM /\ m.wr["84"] = RAM
  PROVE  MemoryOK(UpdateN80G(s))
<1> DEFINE q == UpdateN80G(s)
           S == {"p35", "p5x", "f0"} \union HighFields
<1>1. DOMAIN m = Fields /\ m.n80mode = TRUE /\ m.selgvram \in BOOLEAN
  BY DEF MemTypeOK
<1>2. DOMAIN s = Fields /\ s.selgvram = m.selgvram
  BY <1>1 DEF Keeps, Fields
<1>3. Keeps(s, q, HighFields, {"80", "84"}) /\ N80OK(q) /\ q.selgvram \in BOOLEAN
  BY <1>1, <1>2, UpdateN80GIs
<1> HIDE DEF q
<1>4. Keeps(m, q, S, {"80", "84"})
  BY <1>3 DEF Keeps
<1>5. LowOK(q)
  BY <1>1, <1>4, LowUnchanged DEF HighFields, Waits, LowPorts, LowCaches, LowRam
<1>6. q.n80mode = m.n80mode /\ q.p99 = m.p99 /\ DOMAIN q = Fields /\ q.seldic = m.seldic
  BY <1>1, <1>4 DEF Keeps, Fields, HighFields, Waits
<1>7. MemTypeOK(q) /\ RomsThere(q)
  BY <1>1, <1>3, <1>6 DEF MemTypeOK, RomsThere
<1>8. UpperPlain(q)
  BY <1>4, PlainUnchanged DEF Upper
<1> QED BY <1>1, <1>3, <1>5, <1>6, <1>7, <1>8 DEF MemoryOK, q

LEMMA N80Before ==
  ASSUME NEW m, MemoryOK(m), m.n80mode
  PROVE  UpperPlain(m) /\ (~m.selgvram => m.rd["84"] = RAM /\ m.wr["84"] = RAM)
BY DEF MemoryOK, N80OK, ChosenN80, GraphicsN80

LEMMA Out35OK == ASSUME NEW m, NEW d, MemoryOK(m) PROVE MemoryOK(Out35(m, d))
<1> DEFINE s == [m EXCEPT !.p35 = d, !.p5x = IF 7 \in d THEN 3 ELSE @]
<1>1. DOMAIN m = Fields /\ MemTypeOK(m) /\ RomsThere(m) /\ LowOK(m) /\ m.n80mode \in BOOLEAN /\ m.seldic \in BOOLEAN
  BY DEF MemoryOK, MemTypeOK
<1>2. Keeps(m, s, {"p35", "p5x"}, {}) /\ s.rd = m.rd /\ s.wr = m.wr /\ s.seldic = m.seldic
  BY <1>1 DEF Keeps, Fields
<1>3. Out35(m, d) = IF NoALU(m) THEN m ELSE IF m.n80mode THEN UpdateN80G(s) ELSE UpdateF0(UpdateC0(s))
  BY DEF Out35
<1> HIDE DEF s
<1>4. Keeps(m, s, {"p35", "p5x", "f0"}, {}) /\ Keeps(m, s, {"p35", "p5x", "f0", "seldic"}, {})
  BY <1>2, KeepsMore
<1>5. CASE m.n80mode
  BY <1>1, <1>2, <1>3, <1>4, <1>5, N80Refreshed, N80Before
<1>6. CASE ~m.n80mode
  BY <1>1, <1>2, <1>3, <1>4, <1>6, HighRefreshed DEF RomsThere, NoALU
<1> QED BY <1>1, <1>5, <1>6

LEMMA Out5xOK == ASSUME NEW m, NEW bank, MemoryOK(m) PROVE MemoryOK(Out5x(m, bank))
<1> DEFINE s == [m EXCEPT !.p5x = bank]
<1>1. DOMAIN m = Fields /\ MemTypeOK(m) /\ RomsThere(m) /\ LowOK(m) /\ m.n80mode \in BOOLEAN /\ m.seldic \in BOOLEAN
  BY DEF MemoryOK, MemTypeOK
<1>2. Keeps(m, s, {"p5x"}, {}) /\ s.rd = m.rd /\ s.wr = m.wr /\ s.seldic = m.seldic
  BY <1>1 DEF Keeps, Fields
<1>3. Out5x(m, bank) = IF ~m.n80mode THEN UpdateF0(UpdateC0(s)) ELSE IF ~m.n80sr /\ bank \in {1, 2} THEN m ELSE UpdateN80G(s)
  BY DEF Out5x
<1> HIDE DEF s
<1>4. Keeps(m, s, {"p35", "p5x", "f0"}, {}) /\ Keeps(m, s, {"p35", "p5x", "f0", "seldic"}, {})
  BY <1>2, KeepsMore
<1>5. CASE m.n80mode
  BY <1>1, <1>2, <1>3, <1>4, <1>5, N80Refreshed, N80Before
<1>6. CASE ~m.n80mode
  BY <1>1, <1>2, <1>3, <1>4, <1>6, HighRefreshed DEF RomsThere
<1> QED BY <1>1, <1>5, <1>6

LEMMA Outf0OK == ASSUME NEW m, NEW bank, MemoryOK(m) PROVE MemoryOK(Outf0(m, bank))
<1> DEFINE s == [m EXCEPT !.f0 = bank]
<1>1. DOMAIN m = Fields /\ MemTypeOK(m) /\ RomsThere(m) /\ LowOK(m) /\ m.n80mode \in BOOLEAN /\ m.seldic \in BOOLEAN
  BY DEF MemoryOK, MemTypeOK
<1>2. Keeps(m, s, {"f0"}, {}) /\ s.rd = m.rd /\ s.wr = m.wr /\ s.seldic = m.seldic
  BY <1>1 DEF Keeps, Fields
<1>3. Outf0(m, bank) = IF JisyoUsable(m) THEN UpdateF0(UpdateC0(s)) ELSE s
  BY <1>1 DEF Outf0, JisyoUsable, Fields
<1> HIDE DEF s
<1>4. CASE JisyoUsable(m)
  <2>1. Keeps(m, s, {"p35", "p5x", "f0", "seldic"}, {})
    BY <1>2, KeepsMore
  <2> QED BY <1>1, <1>2, <1>3, <1>4, <2>1, HighRefreshed DEF RomsThere, JisyoUsable
\* Without the dictionary the port is only remembered.
<1>5. CASE ~JisyoUsable(m)
  <2>1. LowOK(s)
    BY <1>1, <1>2, LowUnchanged DEF LowPorts, LowCaches
  <2>2. MemTypeOK(s) /\ RomsThere(s) /\ s.n80mode = m.n80mode
    BY <1>1, <1>2, TypeUnchanged
  <2>3. ASSUME m.n80mode PROVE N80OK(s) /\ UpperPlain(s)
    BY <1>1, <1>2, <2>3, N80Unchanged, PlainUnchanged DEF MemoryOK
  <2>4. ASSUME ~m.n80mode PROVE MidOK(s) /\ HighC0(s) /\ HighF0(s)
    <3>1. MidOK(s)
      BY <1>1, <1>2, <2>4, MidUnchanged DEF MemoryOK
    <3>2. ~s.seldic /\ ~m.seldic
      BY <1>1, <1>2, <1>5, <2>4 DEF JisyoUsable, RomsThere
    <3>3. /\ s.p32 = m.p32 /\ s.p35 = m.p35 /\ s.p5x = m.p5x /\ s.sw31 = m.sw31
          /\ s.selgvram = m.selgvram /\ s.rc0 = m.rc0
      BY <1>1, <1>2 DEF Keeps, Fields
    <3>4. (Chosen(s) <=> Chosen(m)) /\ \A r : GetHiBank(s, r) = GetHiBank(m, r) /\ HighWr(s, r) = HighWr(m, r)
      BY <3>3 DEF Chosen, GetHiBank, TVRAMShown, HighWr, ALUFunction
    <3>5. HighTold(s)
      BY <1>2, <2>4, <3>3 DEF MemoryOK, HighC0, HighTold
    <3> QED BY <1>2, <2>4, <3>1, <3>2, <3>3, <3>4, <3>5 DEF MemoryOK, HighC0, HighF0, HighRd
  <2> QED BY <1>3, <1>5, <2>1, <2>2, <2>3, <2>4 DEF MemoryOK
<1> QED BY <1>4, <1>5

LEMMA Outf1OK == ASSUME NEW m, NEW d, MemoryOK(m) PROVE MemoryOK(Outf1(m, d))
<1> DEFINE s == [m EXCEPT !.seldic = 0 \notin d]
<1>1. DOMAIN m = Fields
  BY DEF MemoryOK, MemTypeOK
<1>2. Keeps(m, s, {"seldic"}, {}) /\ s.rd = m.rd /\ s.wr = m.wr /\ s.seldic = (0 \notin d)
  BY <1>1 DEF Keeps, Fields
<1>3. Outf1(m, d) = IF JisyoUsable(m) THEN UpdateF0(UpdateC0(s)) ELSE m
  BY DEF Outf1
<1> HIDE DEF s
<1>4. Keeps(m, s, {"p35", "p5x", "f0", "seldic"}, {}) /\ s.seldic \in BOOLEAN
  BY <1>2, KeepsMore
<1> QED BY <1>2, <1>3, <1>4, HighRefreshed DEF JisyoUsable

\* Port 32 asks for C000-FFFF with its bits 4 and 6.
LEMMA HighByBit6 ==
  ASSUME NEW m, NEW q, \A f \in HighPorts \ {"p32"} : q[f] = m[f], 6 \in q.p32 <=> 6 \in m.p32
  PROVE  /\ Jisyo(q) = Jisyo(m) /\ q.seldic = m.seldic /\ (Chosen(q) <=> Chosen(m))
         /\ HighWr(q, "C0") = HighWr(m, "C0") /\ HighRd(q, "C0") = HighRd(m, "C0")
         /\ Chosen(m) => HighWr(q, "F0") = HighWr(m, "F0") /\ HighRd(q, "F0") = HighRd(m, "F0")
         /\ m.seldic => HighRd(q, "F0") = HighRd(m, "F0")
         /\ (4 \in q.p32 <=> 4 \in m.p32) => HighWr(q, "F0") = HighWr(m, "F0") /\ HighRd(q, "F0") = HighRd(m, "F0")
<1>1. q.p35 = m.p35 /\ q.p5x = m.p5x /\ q.seldic = m.seldic /\ q.f0 = m.f0 /\ q.sw31 = m.sw31
  BY DEF HighPorts
<1>2. Jisyo(q) = Jisyo(m) /\ (Chosen(q) <=> Chosen(m)) /\ GetHiBank(q, "C0") = GetHiBank(m, "C0")
  BY <1>1 DEF Jisyo, Chosen, GetHiBank
<1>3. Chosen(m) => GetHiBank(q, "F0") = GetHiBank(m, "F0")
  BY <1>1 DEF Chosen, GetHiBank
<1>4. (4 \in q.p32 <=> 4 \in m.p32) => GetHiBank(q, "F0") = GetHiBank(m, "F0")
  BY <1>1 DEF GetHiBank, TVRAMShown
<1>5. ALUFunction(q) = ALUFunction(m)
  BY <1>1 DEF ALUFunction
<1> QED BY <1>1, <1>2, <1>3, <1>4, <1>5 DEF HighRd, HighWr

LEMMA Out32OK == ASSUME NEW m, NEW d, MemoryOK(m) PROVE MemoryOK(Out32(m, d))
<1> DEFINE mod == Toggled(d, m.p32)
           a == [m EXCEPT !.p32 = d]
           b == IF mod \intersect {0, 1} # {} THEN Update60R(a) ELSE a
           c == IF 6 \in mod THEN UpdateC0(b) ELSE b
           q == IF mod \intersect {4, 6} # {} THEN UpdateF0(c) ELSE c
<1>1. DOMAIN m = Fields /\ m.n80mode \in BOOLEAN /\ LowTold(m) /\ m.selgvram \in BOOLEAN /\ m.seldic \in BOOLEAN
  BY LowOKTold DEF MemoryOK, MemTypeOK
<1>2. Out32(m, d) = IF m.n80mode THEN m ELSE q
  BY DEF Out32
<1>3. CASE m.n80mode
  BY <1>2, <1>3
<1>4. ASSUME ~m.n80mode PROVE MemoryOK(q)
  <2>1. Keeps(m, a, {"p32"}, {}) /\ a.rd = m.rd /\ a.wr = m.wr /\ DOMAIN a = Fields /\ a.p32 = d
    BY <1>1 DEF Keeps, Fields
  <2> HIDE DEF a
  <2>2. /\ a.n80mode = m.n80mode /\ a.p99 = m.p99 /\ a.p31 = m.p31 /\ a.p71 = m.p71 /\ a.r00 = m.r00 /\ a.r60 = m.r60 /\ a.w00 = m.w00
        /\ a.e2 = m.e2 /\ a.e3 = m.e3 /\ a.banks = m.banks
    BY <1>1, <2>1 DEF Keeps, Fields
  <2>3. LowTold(a) /\ (\A i : EramAt(a, i) <=> EramAt(m, i)) /\ Eram(a) = Eram(m) /\ Highest(a) = Highest(m)
    BY <1>1, <2>1, <2>2 DEF LowTold, EramAt, Eram, Highest
  <2>4. Rd00(a) = Rd00(m) /\ Wr00(a) = Wr00(m)
    BY <2>2, <2>3 DEF Rd00, Wr00
  <2>5. LowOK(b) /\ Keeps(m, b, {"p32", "r60"}, {"60"}) /\ b.p32 = d
    <3>1. CASE mod \intersect {0, 1} # {}
      <4> DEFINE p == Update60R(a)
      <4>1. Keeps(a, p, {"r60"}, {"60"}) /\ p.wr = a.wr /\ p.rd["60"] = Rd60(a) /\ p.r60 = Rd60(a)
        BY <2>1, <2>3, Update60RIs
      <4> HIDE DEF p
      <4>2. p.n80mode = a.n80mode /\ Rd00(p) = Rd00(a) /\ Rd60(p) = Rd60(a) /\ Wr00(p) = Wr00(a)
        BY <2>1, <4>1, TargetsKept DEF Fields, LowPorts
      <4>3. p.w00 = a.w00 /\ p.r00 = a.r00 /\ p.rd["00"] = a.rd["00"] /\ p.p32 = d
        BY <2>1, <4>1 DEF Keeps, Fields, RegionIds
      <4>4. LowOK(p)
        BY <1>4, <2>1, <2>2, <2>4, <4>1, <4>2, <4>3 DEF LowOK, LowRd00, LowRd60, LowWr, MemoryOK
      <4>5. Keeps(m, p, {"p32", "r60"}, {"60"})
        BY <2>1, <4>1 DEF Keeps
      <4> QED BY <3>1, <4>3, <4>4, <4>5 DEF p
    <3>2. CASE mod \intersect {0, 1} = {}
      <4>1. InternalBank(a) = InternalBank(m)
        BY <2>1, <3>2 DEF InternalBank, Toggled
      <4>2. Rd60(a) = Rd60(m)
        BY <2>2, <2>3, <4>1 DEF Rd60
      <4>3. LowOK(a)
        BY <1>4, <2>1, <2>2, <2>4, <4>2 DEF LowOK, LowRd00, LowRd60, LowWr, MemoryOK
      <4> QED BY <2>1, <3>2, <4>3 DEF Keeps
    <3> QED BY <3>1, <3>2
  <2>6. (6 \notin mod => (6 \in d <=> 6 \in m.p32)) /\ (4 \notin mod => (4 \in d <=> 4 \in m.p32))
    BY DEF Toggled
  <2> HIDE DEF b, mod
  <2>7. /\ DOMAIN b = Fields /\ b.selgvram = m.selgvram /\ b.seldic = m.seldic /\ b.rc0 = m.rc0
        /\ \A f \in HighPorts \ {"p32"} : b[f] = m[f]
        /\ \A r \in Upper : b.rd[r] = m.rd[r] /\ b.wr[r] = m.wr[r]
    BY <1>1, <2>5 DEF Keeps, Fields, HighPorts, RegionIds, Upper
  <2>8. HighC0(m) /\ HighF0(m)
    BY <1>4 DEF MemoryOK
  <2>9. HighTold(b)
    BY <2>7, <2>8 DEF HighC0, HighTold, Upper
  <2>10. Keeps(b, q, HighFields, Upper) /\ HighC0(q) /\ HighF0(q) /\ q.selgvram \in BOOLEAN
    <3>1. CASE 6 \in mod
      <4>1. q = UpdateF0(UpdateC0(b))
        BY <3>1
      <4>2. ~b.selgvram => b.wr["C0"] = RAM /\ HighTold(b)
        BY <2>7, <2>8, <2>9, HighBefore DEF Upper
      <4> HIDE DEF q
      <4> QED BY <1>1, <2>7, <4>1, <4>2, HighIs
    <3>2. CASE 6 \notin mod
      <4>1. 6 \in b.p32 <=> 6 \in m.p32
        BY <2>5, <2>6, <3>2
      <4>2. /\ Jisyo(b) = Jisyo(m) /\ (Chosen(b) <=> Chosen(m))
            /\ HighWr(b, "C0") = HighWr(m, "C0") /\ HighRd(b, "C0") = HighRd(m, "C0")
            /\ Chosen(m) => HighWr(b, "F0") = HighWr(m, "F0") /\ HighRd(b, "F0") = HighRd(m, "F0")
            /\ m.seldic => HighRd(b, "F0") = HighRd(m, "F0")
            /\ (4 \in b.p32 <=> 4 \in m.p32) => HighWr(b, "F0") = HighWr(m, "F0") /\ HighRd(b, "F0") = HighRd(m, "F0")
        BY <2>7, <4>1, HighByBit6
      <4>3. HighC0(b)
        BY <2>7, <2>8, <2>9, <4>2 DEF HighC0, Upper
      <4>4. CASE 4 \in mod
        <5>1. HighC0Settled(b)
          <6>1. (m.selgvram <=> Chosen(m)) /\ m.rd["F0"] = HighRd(m, "F0") /\ (~m.seldic => m.wr["F0"] = HighWr(m, "F0"))
            BY <2>8 DEF HighC0, HighF0
          <6>2. b.rd["F0"] = m.rd["F0"] /\ b.wr["F0"] = m.wr["F0"]
            BY <2>7 DEF Upper
          <6>3. (b.selgvram \/ b.seldic) => b.rd["F0"] = HighRd(b, "F0")
            BY <2>7, <4>2, <6>1, <6>2
          <6> QED BY <1>1, <2>7, <4>2, <4>3, <6>1, <6>2, <6>3 DEF HighC0Settled
        <5> DEFINE p == UpdateF0(b)
        <5>2. Keeps(b, p, {}, {"F0"}) /\ HighC0(p) /\ HighF0(p)
          BY <1>1, <2>7, <5>1, UpdateF0Is
        <5> HIDE DEF p
        <5>3. p.selgvram = b.selgvram
          BY <2>7, <5>2 DEF Keeps, Fields
        <5>4. Keeps(b, p, HighFields, Upper)
          BY <5>2, KeepsMore DEF Upper
        <5>5. q = p
          BY <3>2, <4>4 DEF p
        <5> QED BY <1>1, <2>7, <5>2, <5>3, <5>4, <5>5
      <4>5. CASE 4 \notin mod
        <5>1. HighF0(b)
          BY <2>5, <2>6, <2>7, <2>8, <4>2, <4>5 DEF HighF0, Upper
        <5>2. q = b
          BY <3>2, <4>5
        <5> QED BY <1>1, <2>7, <4>3, <5>1, <5>2, KeepsSelf
      <4> QED BY <4>4, <4>5
    <3> QED BY <3>1, <3>2
  <2> HIDE DEF q
  <2>11. Keeps(m, q, {"p32", "r60"} \union HighFields, {"60"} \union Upper)
    BY <2>5, <2>10 DEF Keeps
  <2>12. LowOK(q)
    BY <2>5, <2>7, <2>10, LowUnchanged DEF HighFields, Waits, LowPorts, LowCaches, Upper, LowRam
  <2>13. MidOK(q)
    BY <1>1, <1>4, <2>11, MidUnchanged DEF MemoryOK, HighFields, Waits, Upper
  <2>14. q.n80mode = m.n80mode /\ q.p99 = m.p99 /\ DOMAIN q = Fields /\ q.seldic = m.seldic
    BY <1>1, <2>11 DEF Keeps, Fields, HighFields, Waits
  <2>15. MemTypeOK(q) /\ RomsThere(q)
    BY <1>1, <2>10, <2>14 DEF MemoryOK, MemTypeOK, RomsThere
  <2> QED BY <1>4, <2>10, <2>12, <2>13, <2>14, <2>15 DEF MemoryOK
<1> QED BY <1>1, <1>2, <1>3, <1>4

LEMMA Out33OK == ASSUME NEW m, NEW d, MemoryOK(m) PROVE MemoryOK(Out33(m, d))
<1> DEFINE mod == Toggled(d, m.p33)
           a == [m EXCEPT !.p33 = d]
           b == IF 7 \in mod THEN UpdateN80R(a) ELSE a
           q == IF 6 \in mod THEN UpdateN80G(b) ELSE b
<1>1. DOMAIN m = Fields /\ m.n80mode \in BOOLEAN /\ LowTold(m) /\ m.selgvram \in BOOLEAN /\ m.seldic \in BOOLEAN
  BY LowOKTold DEF MemoryOK, MemTypeOK
<1>2. Out33(m, d) = IF ~m.n80mode THEN m ELSE q
  BY DEF Out33
<1>3. CASE ~m.n80mode
  BY <1>2, <1>3
<1>4. ASSUME m.n80mode PROVE MemoryOK(q)
  <2>1. Keeps(m, a, {"p33"}, {}) /\ a.rd = m.rd /\ a.wr = m.wr /\ DOMAIN a = Fields /\ a.p33 = d
    BY <1>1 DEF Keeps, Fields
  <2> HIDE DEF a
  <2>2. /\ a.n80mode = m.n80mode /\ a.p31 = m.p31 /\ a.r00 = m.r00 /\ a.r60 = m.r60 /\ a.w00 = m.w00
        /\ a.e2 = m.e2 /\ a.e3 = m.e3 /\ a.banks = m.banks
    BY <1>1, <2>1 DEF Keeps, Fields
  <2>3. LowTold(a) /\ (\A i : ExtendedN80(a, i) <=> ExtendedN80(m, i)) /\ Eram(a) = Eram(m)
    BY <1>1, <2>1, <2>2 DEF LowTold, ExtendedN80, Eram
  <2>4. N80Wr00(a) = N80Wr00(m)
    BY <2>2, <2>3 DEF N80Wr00
  <2>5. LowOK(b) /\ Keeps(m, b, {"p33", "r00", "r60"}, LowRam) /\ b.p33 = d
    <3>1. CASE 7 \in mod
      <4> DEFINE p == UpdateN80R(a)
      <4>1. /\ Keeps(a, p, {"r00", "r60"}, {"00", "60"}) /\ p.wr = a.wr
            /\ p.rd["00"] = N80Rd00(a) /\ p.r00 = N80Rd00(a) /\ p.rd["60"] = N80Rd60(a) /\ p.r60 = N80Rd60(a)
        BY <2>1, <2>3, UpdateN80RIs
      <4> HIDE DEF p
      <4>2. p.n80mode = a.n80mode /\ N80Rd00(p) = N80Rd00(a) /\ N80Rd60(p) = N80Rd60(a) /\ N80Wr00(p) = N80Wr00(a)
        BY <2>1, <4>1, TargetsKept DEF Fields, LowPorts
      <4>3. p.w00 = a.w00 /\ p.p33 = d
        BY <2>1, <4>1 DEF Keeps, Fields
      <4>4. LowOK(p)
        BY <1>4, <2>1, <2>2, <2>4, <4>1, <4>2, <4>3 DEF LowOK, LowRd00, LowRd60, LowWr, MemoryOK
      <4>5. Keeps(m, p, {"p33", "r00", "r60"}, LowRam)
        BY <2>1, <4>1 DEF Keeps, LowRam
      <4> QED BY <3>1, <4>3, <4>4, <4>5 DEF p
    <3>2. CASE 7 \notin mod
      <4>1. 7 \in a.p33 <=> 7 \in m.p33
        BY <2>1, <3>2 DEF Toggled
      <4>2. N80Rd00(a) = N80Rd00(m)
        BY <2>2, <2>3, <4>1 DEF N80Rd00
      <4>3. N80Rd60(a) = N80Rd60(m)
        BY <2>2, <2>3, <4>1, <4>2 DEF N80Rd60
      <4>4. LowOK(a)
        BY <1>4, <2>1, <2>2, <2>4, <4>2, <4>3 DEF LowOK, LowRd00, LowRd60, LowWr, MemoryOK
      <4> QED BY <2>1, <3>2, <4>4 DEF Keeps
    <3> QED BY <3>1, <3>2
  <2>6. 6 \notin mod => (6 \in d <=> 6 \in m.p33)
    BY DEF Toggled
  <2> HIDE DEF b, mod
  <2>7. /\ DOMAIN b = Fields /\ b.selgvram = m.selgvram /\ b.seldic = m.seldic /\ b.n80mode = m.n80mode /\ b.p99 = m.p99
        /\ b.p35 = m.p35 /\ b.p5x = m.p5x /\ b.rd["84"] = m.rd["84"] /\ b.wr["84"] = m.wr["84"]
    BY <1>1, <2>5 DEF Keeps, Fields, RegionIds, LowRam
  <2>8. MemTypeOK(b) /\ RomsThere(b)
    BY <1>1, <2>7 DEF MemTypeOK, RomsThere, MemoryOK
  <2>9. UpperPlain(b) /\ (~b.selgvram => b.rd["84"] = RAM /\ b.wr["84"] = RAM)
    <3>1. UpperPlain(b)
      BY <1>4, <2>5, N80Before, PlainUnchanged DEF LowRam, Upper
    <3> QED BY <1>4, <2>7, <3>1, N80Before
  <2>10. CASE 6 \in mod
    <3>1. Keeps(b, b, {"p35", "p5x", "f0"}, {})
      BY KeepsSelf
    <3>2. MemoryOK(UpdateN80G(b))
      BY <1>4, <2>5, <2>7, <2>8, <2>9, <3>1, N80Refreshed
    <3> QED BY <2>10, <3>2
  <2>11. CASE 6 \notin mod
    <3>1. (6 \in b.p33 <=> 6 \in m.p33) /\ N80OK(m)
      BY <1>4, <2>5, <2>6, <2>11 DEF MemoryOK
    <3>2. N80OK(b)
      BY <2>7, <3>1 DEF N80OK, ChosenN80, GraphicsN80, ALUFunction
    <3> QED BY <1>4, <2>5, <2>7, <2>8, <2>9, <2>11, <3>2 DEF MemoryOK
  <2> QED BY <2>10, <2>11
<1> QED BY <1>1, <1>2, <1>3, <1>4

LEMMA WrittenOK == ASSUME NEW m, NEW w, MemoryOK(m) PROVE MemoryOK(Written(m, w))
BY Out31OK, Out32OK, Out33OK, Out34OK, Out35OK, Out40OK, Out5xOK, Out70OK, Out71OK, Out99OK, OuteOK, Outf0OK, Outf1OK
   DEF Written

-----------------------------------------------------------------------------
(* Reset, the configuration, the retrace and graphics memory.                *)

\* Reset leaves the regions above as RAM and remembers nothing of the low ones.
Bare(c) ==
  /\ DOMAIN c = Fields /\ c.n80mode \in BOOLEAN /\ c.seldic \in BOOLEAN /\ c.selgvram = TRUE /\ RomsThere(c)
  /\ c.r00 = Neither /\ c.r60 = Neither /\ c.w00 = Neither
  /\ \A r \in RegionIds \ LowRam : c.rd[r] = RAM /\ c.wr[r] = RAM

LEMMA Bare88 ==
  ASSUME NEW c, Bare(c), ~c.n80mode
  PROVE  MemoryOK(UpdateF0(UpdateC0(Update80(Update60R(Update00W(Update00R(c)))))))
<1> DEFINE p1 == Update00R(c)
           p2 == Update00W(p1)
           p3 == Update60R(p2)
           p4 == Update80(p3)
           q == UpdateF0(UpdateC0(p4))
<1>1. DOMAIN c = Fields /\ LowTold(c)
  BY DEF Bare, LowTold
<1>2. Keeps(c, p1, {"r00"}, {"00"}) /\ p1.wr = c.wr /\ p1.rd["00"] = Rd00(c) /\ p1.r00 = Rd00(c)
  BY <1>1, Update00RIs
<1> HIDE DEF p1
<1>3. DOMAIN p1 = Fields /\ p1.r60 = Neither /\ p1.w00 = Neither
  BY <1>1, <1>2 DEF Keeps, Fields, Bare
<1>4. LowTold(p1)
  BY <1>2, <1>3 DEF LowTold
<1>5. Rd00(p1) = Rd00(c) /\ Rd60(p1) = Rd60(c) /\ Wr00(p1) = Wr00(c)
  BY <1>1, <1>2, TargetsKept DEF Fields, LowPorts
<1>6. Keeps(p1, p2, {"w00"}, LowRam) /\ p2.rd = p1.rd /\ p2.w00 = Wr00(c) /\ p2.wr["00"] = Wr00(c) /\ p2.wr["60"] = Wr00(c)
  BY <1>3, <1>4, <1>5, Update00WIs
<1> HIDE DEF p2
<1>7. DOMAIN p2 = Fields /\ p2.r60 = Neither /\ p2.r00 = Rd00(c)
  BY <1>2, <1>3, <1>6 DEF Keeps, Fields
<1>8. LowTold(p2)
  BY <1>2, <1>6, <1>7 DEF LowTold
<1>9. Rd00(p2) = Rd00(c) /\ Rd60(p2) = Rd60(c) /\ Wr00(p2) = Wr00(c)
  BY <1>3, <1>5, <1>6, TargetsKept DEF Fields, LowPorts
<1>10. Keeps(p2, p3, {"r60"}, {"60"}) /\ p3.wr = p2.wr /\ p3.rd["60"] = Rd60(c) /\ p3.r60 = Rd60(c)
  BY <1>7, <1>8, <1>9, Update60RIs
<1> HIDE DEF p3
<1>11. p3.r00 = Rd00(c) /\ p3.rd["00"] = Rd00(c) /\ p3.w00 = Wr00(c) /\ DOMAIN p3 = Fields
  BY <1>2, <1>6, <1>7, <1>10 DEF Keeps, Fields, RegionIds
<1>12. Rd00(p3) = Rd00(c) /\ Rd60(p3) = Rd60(c) /\ Wr00(p3) = Wr00(c)
  BY <1>7, <1>9, <1>10, TargetsKept DEF Fields, LowPorts
<1>13. Keeps(c, p3, LowCaches, LowRam)
  BY <1>2, <1>6, <1>10 DEF Keeps, LowCaches, LowRam
<1>14. p3.n80mode = c.n80mode
  BY <1>1, <1>13 DEF Keeps, Fields, LowCaches
<1>15. LowOK(p3)
  BY <1>6, <1>10, <1>11, <1>12, <1>14 DEF LowOK, LowRd00, LowRd60, LowWr
<1>16. Keeps(p3, p4, {}, {"80"}) /\ p4.rd["80"] = Bank80(p3) /\ p4.wr["80"] = Bank80(p3)
  BY <1>11, Update80Is
<1> HIDE DEF p4
<1>17. Keeps(c, p4, LowCaches, LowRam \union {"80"}) /\ DOMAIN p4 = Fields
  BY <1>11, <1>13, <1>16 DEF Keeps
<1>18. LowOK(p4)
  BY <1>11, <1>15, <1>16, LowUnchanged DEF LowRam
<1>19. MidOK(p4)
  <2>1. p4.rd["84"] = RAM /\ p4.wr["84"] = RAM
    BY <1>17 DEF Bare, Keeps, RegionIds, LowRam
  <2>2. Bank80(p4) = Bank80(p3)
    BY <1>11, <1>16 DEF Bank80, Window, Keeps, Fields
  <2> QED BY <1>16, <2>1, <2>2 DEF MidOK
<1>20. p4.selgvram = TRUE /\ p4.seldic = c.seldic /\ p4.n80mode = c.n80mode /\ p4.p99 = c.p99
  BY <1>1, <1>17 DEF Bare, Keeps, Fields, LowCaches
<1>21. Keeps(p4, q, HighFields, Upper) /\ HighC0(q) /\ HighF0(q) /\ q.selgvram \in BOOLEAN
  BY <1>17, <1>20, HighIs DEF Bare
<1> HIDE DEF q
<1>22. LowOK(q)
  BY <1>17, <1>18, <1>21, LowUnchanged DEF HighFields, Waits, LowPorts, LowCaches, Upper, LowRam
<1>23. MidOK(q)
  BY <1>17, <1>19, <1>21, MidUnchanged DEF HighFields, Waits, Upper
<1>24. q.n80mode = c.n80mode /\ q.seldic = c.seldic /\ q.p99 = c.p99 /\ DOMAIN q = Fields
  BY <1>17, <1>20, <1>21 DEF Keeps, Fields, HighFields, Waits
<1>25. MemTypeOK(q) /\ RomsThere(q)
  BY <1>21, <1>24 DEF Bare, MemTypeOK, RomsThere
<1>26. MemoryOK(q)
  BY <1>21, <1>22, <1>23, <1>24, <1>25 DEF MemoryOK
<1> QED BY <1>26 DEF q, p4, p3, p2, p1

LEMMA N80LowIs ==
  ASSUME NEW c, DOMAIN c = Fields, LowTold(c), c.n80mode = TRUE
  PROVE  LET q == UpdateN80R(UpdateN80W(c)) IN Keeps(c, q, LowCaches, LowRam) /\ LowOK(q)
<1> DEFINE p1 == UpdateN80W(c)
           p2 == UpdateN80R(p1)
<1>1. Keeps(c, p1, {"w00"}, LowRam) /\ p1.rd = c.rd /\ p1.w00 = N80Wr00(c) /\ p1.wr["00"] = N80Wr00(c) /\ p1.wr["60"] = N80Wr00(c)
  BY UpdateN80WIs
<1> HIDE DEF p1
<1>2. DOMAIN p1 = Fields /\ p1.r00 = c.r00 /\ p1.r60 = c.r60
  BY <1>1 DEF Keeps, Fields
<1>3. LowTold(p1)
  BY <1>1, <1>2 DEF LowTold
<1>4. N80Rd00(p1) = N80Rd00(c) /\ N80Rd60(p1) = N80Rd60(c) /\ N80Wr00(p1) = N80Wr00(c)
  BY <1>1, TargetsKept DEF Fields, LowPorts
<1>5. /\ Keeps(p1, p2, {"r00", "r60"}, {"00", "60"}) /\ p2.wr = p1.wr
      /\ p2.rd["00"] = N80Rd00(c) /\ p2.r00 = N80Rd00(c) /\ p2.rd["60"] = N80Rd60(c) /\ p2.r60 = N80Rd60(c)
  BY <1>2, <1>3, <1>4, UpdateN80RIs
<1> HIDE DEF p2
<1>6. p2.w00 = N80Wr00(c)
  BY <1>1, <1>2, <1>5 DEF Keeps, Fields
<1>7. N80Rd00(p2) = N80Rd00(c) /\ N80Rd60(p2) = N80Rd60(c) /\ N80Wr00(p2) = N80Wr00(c)
  BY <1>2, <1>4, <1>5, TargetsKept DEF Fields, LowPorts
<1>8. Keeps(c, p2, LowCaches, LowRam)
  BY <1>1, <1>5 DEF Keeps, LowCaches, LowRam
<1>9. p2.n80mode = TRUE
  BY <1>8 DEF Keeps, Fields, LowCaches
<1>10. LowOK(p2)
  BY <1>1, <1>5, <1>6, <1>7, <1>9 DEF LowOK, LowRd00, LowRd60, LowWr
<1> QED BY <1>8, <1>10 DEF p2, p1

LEMMA BareN80 ==
  ASSUME NEW c, Bare(c), c.n80mode
  PROVE  MemoryOK(UpdateN80G(UpdateN80R(UpdateN80W(c))))
<1> DEFINE p == UpdateN80R(UpdateN80W(c))
<1>1. DOMAIN c = Fields /\ LowTold(c) /\ c.n80mode = TRUE
  BY DEF Bare, LowTold
<1>2. Keeps(c, p, LowCaches, LowRam) /\ LowOK(p)
  BY <1>1, N80LowIs
<1> HIDE DEF p
<1>3. p.n80mode = TRUE /\ p.selgvram = TRUE /\ p.seldic = c.seldic /\ p.p99 = c.p99 /\ DOMAIN p = Fields
  BY <1>1, <1>2 DEF Bare, Keeps, Fields, LowCaches
<1>4. MemTypeOK(p) /\ RomsThere(p)
  BY <1>3 DEF Bare, MemTypeOK, RomsThere
<1>5. Keeps(p, p, {"p35", "p5x", "f0"}, {})
  BY KeepsSelf
<1>7. UpperPlain(p)
  BY <1>2 DEF Bare, Keeps, UpperPlain, Upper, LowRam, RegionIds
<1>6. MemoryOK(UpdateN80G(p))
  BY <1>2, <1>3, <1>4, <1>5, <1>7, N80Refreshed
<1> QED BY <1>6 DEF p

LEMMA Reset88OK ==
  ASSUME NEW m, MemTypeOK(m), RomsThere(m), NEW newmode, NEW switches, NEW high
  PROVE  MemoryOK(Reset88(m, newmode, switches, high))
<1> DEFINE n80 == 1 \in newmode /\ (IF 7 \in m.p33 THEN N80V2Rom ELSE N80Rom) # Null
           a == [m EXCEPT !.sw31 = switches, !.mode = newmode, !.n80mode = n80, !.n80sr = newmode = {1, 4},
                   !.waitmode = <<6 \in switches \/ (n80 /\ newmode = {1, 4}), high>>, !.selgvram = TRUE, !.p5x = 3,
                   !.r00 = Neither, !.r60 = Neither, !.w00 = Neither, !.neweram = IF n80 /\ @ < 1 THEN 1 ELSE @]
           b == IF a.banks = a.neweram THEN a ELSE [AllocRW(a, LowRam, RAM) EXCEPT !.banks = a.neweram]
           c == AllocRW(b, RegionIds \ LowRam, RAM)
           s == [c EXCEPT !.e3 = 0, !.p31 = {}, !.p71 = 0..7]
<1>1. DOMAIN m = Fields /\ m.seldic \in BOOLEAN
  BY DEF MemTypeOK
<1>2. /\ DOMAIN a = Fields /\ a.n80mode = n80 /\ a.selgvram = TRUE /\ a.r00 = Neither /\ a.r60 = Neither /\ a.w00 = Neither
      /\ a.seldic = m.seldic /\ a.p99 = m.p99
  BY <1>1 DEF Fields
<1>3. Reset88(m, newmode, switches, high) =
        IF n80 THEN UpdateN80G(UpdateN80R(UpdateN80W(s)))
        ELSE UpdateF0(UpdateC0(Update80(Update60R(Update00W(Update00R(c))))))
  BY DEF Reset88
<1>4. n80 \in BOOLEAN
  OBVIOUS
<1> HIDE DEF n80, a
<1>5. /\ DOMAIN b = Fields /\ b.n80mode = n80 /\ b.selgvram = TRUE /\ b.r00 = Neither /\ b.r60 = Neither /\ b.w00 = Neither
      /\ b.seldic = m.seldic /\ b.p99 = m.p99
  BY <1>2 DEF AllocRW, AllocRd, AllocWr, Fields
<1> HIDE DEF b
<1>6. Keeps(b, c, {}, RegionIds \ LowRam) /\ \A r \in RegionIds \ LowRam : c.rd[r] = RAM /\ c.wr[r] = RAM
  BY <1>5, AllocRWIs
<1> HIDE DEF c
<1>7. /\ DOMAIN c = Fields /\ c.n80mode = n80 /\ c.selgvram = TRUE /\ c.r00 = Neither /\ c.r60 = Neither /\ c.w00 = Neither
      /\ c.seldic = m.seldic /\ c.p99 = m.p99
  BY <1>5, <1>6 DEF Keeps, Fields
<1>8. Bare(c)
  BY <1>1, <1>4, <1>6, <1>7 DEF Bare, RomsThere
<1>9. CASE n80
  <2>1. Bare(s) /\ s.n80mode
    BY <1>7, <1>8, <1>9 DEF Bare, RomsThere, Fields
  <2> HIDE DEF s
  <2> QED BY <1>3, <1>9, <2>1, BareN80
<1>10. CASE ~n80
  BY <1>3, <1>7, <1>8, <1>10, Bare88
<1> QED BY <1>4, <1>9, <1>10

LEMMA PC88ResetOK ==
  ASSUME NEW m, MemTypeOK(m), RomsThere(m), NEW newmode, NEW switches, NEW high
  PROVE  MemoryOK(PC88Reset(m, newmode, switches, high))
<1> DEFINE r == Reset88(m, newmode, switches, high)
           a == Out32(Out31(r, {}), {7})
           b == Out35(Out34(Out33(a, IF newmode = {1, 4} THEN {1, 7} ELSE {1}), {}), {})
           c == Out70(Out5x(Out40(b, {}), 3), 0)
           d == Out99(c, IF 6 \in newmode /\ "CDBIOS" \in Has THEN {4} ELSE {})
<1>1. MemoryOK(r)
  BY Reset88OK
<1> HIDE DEF r
<1>2. MemoryOK(a)
  BY <1>1, Out31OK, Out32OK
<1> HIDE DEF a
<1>3. MemoryOK(b)
  BY <1>2, Out33OK, Out34OK, Out35OK
<1> HIDE DEF b
<1>4. MemoryOK(c)
  BY <1>3, Out40OK, Out5xOK, Out70OK
<1> HIDE DEF c
<1>5. MemoryOK(d)
  BY <1>4, Out99OK
<1> HIDE DEF d
<1>6. MemoryOK(Outf1(Oute3(Oute2(d, {}), 0), {0}))
  BY <1>5, OuteOK, Outf1OK
<1>7. PC88Reset(m, newmode, switches, high) = Outf1(Oute3(Oute2(d, {}), 0), {0})
  BY DEF PC88Reset, d, c, b, a, r
<1> QED BY <1>6, <1>7

LEMMA OtherStepsOK ==
  ASSUME NEW m, MemoryOK(m), NEW bit, NEW low, NEW wait, NEW banks
  PROVE  /\ MemoryOK(CpuWrites88(m, bit)) /\ MemoryOK(CpuReads88(m))
         /\ MemoryOK(VRTC(m, low)) /\ MemoryOK(ApplyConfig88(m, wait, banks))
<1>1. DOMAIN m = Fields
  BY DEF MemoryOK, MemTypeOK
<1>2. Others \in SUBSET Others
  OBVIOUS
<1>3. Keeps(m, CpuWrites88(m, bit), Others, {})
  BY <1>1 DEF CpuWrites88, WrGraphics, Keeps, Fields, Others
<1>4. Keeps(m, CpuReads88(m), Others, {})
  BY <1>1 DEF CpuReads88, Keeps, Fields, Others
<1>5. Keeps(m, VRTC(m, low), Others, {})
  BY <1>1 DEF VRTC, SetWait, Keeps, Fields, Others
<1>6. Keeps(m, ApplyConfig88(m, wait, banks), Others, {})
  BY <1>1 DEF ApplyConfig88, SetWait, Keeps, Fields, Others
<1> QED BY <1>2, <1>3, <1>4, <1>5, <1>6, OthersChanged

LEMMA PowerOnIs ==
  ASSUME NEW banks, NEW wait
  PROVE  LET m == [PowerOnMemory EXCEPT !.neweram = banks, !.enablewait = wait] IN MemTypeOK(m) /\ RomsThere(m)
<1>1. /\ DOMAIN PowerOnMemory = Fields /\ PowerOnMemory.n80mode = FALSE /\ PowerOnMemory.seldic = FALSE
      /\ PowerOnMemory.selgvram = FALSE /\ PowerOnMemory.p99 = {}
  BY DEF PowerOnMemory, Fields
<1> QED BY <1>1 DEF MemTypeOK, RomsThere, Fields

LEMMA LoadStatusOK ==
  ASSUME NEW m, MemoryOK(m), NEW s PROVE MemoryOK(LoadStatus88(m, s))
<1> DEFINE a == Out33(Out32(Out31(Out34(m, s.ports.p34), s.ports.p31), s.ports.p32), s.ports.p33)
           b == Out40(Out5x(Out35(a, s.ports.p35), s.ports.p5x), s.ports.p40)
           c == Out99(Out70(Out71(b, s.ports.p71), s.ports.p70), s.ports.p99)
           d == Outf0(Oute3(Oute2(c, s.ports.e2), s.ports.e3), s.ports.f0)
           q == [d EXCEPT !.gvram = s.gvram, !.dirty = TRUE]
<1>1. MemoryOK(a)
  BY Out31OK, Out32OK, Out33OK, Out34OK
<1> HIDE DEF a
<1>2. MemoryOK(b)
  BY <1>1, Out35OK, Out5xOK, Out40OK
<1> HIDE DEF b
<1>3. MemoryOK(c)
  BY <1>2, Out71OK, Out70OK, Out99OK
<1> HIDE DEF c
<1>4. MemoryOK(d)
  BY <1>3, OuteOK, Outf0OK
<1> HIDE DEF d
<1>5. Keeps(d, q, Others, {})
  BY <1>4 DEF MemoryOK, MemTypeOK, Keeps, Fields, Others
<1> HIDE DEF q
<1>6. MemoryOK(q)
  BY <1>4, <1>5, OthersChanged
<1>7. LoadStatus88(m, s) = q
  BY DEF LoadStatus88, q, d, c, b, a
<1> QED BY <1>6, <1>7

LEMMA MemoryInvariance == MemSpec => []MemoryOK(mem)
<1>1. MemInit => MemoryOK(mem)
  BY PowerOnIs, PC88ResetOK DEF MemInit
<1>2. MemoryOK(mem) /\ [MemNext]_memvars => MemoryOK(mem)'
  <2> SUFFICES ASSUME MemoryOK(mem), [MemNext]_memvars PROVE MemoryOK(mem')
    OBVIOUS
  <2>1. CASE SetUp88
    BY <2>1, WrittenOK DEF SetUp88
  <2>2. CASE Out88
    BY <2>2, WrittenOK DEF Out88
  <2>3. CASE Write88 \/ Read88 \/ Retrace \/ Configure88
    BY <2>3, OtherStepsOK DEF Write88, Read88, Retrace, Configure88
  <2>4. CASE PushReset
    BY <2>4, PC88ResetOK DEF PushReset, MemoryOK
  <2>5. CASE LoadSnapshot88
    <3>1. MemoryOK(Fresh(mem))
      BY PowerOnIs, PC88ResetOK DEF Fresh
    <3> QED BY <2>5, <3>1, LoadStatusOK DEF LoadSnapshot88
  <2>6. CASE UNCHANGED memvars
    BY <2>6 DEF memvars
  <2> QED BY <2>1, <2>2, <2>3, <2>4, <2>5, <2>6 DEF MemNext
<1> QED BY <1>1, <1>2, PTL DEF MemSpec

\* What the invariant says of the banks the CPU sees.
LEMMA OKIsAsShown ==
  ASSUME MemoryOK(mem) PROVE BanksAsShown
<1>1. CASE mem.n80mode
  <2> DEFINE bare == [mem EXCEPT !.r00 = Neither, !.r60 = Neither, !.w00 = Neither, !.selgvram = TRUE]
             p == UpdateN80R(UpdateN80W(bare))
             q == UpdateN80G(p)
             S == LowCaches \union {"selgvram"}
  <2>1. DOMAIN mem = Fields /\ mem.n80mode = TRUE /\ LowOK(mem) /\ N80OK(mem)
    BY <1>1 DEF MemoryOK, MemTypeOK
  <2>2. /\ Keeps(mem, bare, S, {}) /\ DOMAIN bare = Fields
        /\ bare.r00 = Neither /\ bare.r60 = Neither /\ bare.w00 = Neither
        /\ bare.selgvram = TRUE /\ bare.n80mode = TRUE
    BY <2>1 DEF Keeps, Fields, LowCaches
  <2>3. q = Rebuilt(mem)
    BY DEF Rebuilt, bare
  <2> HIDE DEF bare
  <2>4. LowTold(bare)
    BY <2>2 DEF LowTold
  <2>5. Keeps(bare, p, LowCaches, LowRam) /\ LowOK(p)
    BY <2>2, <2>4, N80LowIs
  <2> HIDE DEF p
  <2>6. Keeps(mem, p, S, LowRam) /\ DOMAIN p = Fields
    BY <2>2, <2>5 DEF Keeps
  <2>7. p.selgvram = TRUE
    BY <2>2, <2>5 DEF Keeps, Fields, LowCaches
  <2>8. /\ Keeps(p, q, HighFields, {"80", "84"}) /\ N80OK(q)
        /\ 6 \notin p.p33 => q.p5x = p.p5x
    BY <2>6, <2>7, UpdateN80GIs
  <2> HIDE DEF q
  <2>9. \A r \in LowRam : q.rd[r] = p.rd[r] /\ q.wr[r] = p.wr[r]
    BY <2>8 DEF Keeps, LowRam, RegionIds
  <2>10. \A f \in LowPorts : p[f] = mem[f]
    BY <2>1, <2>6 DEF Keeps, LowPorts, LowCaches, Fields
  <2>11. LowRd00(p) = LowRd00(mem) /\ LowRd60(p) = LowRd60(mem) /\ LowWr(p) = LowWr(mem)
    BY <2>1, <2>10, LowDepends
  <2>12. \A r \in LowRam : q.rd[r] = mem.rd[r] /\ q.wr[r] = mem.wr[r]
    BY <2>1, <2>5, <2>9, <2>11 DEF LowOK, LowRam
  <2>13. \A r \in RegionIds \ (LowRam \union {"80", "84"}) : q.rd[r] = mem.rd[r] /\ q.wr[r] = mem.wr[r]
    BY <2>6, <2>8 DEF Keeps
  <2>14. p.p33 = mem.p33 /\ p.p35 = mem.p35 /\ p.p5x = mem.p5x
    BY <2>1, <2>6 DEF Keeps, Fields, LowCaches
  <2>15. q.p33 = p.p33 /\ q.p35 = p.p35
    BY <2>6, <2>8 DEF Keeps, Fields, HighFields, Waits
  <2>16. \A alu : GraphicsN80(q, alu) = GraphicsN80(mem, alu)
    BY <2>8, <2>14, <2>15 DEF GraphicsN80
  <2>17. ALUFunction(q) = ALUFunction(mem)
    BY <2>14, <2>15 DEF ALUFunction
  <2>18. q.rd["84"] = mem.rd["84"] /\ q.wr["84"] = mem.wr["84"]
    BY <2>1, <2>8, <2>16, <2>17 DEF N80OK
  <2>19. \A r \in RegionIds : r # "80" => mem.rd[r] = q.rd[r] /\ mem.wr[r] = q.wr[r]
    BY <2>12, <2>13, <2>18
  <2> QED BY <1>1, <2>3, <2>19 DEF BanksAsShown
<1>2. CASE ~mem.n80mode
  <2>1. LowOK(mem) /\ MidOK(mem) /\ HighC0(mem) /\ HighF0(mem)
    BY <1>2 DEF MemoryOK
  <2>2. mem.rd["00"] = Rd00(mem) /\ mem.rd["60"] = Rd60(mem) /\ mem.wr["00"] = Wr00(mem) /\ mem.wr["60"] = Wr00(mem)
    BY <1>2, <2>1 DEF LowOK, LowRd00, LowRd60, LowWr
  <2>3. Label(Rd00(mem)) = GetRdBank(mem, "00")
    BY DEF Label, Rd00, GetRdBank, Eram, RAM, LowRam
  <2>4. Label(Rd60(mem)) = GetRdBank(mem, "60")
    BY DEF Label, Rd60, GetRdBank, Eram, RAM, LowRam
  <2>5. Label(Wr00(mem)) = GetWrBank(mem, "00") /\ Label(Wr00(mem)) = GetWrBank(mem, "60")
    BY DEF Label, Wr00, GetWrBank, Eram, RAM, LowRam
  <2>6. \A r \in {"80", "84"} : Label(mem.rd[r]) = GetRdBank(mem, r) /\ Label(mem.wr[r]) = GetWrBank(mem, r)
    BY <2>1 DEF MidOK, Bank80, Window, Label, GetRdBank, GetWrBank, RAM, LowRam
  <2>7. \A r \in Upper : Label(HighRd(mem, r)) = GetRdBank(mem, r)
    BY DEF Label, HighRd, GetHiBank, GetRdBank, Jisyo, RAM, LowRam, Upper
  <2>8. \A r \in Upper : GetHiBank(mem, r) = GetWrBank(mem, r)
    BY DEF GetWrBank, LowRam, Upper
  <2>9. \A r \in Upper : mem.rd[r] = HighRd(mem, r)
    BY <2>1 DEF HighC0, HighF0, Upper
  <2>10. Label(mem.wr["C0"]) = GetHiBank(mem, "C0") /\ (~mem.seldic => Label(mem.wr["F0"]) = GetHiBank(mem, "F0"))
    <3>1. \A r : Label(HighWr(mem, r)) = GetHiBank(mem, r)
      BY DEF Label, HighWr, GetHiBank, RAM
    <3> QED BY <2>1, <3>1 DEF HighC0, HighF0
  <2>11. ASSUME NEW r \in RegionIds
         PROVE  Label(mem.rd[r]) = GetRdBank(mem, r) /\ ((r = "F0" => ~mem.seldic) => Label(mem.wr[r]) = GetWrBank(mem, r))
    BY <2>2, <2>3, <2>4, <2>5, <2>6, <2>7, <2>8, <2>9, <2>10 DEF RegionIds, Upper
  <2> QED BY <1>2, <2>11 DEF BanksAsShown
<1> QED BY <1>1, <1>2 DEF MemoryOK, MemTypeOK

\* However programs write the ports, whatever is switched, reset or restored, the
\* banks the CPU sees are those the memory monitor labels memory with, or, in the
\* N80 modes, those worked out anew: what r00, r60, w00, rc0 and selgvram remember
\* never hides a change of the ports.
THEOREM BanksAreAsShown == MemSpec => []BanksAsShown
BY MemoryInvariance, OKIsAsShown, PTL

-----------------------------------------------------------------------------
(* Snapshots.  A load writes the ports of a machine that has been reset; the *)
(* banks follow from the ports, in the old machine as in the new one.  So    *)
(* what each call does to the ports is all that is left to say.              *)

\* What the Update functions work out; the other fields are the ports and what a
\* reset settles.
Derived == LowCaches \union Waits \union {"rc0", "rd", "wr"}
PortsKept(m, q, S) == DOMAIN q = Fields /\ \A f \in Fields \ (Derived \union S) : q[f] = m[f]

LEMMA PortsThen ==
  ASSUME NEW m, NEW p, NEW q, NEW S, NEW T, PortsKept(m, p, S), PortsKept(p, q, T)
  PROVE  PortsKept(m, q, S \union T)
BY DEF PortsKept

LEMMA PortsKeptMore ==
  ASSUME NEW m, NEW q, NEW S, NEW T, PortsKept(m, q, S), S \subseteq T PROVE PortsKept(m, q, T)
BY DEF PortsKept

LEMMA PortsKeptSelf == ASSUME NEW m, DOMAIN m = Fields, NEW S PROVE PortsKept(m, m, S)
BY DEF PortsKept

\* The one port that an Update function may set.
LEMMA P5xIsPort == "p5x" \in Fields \ Derived /\ "p32" \in Fields \ Derived /\ "p33" \in Fields \ Derived
BY DEF Fields, Derived, LowCaches, Waits

LEMMA TellingKeepsPorts ==
  ASSUME NEW m, DOMAIN m = Fields, NEW R, NEW bank
  PROVE  /\ PortsKept(m, AllocRd(m, R, bank), {}) /\ PortsKept(m, AllocWr(m, R, bank), {})
         /\ PortsKept(m, AllocRW(m, R, bank), {}) /\ PortsKept(m, ToldWr00(m, bank), {})
         /\ \A cache \in {"r00", "r60", "rc0"} : PortsKept(m, ToldRd(m, cache, R, bank), {})
         /\ PortsKept(m, GraphicsChosen(m), {}) /\ PortsKept(m, NormalRAM(m, R), {}) /\ PortsKept(m, SelectJisyo(m), {})
<1> USE DEF PortsKept, Derived, LowCaches, Waits, Fields
<1>1. PortsKept(m, AllocRd(m, R, bank), {}) /\ PortsKept(m, AllocWr(m, R, bank), {})
  BY DEF AllocRd, AllocWr
<1>2. PortsKept(m, AllocRW(m, R, bank), {})
  BY DEF AllocRW, AllocRd, AllocWr
<1>3. PortsKept(m, ToldWr00(m, bank), {})
  BY DEF ToldWr00, AllocWr
<1>4. ASSUME NEW cache \in {"r00", "r60", "rc0"} PROVE PortsKept(m, ToldRd(m, cache, R, bank), {})
  BY DEF ToldRd, AllocRd
<1>5. PortsKept(m, GraphicsChosen(m), {})
  BY DEF GraphicsChosen, SetWait
<1>6. PortsKept(m, NormalRAM(m, R), {})
  BY DEF NormalRAM, AllocRW, AllocRd, AllocWr, SetWait
<1>7. PortsKept(m, SelectJisyo(m), {})
  BY DEF SelectJisyo, AllocRd
<1> QED BY <1>1, <1>2, <1>3, <1>4, <1>5, <1>6, <1>7

LEMMA LowKeepsPorts ==
  ASSUME NEW m, DOMAIN m = Fields
  PROVE  /\ PortsKept(m, Update00R(m), {}) /\ PortsKept(m, Update60R(m), {}) /\ PortsKept(m, Update00W(m), {})
         /\ PortsKept(m, UpdateN80R(m), {}) /\ PortsKept(m, UpdateN80W(m), {}) /\ PortsKept(m, Update80(m), {})
<1>1. PortsKept(m, Update00R(m), {}) /\ PortsKept(m, Update60R(m), {}) /\ PortsKept(m, Update00W(m), {})
  BY TellingKeepsPorts DEF Update00R, Update60R, Update00W
<1>2. PortsKept(m, UpdateN80W(m), {}) /\ PortsKept(m, Update80(m), {})
  BY TellingKeepsPorts DEF UpdateN80W, Update80
<1>3. PortsKept(m, UpdateN80R(m), {})
  <2> DEFINE p == ToldRd(m, "r00", {"00"}, N80Rd00(m))
             q == ToldRd(p, "r60", {"60"}, N80Rd60(m))
  <2>1. PortsKept(m, p, {})
    BY TellingKeepsPorts
  <2> HIDE DEF p
  <2>2. PortsKept(p, q, {})
    BY <2>1, TellingKeepsPorts DEF PortsKept
  <2> HIDE DEF q
  <2>3. PortsKept(m, q, {})
    BY <2>1, <2>2 DEF PortsKept
  <2> QED BY <2>3 DEF q, p, UpdateN80R
<1> QED BY <1>1, <1>2, <1>3

LEMMA LowUpdatedPorts ==
  ASSUME NEW m, DOMAIN m = Fields
  PROVE  /\ PortsKept(m, LowUpdated(m), {}) /\ PortsKept(m, Update80(Update60R(Update00R(m))), {})
         /\ PortsKept(m, UpdateN80W(UpdateN80R(m)), {}) /\ PortsKept(m, UpdateN80R(UpdateN80W(m)), {})
         /\ PortsKept(m, Update60R(Update00R(m)), {}) /\ PortsKept(m, Update80(Update60R(Update00W(Update00R(m)))), {})
<1>1. ASSUME NEW p, PortsKept(m, p, {})
      PROVE  /\ PortsKept(m, Update00R(p), {}) /\ PortsKept(m, Update60R(p), {}) /\ PortsKept(m, Update00W(p), {})
             /\ PortsKept(m, UpdateN80R(p), {}) /\ PortsKept(m, UpdateN80W(p), {}) /\ PortsKept(m, Update80(p), {})
  <2>1. DOMAIN p = Fields
    BY <1>1 DEF PortsKept
  <2>2. \A q : PortsKept(p, q, {}) => PortsKept(m, q, {})
    BY <1>1 DEF PortsKept
  <2> QED BY <2>1, <2>2, LowKeepsPorts
<1>2. PortsKept(m, UpdateN80R(m), {}) /\ PortsKept(m, UpdateN80W(m), {}) /\ PortsKept(m, Update00R(m), {})
  BY LowKeepsPorts
<1>3. PortsKept(m, UpdateN80W(UpdateN80R(m)), {}) /\ PortsKept(m, UpdateN80R(UpdateN80W(m)), {})
  BY <1>1, <1>2
<1>4. PortsKept(m, Update60R(Update00R(m)), {}) /\ PortsKept(m, Update00W(Update00R(m)), {})
  BY <1>1, <1>2
<1>5. PortsKept(m, Update00W(Update60R(Update00R(m))), {}) /\ PortsKept(m, Update60R(Update00W(Update00R(m))), {})
      /\ PortsKept(m, Update80(Update60R(Update00R(m))), {})
  BY <1>1, <1>4
<1>6. PortsKept(m, Update80(Update60R(Update00W(Update00R(m)))), {})
  BY <1>1, <1>5
<1> QED BY <1>3, <1>4, <1>5, <1>6 DEF LowUpdated

LEMMA UpdateC0Ports ==
  ASSUME NEW m, DOMAIN m = Fields
  PROVE  /\ PortsKept(m, UpdateC0(m), {"p5x"}) /\ UpdateC0(m).p5x = IF 6 \in m.p32 THEN 3 ELSE m.p5x
         /\ PortsKept(m, UpdateF0(m), {})
<1> DEFINE s == IF 6 \in m.p32 THEN [m EXCEPT !.p5x = 3] ELSE m
           cleared == [s EXCEPT !.rc0 = Neither]
           r == NormalRAM(s, {"C0"})
           normal == [r EXCEPT !.rc0 = IF s.selgvram THEN RAM ELSE @]
           Result(q) == PortsKept(s, q, {})
<1>1. DOMAIN s = Fields /\ PortsKept(m, s, {"p5x"}) /\ s.p5x = IF 6 \in m.p32 THEN 3 ELSE m.p5x
  BY DEF PortsKept, Fields
<1>2. UpdateC0(m) = IF 6 \in s.p32 /\ 7 \in s.p35 THEN SelectJisyo(SelectALU(cleared, Upper))
                    ELSE IF 6 \notin s.p32 /\ s.p5x < 3 THEN SelectJisyo(SelectGVRAM(cleared, Upper))
                    ELSE IF s.seldic THEN SelectJisyo(normal)
                    ELSE ToldRd(normal, "rc0", {"C0"}, RAM)
  BY DEF UpdateC0, Upper
<1> HIDE DEF s
<1>3. Result(r)
  BY <1>1, TellingKeepsPorts
<1> HIDE DEF r
<1>4. Result(cleared) /\ Result(normal)
  BY <1>1, <1>3 DEF PortsKept, Derived, Fields
<1> HIDE DEF cleared, normal
<1>5. ASSUME NEW p, Result(p), NEW R, NEW bank
      PROVE  /\ Result(AllocRd(p, R, bank)) /\ Result(AllocWr(p, R, bank)) /\ Result(AllocRW(p, R, bank))
             /\ Result(GraphicsChosen(p)) /\ Result(SelectJisyo(p)) /\ Result(ToldRd(p, "rc0", R, bank))
  <2>1. DOMAIN p = Fields
    BY <1>5 DEF PortsKept
  <2>2. \A q : PortsKept(p, q, {}) => Result(q)
    BY <1>5 DEF PortsKept
  <2> QED BY <2>1, <2>2, TellingKeepsPorts
<1> HIDE DEF Result
<1>6. Result(SelectJisyo(SelectALU(cleared, Upper)))
  BY <1>4, <1>5 DEF SelectALU
<1>7. Result(SelectJisyo(SelectGVRAM(cleared, Upper)))
  BY <1>4, <1>5 DEF SelectGVRAM
<1>8. Result(SelectJisyo(normal)) /\ Result(ToldRd(normal, "rc0", {"C0"}, RAM))
  BY <1>4, <1>5
<1>9. PortsKept(s, UpdateC0(m), {})
  BY <1>2, <1>6, <1>7, <1>8 DEF Result
<1>10. UpdateC0(m).p5x = s.p5x
  BY <1>9, P5xIsPort DEF PortsKept
<1>11. PortsKept(m, UpdateF0(m), {})
  BY TellingKeepsPorts, PortsKeptSelf DEF UpdateF0
<1> QED BY <1>1, <1>9, <1>10, <1>11 DEF PortsKept

LEMMA UpdateN80GPorts ==
  ASSUME NEW m, DOMAIN m = Fields
  PROVE  PortsKept(m, UpdateN80G(m), {"p5x"}) /\ UpdateN80G(m).p5x = IF 6 \in m.p33 THEN 3 ELSE m.p5x
<1> DEFINE s == IF 6 \in m.p33 THEN [m EXCEPT !.p5x = 3] ELSE m
           Both == {"80", "84"}
           cleared == [s EXCEPT !.rc0 = Neither]
           Result(q) == PortsKept(s, q, {})
<1>1. DOMAIN s = Fields /\ PortsKept(m, s, {"p5x"}) /\ s.p5x = IF 6 \in m.p33 THEN 3 ELSE m.p5x
  BY DEF PortsKept, Fields
<1>2. UpdateN80G(m) = IF 6 \in s.p33 /\ 7 \in s.p35 THEN SelectALU(cleared, Both)
                      ELSE IF 6 \notin s.p33 /\ s.p5x < 3 THEN SelectGVRAM(cleared, Both)
                      ELSE NormalRAM(s, Both)
  BY DEF UpdateN80G
<1> HIDE DEF s
<1>3. Result(NormalRAM(s, Both))
  BY <1>1, TellingKeepsPorts
<1>4. Result(cleared)
  BY <1>1 DEF PortsKept, Derived, Fields
<1> HIDE DEF cleared
<1>5. ASSUME NEW p, Result(p), NEW R, NEW bank
      PROVE  /\ Result(AllocRd(p, R, bank)) /\ Result(AllocWr(p, R, bank)) /\ Result(AllocRW(p, R, bank))
             /\ Result(GraphicsChosen(p))
  <2>1. DOMAIN p = Fields
    BY <1>5 DEF PortsKept
  <2>2. \A q : PortsKept(p, q, {}) => Result(q)
    BY <1>5 DEF PortsKept
  <2> QED BY <2>1, <2>2, TellingKeepsPorts
<1> HIDE DEF Result
<1>6. Result(SelectALU(cleared, Both)) /\ Result(SelectGVRAM(cleared, Both))
  BY <1>4, <1>5 DEF SelectALU, SelectGVRAM
<1>7. PortsKept(s, UpdateN80G(m), {})
  BY <1>2, <1>3, <1>6 DEF Result
<1>8. UpdateN80G(m).p5x = s.p5x
  BY <1>7, P5xIsPort DEF PortsKept
<1> QED BY <1>1, <1>7, <1>8 DEF PortsKept

LEMMA UpperPorts ==
  ASSUME NEW m, DOMAIN m = Fields
  PROVE  LET q == UpdateF0(UpdateC0(m)) IN PortsKept(m, q, {"p5x"}) /\ q.p5x = IF 6 \in m.p32 THEN 3 ELSE m.p5x
<1> DEFINE p == UpdateC0(m)
<1>1. PortsKept(m, p, {"p5x"}) /\ p.p5x = IF 6 \in m.p32 THEN 3 ELSE m.p5x
  BY UpdateC0Ports
<1> HIDE DEF p
<1>2. PortsKept(p, UpdateF0(p), {})
  BY <1>1, UpdateC0Ports DEF PortsKept
<1>3. UpdateF0(p).p5x = p.p5x
  BY <1>2, P5xIsPort DEF PortsKept
<1> QED BY <1>1, <1>2, <1>3, PortsThen DEF p

\* What each port keeps when it is written: the rest of the ports stays as it was.
LEMMA Out31Ports ==
  ASSUME NEW m, DOMAIN m = Fields, NEW d
  PROVE  LET q == Out31(m, d)
             of == IF m.n80mode THEN {0, 1} ELSE {1, 2}
         IN PortsKept(m, q, {"p31"}) /\ q.p31 = IF Toggled(d, m.p31) \intersect of = {} THEN m.p31 ELSE d \intersect of
<1> DEFINE of == IF m.n80mode THEN {0, 1} ELSE {1, 2}
           s == [m EXCEPT !.p31 = d \intersect of]
<1>1. PortsKept(m, s, {"p31"}) /\ s.p31 = d \intersect of /\ DOMAIN s = Fields
  BY DEF PortsKept, Fields
<1>2. Out31(m, d) = IF Toggled(d, m.p31) \intersect of = {} THEN m
                    ELSE IF m.n80mode THEN UpdateN80W(UpdateN80R(s)) ELSE Update80(Update60R(Update00R(s)))
  BY DEF Out31
<1> HIDE DEF s, of
<1>3. PortsKept(s, UpdateN80W(UpdateN80R(s)), {}) /\ PortsKept(s, Update80(Update60R(Update00R(s))), {})
  BY <1>1, LowUpdatedPorts
<1>4. "p31" \in Fields \ Derived
  BY DEF Fields, Derived, LowCaches, Waits
<1>5. \A q : PortsKept(s, q, {}) => PortsKept(m, q, {"p31"}) /\ q.p31 = d \intersect of
  BY <1>1, <1>4 DEF PortsKept
<1>6. PortsKept(m, m, {"p31"})
  BY PortsKeptSelf
<1>7. PortsKept(m, Out31(m, d), {"p31"}) /\ Out31(m, d).p31 = IF Toggled(d, m.p31) \intersect of = {} THEN m.p31 ELSE d \intersect of
  BY <1>2, <1>3, <1>5, <1>6
<1> QED BY <1>7 DEF of

LEMMA Out32Ports ==
  ASSUME NEW m, DOMAIN m = Fields, NEW d
  PROVE  LET q == Out32(m, d)
         IN /\ m.n80mode => q = m
            /\ ~m.n80mode => /\ PortsKept(m, q, {"p32", "p5x"}) /\ q.p32 = d
                             /\ q.p5x = IF 6 \in d /\ 6 \notin m.p32 THEN 3 ELSE m.p5x
<1> DEFINE mod == Toggled(d, m.p32)
           a == [m EXCEPT !.p32 = d]
           b == IF mod \intersect {0, 1} # {} THEN Update60R(a) ELSE a
           c == IF 6 \in mod THEN UpdateC0(b) ELSE b
           q == IF mod \intersect {4, 6} # {} THEN UpdateF0(c) ELSE c
           x == IF 6 \in d /\ 6 \notin m.p32 THEN 3 ELSE m.p5x
<1>1. Out32(m, d) = IF m.n80mode THEN m ELSE q
  BY DEF Out32
<1>2. DOMAIN a = Fields /\ PortsKept(m, a, {"p32"}) /\ a.p32 = d /\ a.p5x = m.p5x
  BY DEF PortsKept, Fields
<1>3. 6 \in mod <=> ((6 \in d /\ 6 \notin m.p32) \/ (6 \notin d /\ 6 \in m.p32))
  BY DEF Toggled
<1> HIDE DEF a, mod
<1>4. PortsKept(a, b, {})
  BY <1>2, LowKeepsPorts, PortsKeptSelf
<1> HIDE DEF b
<1>5. DOMAIN b = Fields /\ b.p32 = d /\ b.p5x = m.p5x
  BY <1>2, <1>4, P5xIsPort DEF PortsKept
<1>6. PortsKept(b, c, {"p5x"}) /\ c.p5x = x
  BY <1>3, <1>5, UpdateC0Ports, PortsKeptSelf
<1> HIDE DEF c
<1>7. PortsKept(c, q, {})
  BY <1>6, UpdateC0Ports, PortsKeptSelf DEF PortsKept
<1> HIDE DEF q
<1>8. PortsKept(b, q, {"p5x"}) /\ q.p5x = x /\ q.p32 = d
  BY <1>5, <1>6, <1>7, P5xIsPort DEF PortsKept
<1>9. PortsKept(m, q, {"p32", "p5x"})
  BY <1>2, <1>4, <1>8 DEF PortsKept
<1> QED BY <1>1, <1>8, <1>9

LEMMA Out33Ports ==
  ASSUME NEW m, DOMAIN m = Fields, NEW d
  PROVE  LET q == Out33(m, d)
         IN /\ ~m.n80mode => q = m
            /\ m.n80mode => /\ PortsKept(m, q, {"p33", "p5x"}) /\ q.p33 = d
                            /\ q.p5x = IF 6 \in d /\ 6 \notin m.p33 THEN 3 ELSE m.p5x
<1> DEFINE mod == Toggled(d, m.p33)
           a == [m EXCEPT !.p33 = d]
           b == IF 7 \in mod THEN UpdateN80R(a) ELSE a
           q == IF 6 \in mod THEN UpdateN80G(b) ELSE b
           x == IF 6 \in d /\ 6 \notin m.p33 THEN 3 ELSE m.p5x
<1>1. Out33(m, d) = IF ~m.n80mode THEN m ELSE q
  BY DEF Out33
<1>2. DOMAIN a = Fields /\ PortsKept(m, a, {"p33"}) /\ a.p33 = d /\ a.p5x = m.p5x
  BY DEF PortsKept, Fields
<1>3. 6 \in mod <=> ((6 \in d /\ 6 \notin m.p33) \/ (6 \notin d /\ 6 \in m.p33))
  BY DEF Toggled
<1> HIDE DEF a, mod
<1>4. PortsKept(a, b, {})
  BY <1>2, LowKeepsPorts, PortsKeptSelf
<1> HIDE DEF b
<1>5. DOMAIN b = Fields /\ b.p33 = d /\ b.p5x = m.p5x
  BY <1>2, <1>4, P5xIsPort DEF PortsKept
<1>6. PortsKept(b, q, {"p5x"}) /\ q.p5x = x
  BY <1>3, <1>5, UpdateN80GPorts, PortsKeptSelf
<1> HIDE DEF q
<1>7. q.p33 = d
  BY <1>5, <1>6, P5xIsPort DEF PortsKept
<1>8. PortsKept(m, q, {"p33", "p5x"})
  BY <1>2, <1>4, <1>6 DEF PortsKept
<1> QED BY <1>1, <1>6, <1>7, <1>8

\* Port 5x, port 35, and the ports of the dictionary ask for the upper regions anew.
LEMMA UpperRefreshedPorts ==
  ASSUME NEW m, NEW S, NEW s, PortsKept(m, s, S), s.n80mode \in BOOLEAN
  PROVE  LET q == IF s.n80mode THEN UpdateN80G(s) ELSE UpdateF0(UpdateC0(s))
             taken == IF s.n80mode THEN 6 \in s.p33 ELSE 6 \in s.p32
         IN /\ PortsKept(m, q, S \union {"p5x"}) /\ PortsKept(s, q, {"p5x"})
            /\ q.p5x = IF taken THEN 3 ELSE s.p5x
<1> DEFINE q == IF s.n80mode THEN UpdateN80G(s) ELSE UpdateF0(UpdateC0(s))
<1>1. DOMAIN s = Fields
  BY DEF PortsKept
<1>2. /\ PortsKept(s, q, {"p5x"})
      /\ q.p5x = IF (IF s.n80mode THEN 6 \in s.p33 ELSE 6 \in s.p32) THEN 3 ELSE s.p5x
  BY <1>1, UpperPorts, UpdateN80GPorts
<1> HIDE DEF q
<1>3. PortsKept(m, q, S \union {"p5x"})
  BY <1>2 DEF PortsKept
<1> QED BY <1>2, <1>3 DEF q

LEMMA Out35Ports ==
  ASSUME NEW m, DOMAIN m = Fields, m.n80mode \in BOOLEAN, NEW d
  PROVE  LET q == Out35(m, d)
             taken == 7 \in d \/ (IF m.n80mode THEN 6 \in m.p33 ELSE 6 \in m.p32)
         IN /\ NoALU(m) => q = m
            /\ ~NoALU(m) => PortsKept(m, q, {"p35", "p5x"}) /\ q.p35 = d /\ q.p5x = IF taken THEN 3 ELSE m.p5x
<1> DEFINE s == [m EXCEPT !.p35 = d, !.p5x = IF 7 \in d THEN 3 ELSE @]
           q == IF s.n80mode THEN UpdateN80G(s) ELSE UpdateF0(UpdateC0(s))
<1>1. /\ PortsKept(m, s, {"p35", "p5x"}) /\ s.p35 = d /\ s.p5x = IF 7 \in d THEN 3 ELSE m.p5x
      /\ s.n80mode = m.n80mode /\ s.p32 = m.p32 /\ s.p33 = m.p33
  BY DEF PortsKept, Fields
<1>2. Out35(m, d) = IF NoALU(m) THEN m ELSE q
  BY <1>1 DEF Out35
<1> HIDE DEF s
<1>3. /\ PortsKept(m, q, {"p35", "p5x"} \union {"p5x"}) /\ PortsKept(s, q, {"p5x"})
      /\ q.p5x = IF (IF s.n80mode THEN 6 \in s.p33 ELSE 6 \in s.p32) THEN 3 ELSE s.p5x
  BY <1>1, UpperRefreshedPorts
<1> HIDE DEF q
<1>4. q.p35 = d
  BY <1>1, <1>3 DEF PortsKept, Fields, Derived, LowCaches, Waits
<1>5. PortsKept(m, q, {"p35", "p5x"})
  BY <1>3 DEF PortsKept
<1> QED BY <1>1, <1>2, <1>3, <1>4, <1>5

LEMMA Out5xPorts ==
  ASSUME NEW m, DOMAIN m = Fields, m.n80mode \in BOOLEAN, NEW bank
  PROVE  LET q == Out5x(m, bank)
         IN /\ PortsKept(m, q, {"p5x"})
            /\ q.p5x = IF m.n80mode /\ ~m.n80sr /\ bank \in {1, 2} THEN m.p5x
                       ELSE IF (IF m.n80mode THEN 6 \in m.p33 ELSE 6 \in m.p32) THEN 3 ELSE bank
<1> DEFINE s == [m EXCEPT !.p5x = bank]
           q == IF s.n80mode THEN UpdateN80G(s) ELSE UpdateF0(UpdateC0(s))
<1>1. PortsKept(m, s, {"p5x"}) /\ s.p5x = bank /\ s.n80mode = m.n80mode /\ s.p32 = m.p32 /\ s.p33 = m.p33
  BY DEF PortsKept, Fields
<1>2. Out5x(m, bank) = IF m.n80mode /\ ~m.n80sr /\ bank \in {1, 2} THEN m ELSE q
  BY <1>1 DEF Out5x
<1> HIDE DEF s
<1>3. /\ PortsKept(m, q, {"p5x"} \union {"p5x"})
      /\ q.p5x = IF (IF s.n80mode THEN 6 \in s.p33 ELSE 6 \in s.p32) THEN 3 ELSE s.p5x
  BY <1>1, UpperRefreshedPorts
<1> HIDE DEF q
<1>4. PortsKept(m, q, {"p5x"}) /\ PortsKept(m, m, {"p5x"})
  BY <1>3, PortsKeptSelf DEF PortsKept
<1> QED BY <1>1, <1>2, <1>3, <1>4

LEMMA OutfPorts ==
  ASSUME NEW m, DOMAIN m = Fields, m.n80mode \in BOOLEAN, NEW d
  PROVE  LET p == Outf0(m, d)
             q == Outf1(m, d)
             x == IF JisyoUsable(m) /\ 6 \in m.p32 THEN 3 ELSE m.p5x
         IN /\ PortsKept(m, p, {"f0", "p5x"}) /\ p.p5x = x
            /\ PortsKept(m, q, {"seldic", "p5x"}) /\ q.p5x = x /\ q.seldic = IF JisyoUsable(m) THEN 0 \notin d ELSE m.seldic
<1> DEFINE s == [m EXCEPT !.f0 = d]
           t == [m EXCEPT !.seldic = 0 \notin d]
<1>1. PortsKept(m, s, {"f0"}) /\ s.p5x = m.p5x /\ s.n80mode = m.n80mode /\ s.p32 = m.p32
  BY DEF PortsKept, Fields
<1>2. PortsKept(m, t, {"seldic"}) /\ t.p5x = m.p5x /\ t.n80mode = m.n80mode /\ t.p32 = m.p32 /\ t.seldic = (0 \notin d)
  BY DEF PortsKept, Fields
<1>3. /\ Outf0(m, d) = IF JisyoUsable(m) THEN UpdateF0(UpdateC0(s)) ELSE s
      /\ Outf1(m, d) = IF JisyoUsable(m) THEN UpdateF0(UpdateC0(t)) ELSE m
  BY <1>1 DEF Outf0, Outf1, JisyoUsable
<1> HIDE DEF s, t
<1>4. "seldic" \in Fields \ Derived
  BY DEF Fields, Derived, LowCaches, Waits
<1>5. CASE JisyoUsable(m)
  <2> DEFINE p == UpdateF0(UpdateC0(s))
             q == UpdateF0(UpdateC0(t))
  <2>1. DOMAIN s = Fields /\ DOMAIN t = Fields
    BY <1>1, <1>2 DEF PortsKept
  <2>2. PortsKept(s, p, {"p5x"}) /\ p.p5x = IF 6 \in m.p32 THEN 3 ELSE m.p5x
    BY <1>1, <2>1, UpperPorts
  <2>3. PortsKept(t, q, {"p5x"}) /\ q.p5x = IF 6 \in m.p32 THEN 3 ELSE m.p5x
    BY <1>2, <2>1, UpperPorts
  <2> HIDE DEF p, q
  <2>4. q.seldic = (0 \notin d)
    BY <1>2, <1>4, <2>3 DEF PortsKept
  <2>5. PortsKept(m, p, {"f0", "p5x"}) /\ PortsKept(m, q, {"seldic", "p5x"})
    BY <1>1, <1>2, <2>2, <2>3 DEF PortsKept
  <2> QED BY <1>3, <1>5, <2>2, <2>3, <2>4, <2>5 DEF p, q
<1>6. CASE ~JisyoUsable(m)
  <2>1. PortsKept(m, s, {"f0", "p5x"}) /\ PortsKept(m, m, {"seldic", "p5x"})
    BY <1>1, PortsKeptSelf DEF PortsKept
  <2> QED BY <1>1, <1>3, <1>6, <2>1
<1> QED BY <1>5, <1>6

\* The ports below, and those nothing depends on.
LEMMA OtherOutPorts ==
  ASSUME NEW m, DOMAIN m = Fields, NEW d
  PROVE  /\ PortsKept(m, Out34(m, d), {"p34"}) /\ PortsKept(m, Out40(m, d), {"p40"})
         /\ PortsKept(m, Out70(m, d), {"p70"}) /\ (~m.n80mode => Out70(m, d).p70 = d) /\ PortsKept(m, Out78(m), {"p70"})
         /\ PortsKept(m, Out71(m, d), {"p71"}) /\ Out71(m, d).p71 = d \union ((1..7) \ ERoms)
         /\ PortsKept(m, Out99(m, d), {"p99"})
         /\ Out99(m, d).p99 = IF "CDBIOS" \in Has /\ ~m.n80mode THEN d \intersect {0, 4} ELSE {}
         /\ PortsKept(m, Oute2(m, d), {"e2"}) /\ Oute2(m, d).e2 = d
         /\ PortsKept(m, Oute3(m, d), {"e3"}) /\ Oute3(m, d).e3 = d
<1>1. PortsKept(m, Out34(m, d), {"p34"}) /\ PortsKept(m, Out40(m, d), {"p40"})
  BY DEF Out34, Out40, SetWait, PortsKept, Fields, Derived, Waits
<1>2. ASSUME NEW f \in {"p70", "p71", "p99", "e2", "e3"}, NEW s, PortsKept(m, s, {f}), NEW q, PortsKept(s, q, {})
      PROVE  PortsKept(m, q, {f}) /\ q[f] = s[f]
  <2>1. f \in Fields \ Derived
    BY DEF Fields, Derived, LowCaches, Waits
  <2> QED BY <1>2, <2>1 DEF PortsKept
<1>3. ASSUME NEW f \in {"p70", "p71", "p99", "e2", "e3"}, NEW v
      PROVE  PortsKept(m, [m EXCEPT ![f] = v], {f}) /\ DOMAIN [m EXCEPT ![f] = v] = Fields /\ [m EXCEPT ![f] = v][f] = v
  BY <1>3 DEF PortsKept, Fields
<1>4. \A f : PortsKept(m, m, {f})
  BY PortsKeptSelf
<1>5. ASSUME NEW v PROVE PortsKept(m, Windowed([m EXCEPT !.p70 = v]), {"p70"}) /\ Windowed([m EXCEPT !.p70 = v]).p70 = v
  <2> DEFINE s == [m EXCEPT !.p70 = v]
  <2>1. PortsKept(m, s, {"p70"}) /\ DOMAIN s = Fields /\ s.p70 = v
    BY <1>3
  <2> HIDE DEF s
  <2>2. PortsKept(s, Windowed(s), {})
    BY <2>1, LowKeepsPorts, PortsKeptSelf DEF Windowed
  <2> QED BY <1>2, <2>1, <2>2 DEF s
<1>6. PortsKept(m, Out70(m, d), {"p70"}) /\ (~m.n80mode => Out70(m, d).p70 = d) /\ PortsKept(m, Out78(m), {"p70"})
  BY <1>4, <1>5 DEF Out70, Out78
<1>7. PortsKept(m, Out71(m, d), {"p71"}) /\ Out71(m, d).p71 = d \union ((1..7) \ ERoms)
  <2> DEFINE s == [m EXCEPT !.p71 = d \union ((1..7) \ ERoms)]
  <2>1. PortsKept(m, s, {"p71"}) /\ DOMAIN s = Fields /\ s.p71 = d \union ((1..7) \ ERoms)
    BY <1>3
  <2>2. Out71(m, d) = IF m.n80mode THEN IF 7 \in m.p33 THEN UpdateN80R(s) ELSE s
                      ELSE IF m.p31 \intersect {1, 2} = {} THEN Update60R(s) ELSE s
    BY DEF Out71
  <2> HIDE DEF s
  <2>3. PortsKept(s, Out71(m, d), {})
    BY <2>1, <2>2, LowKeepsPorts, PortsKeptSelf
  <2> QED BY <1>2, <2>1, <2>3
<1>8. /\ PortsKept(m, Out99(m, d), {"p99"})
      /\ Out99(m, d).p99 = IF "CDBIOS" \in Has /\ ~m.n80mode THEN d \intersect {0, 4} ELSE {}
  <2>1. CASE "CDBIOS" \in Has /\ ~m.n80mode
    <3> DEFINE s == [m EXCEPT !.p99 = d \intersect {0, 4}]
    <3>1. PortsKept(m, s, {"p99"}) /\ DOMAIN s = Fields /\ s.p99 = d \intersect {0, 4}
      BY <1>3
    <3>2. Out99(m, d) = Update60R(Update00R(s))
      BY <2>1 DEF Out99
    <3> HIDE DEF s
    <3>3. PortsKept(s, Out99(m, d), {})
      BY <3>1, <3>2, LowUpdatedPorts
    <3> QED BY <1>2, <2>1, <3>1, <3>3
  <2>2. CASE ~("CDBIOS" \in Has /\ ~m.n80mode)
    BY <1>3, <2>2 DEF Out99
  <2> QED BY <2>1, <2>2
<1>9. PortsKept(m, Oute2(m, d), {"e2"}) /\ Oute2(m, d).e2 = d /\ PortsKept(m, Oute3(m, d), {"e3"}) /\ Oute3(m, d).e3 = d
  <2> DEFINE s == [m EXCEPT !.e2 = d]
             t == [m EXCEPT !.e3 = d]
  <2>1. /\ PortsKept(m, s, {"e2"}) /\ DOMAIN s = Fields /\ s.e2 = d
        /\ PortsKept(m, t, {"e3"}) /\ DOMAIN t = Fields /\ t.e3 = d
    BY <1>3
  <2> HIDE DEF s, t
  <2>2. PortsKept(s, LowUpdated(s), {}) /\ PortsKept(t, LowUpdated(t), {})
    BY <2>1, LowUpdatedPorts
  <2> QED BY <1>2, <2>1, <2>2 DEF Oute2, Oute3, s, t
<1> QED BY <1>1, <1>6, <1>7, <1>8, <1>9

\* Whatever was written: what a reset settles goes together, and a bank of graphics
\* memory is selected only where the ports that come before it allow it.
SettledPorts == {"mode", "n80mode", "n80sr", "banks", "p31", "p32", "p33", "p5x", "p71", "p99"}
Roms71(m) == (1..7) \ ERoms \subseteq m.p71 /\ m.p99 \subseteq {0, 4}
Settled(m) ==
  /\ Roms71(m)
  /\ m.n80sr = (m.mode = {1, 4})
  /\ m.n80mode => /\ "N80SR" \in Has /\ ~(m.banks < 1) /\ m.p31 \subseteq {0, 1}
                  /\ (6 \in m.p33 => m.p5x = 3) /\ (~m.n80sr => m.p5x \notin {1, 2})
  /\ ~m.n80mode => (6 \in m.p32 => m.p5x = 3)
InOrder(m) == MemoryOK(m) /\ Settled(m)

LEMMA SettledKept ==
  ASSUME NEW m, NEW q, NEW S, PortsKept(m, q, S), S \intersect SettledPorts = {}, Settled(m)
  PROVE  Settled(q)
<1>1. \A f \in SettledPorts : q[f] = m[f]
  BY DEF PortsKept, SettledPorts, Fields, Derived, LowCaches, Waits
<1>2. /\ q.mode = m.mode /\ q.n80mode = m.n80mode /\ q.n80sr = m.n80sr /\ q.banks = m.banks /\ q.p31 = m.p31
      /\ q.p32 = m.p32 /\ q.p33 = m.p33 /\ q.p5x = m.p5x /\ q.p71 = m.p71 /\ q.p99 = m.p99
  BY <1>1 DEF SettledPorts
<1> QED BY <1>2 DEF Settled, Roms71

\* All but the ports named are what they were.
LEMMA SettledPortsKept ==
  ASSUME NEW m, NEW q, NEW S, PortsKept(m, q, S)
  PROVE  /\ "mode" \notin S => q.mode = m.mode
         /\ "n80mode" \notin S => q.n80mode = m.n80mode
         /\ "n80sr" \notin S => q.n80sr = m.n80sr
         /\ "banks" \notin S => q.banks = m.banks
         /\ "p31" \notin S => q.p31 = m.p31
         /\ "p32" \notin S => q.p32 = m.p32
         /\ "p33" \notin S => q.p33 = m.p33
         /\ "p5x" \notin S => q.p5x = m.p5x
         /\ "p71" \notin S => q.p71 = m.p71
         /\ "p99" \notin S => q.p99 = m.p99
<1>1. SettledPorts \subseteq Fields \ Derived
  BY DEF SettledPorts, Fields, Derived, LowCaches, Waits
<1> QED BY <1>1 DEF PortsKept, SettledPorts

LEMMA OutSettled ==
  ASSUME NEW m, InOrder(m), NEW d
  PROVE  /\ InOrder(Out31(m, d)) /\ InOrder(Out32(m, d)) /\ InOrder(Out33(m, d)) /\ InOrder(Out34(m, d))
         /\ InOrder(Out35(m, d)) /\ InOrder(Out40(m, d)) /\ InOrder(Out5x(m, d)) /\ InOrder(Out70(m, d))
         /\ InOrder(Out71(m, d)) /\ InOrder(Out78(m)) /\ InOrder(Out99(m, d)) /\ InOrder(Oute2(m, d))
         /\ InOrder(Oute3(m, d)) /\ InOrder(Outf0(m, d)) /\ InOrder(Outf1(m, d))
<1>1. DOMAIN m = Fields /\ m.n80mode \in BOOLEAN /\ Settled(m) /\ MemoryOK(m)
  BY DEF InOrder, MemoryOK, MemTypeOK
<1>2. InOrder(Out31(m, d))
  <2> DEFINE q == Out31(m, d)
             of == IF m.n80mode THEN {0, 1} ELSE {1, 2}
  <2>1. PortsKept(m, q, {"p31"}) /\ (q.p31 = m.p31 \/ q.p31 = d \intersect of)
    BY <1>1, Out31Ports
  <2>2. MemoryOK(q)
    BY <1>1, Out31OK
  <2> HIDE DEF q
  <2>3. /\ q.mode = m.mode /\ q.n80mode = m.n80mode /\ q.n80sr = m.n80sr /\ q.banks = m.banks
        /\ q.p32 = m.p32 /\ q.p33 = m.p33 /\ q.p5x = m.p5x /\ q.p71 = m.p71 /\ q.p99 = m.p99
    BY <2>1, SettledPortsKept
  <2>4. Settled(q)
    BY <1>1, <2>1, <2>3 DEF Settled, Roms71
  <2> QED BY <2>2, <2>4 DEF InOrder, q
<1>3. InOrder(Out32(m, d))
  <2> DEFINE q == Out32(m, d)
  <2>1. CASE m.n80mode
    BY <1>1, <2>1, Out32Ports
  <2>2. CASE ~m.n80mode
    <3>1. /\ PortsKept(m, q, {"p32", "p5x"}) /\ q.p32 = d
          /\ q.p5x = IF 6 \in d /\ 6 \notin m.p32 THEN 3 ELSE m.p5x
      BY <1>1, <2>2, Out32Ports
    <3>2. MemoryOK(q)
      BY <1>1, Out32OK
    <3> HIDE DEF q
    <3>3. /\ q.mode = m.mode /\ q.n80mode = m.n80mode /\ q.n80sr = m.n80sr /\ q.banks = m.banks
          /\ q.p31 = m.p31 /\ q.p33 = m.p33 /\ q.p71 = m.p71 /\ q.p99 = m.p99
      BY <3>1, SettledPortsKept
    <3>4. Settled(q)
      BY <1>1, <2>2, <3>1, <3>3 DEF Settled, Roms71
    <3> QED BY <3>2, <3>4 DEF InOrder, q
  <2> QED BY <2>1, <2>2
<1>4. InOrder(Out33(m, d))
  <2> DEFINE q == Out33(m, d)
  <2>1. CASE ~m.n80mode
    BY <1>1, <2>1, Out33Ports
  <2>2. CASE m.n80mode
    <3>1. /\ PortsKept(m, q, {"p33", "p5x"}) /\ q.p33 = d
          /\ q.p5x = IF 6 \in d /\ 6 \notin m.p33 THEN 3 ELSE m.p5x
      BY <1>1, <2>2, Out33Ports
    <3>2. MemoryOK(q)
      BY <1>1, Out33OK
    <3> HIDE DEF q
    <3>3. /\ q.mode = m.mode /\ q.n80mode = m.n80mode /\ q.n80sr = m.n80sr /\ q.banks = m.banks
          /\ q.p31 = m.p31 /\ q.p32 = m.p32 /\ q.p71 = m.p71 /\ q.p99 = m.p99
      BY <3>1, SettledPortsKept
    <3>4. Settled(q)
      BY <1>1, <2>2, <3>1, <3>3 DEF Settled, Roms71
    <3> QED BY <3>2, <3>4 DEF InOrder, q
  <2> QED BY <2>1, <2>2
<1>5. ASSUME NEW q, MemoryOK(q), NEW S, PortsKept(m, q, S \union {"p5x"}), S \intersect SettledPorts = {},
             NEW x, q.p5x = IF IF m.n80mode THEN 6 \in m.p33 ELSE 6 \in m.p32 THEN 3 ELSE x,
             m.n80mode /\ ~m.n80sr => x \notin {1, 2}
      PROVE  InOrder(q)
  <2>1. /\ q.mode = m.mode /\ q.n80mode = m.n80mode /\ q.n80sr = m.n80sr /\ q.banks = m.banks
        /\ q.p31 = m.p31 /\ q.p32 = m.p32 /\ q.p33 = m.p33 /\ q.p71 = m.p71 /\ q.p99 = m.p99
    BY <1>5, SettledPortsKept DEF SettledPorts
  <2>2. Settled(q)
    BY <1>1, <1>5, <2>1 DEF Settled, Roms71
  <2> QED BY <1>5, <2>2 DEF InOrder
<1>6. InOrder(Out35(m, d))
  <2> DEFINE q == Out35(m, d)
  <2>1. MemoryOK(q)
    BY <1>1, Out35OK
  <2>2. CASE NoALU(m)
    BY <1>1, <2>2, Out35Ports
  <2>3. CASE ~NoALU(m)
    <3>1. /\ PortsKept(m, q, {"p35", "p5x"})
          /\ q.p5x = IF 7 \in d \/ (IF m.n80mode THEN 6 \in m.p33 ELSE 6 \in m.p32) THEN 3 ELSE m.p5x
      BY <1>1, <2>3, Out35Ports
    <3> HIDE DEF q
    <3>2. PortsKept(m, q, {"p35"} \union {"p5x"}) /\ {"p35"} \intersect SettledPorts = {}
      BY <3>1 DEF PortsKept, SettledPorts
    <3>3. q.p5x = IF IF m.n80mode THEN 6 \in m.p33 ELSE 6 \in m.p32 THEN 3 ELSE IF 7 \in d THEN 3 ELSE m.p5x
      BY <3>1
    <3>4. m.n80mode /\ ~m.n80sr => (IF 7 \in d THEN 3 ELSE m.p5x) \notin {1, 2}
      BY <1>1 DEF Settled
    <3>5. InOrder(q)
      BY <1>5, <2>1, <3>2, <3>3, <3>4
    <3> QED BY <3>5 DEF q
  <2> QED BY <2>2, <2>3
<1>7. InOrder(Out5x(m, d))
  <2> DEFINE q == Out5x(m, d)
             x == IF m.n80mode /\ ~m.n80sr /\ d \in {1, 2} THEN m.p5x ELSE d
  <2>1. MemoryOK(q)
    BY <1>1, Out5xOK
  <2>2. /\ PortsKept(m, q, {"p5x"})
        /\ q.p5x = IF m.n80mode /\ ~m.n80sr /\ d \in {1, 2} THEN m.p5x
                   ELSE IF (IF m.n80mode THEN 6 \in m.p33 ELSE 6 \in m.p32) THEN 3 ELSE d
    BY <1>1, Out5xPorts
  <2> HIDE DEF q
  <2>3. PortsKept(m, q, {} \union {"p5x"}) /\ {} \intersect SettledPorts = {}
    BY <2>2 DEF PortsKept
  <2>4. q.p5x = IF IF m.n80mode THEN 6 \in m.p33 ELSE 6 \in m.p32 THEN 3 ELSE x
    BY <1>1, <2>2 DEF Settled
  <2>5. m.n80mode /\ ~m.n80sr => x \notin {1, 2}
    BY <1>1 DEF Settled
  <2> HIDE DEF x
  <2>6. InOrder(q)
    BY <1>5, <2>1, <2>3, <2>4, <2>5
  <2> QED BY <2>6 DEF q
<1>8. InOrder(Outf0(m, d)) /\ InOrder(Outf1(m, d))
  <2> DEFINE p == Outf0(m, d)
             q == Outf1(m, d)
             x == IF JisyoUsable(m) /\ 6 \in m.p32 THEN 3 ELSE m.p5x
  <2>1. PortsKept(m, p, {"f0", "p5x"}) /\ p.p5x = x /\ PortsKept(m, q, {"seldic", "p5x"}) /\ q.p5x = x
    BY <1>1, OutfPorts
  <2>2. MemoryOK(p) /\ MemoryOK(q)
    BY <1>1, Outf0OK, Outf1OK
  <2> HIDE DEF p, q
  <2>3. x = m.p5x
    BY <1>1 DEF Settled, JisyoUsable
  <2>4. m.p5x = IF IF m.n80mode THEN 6 \in m.p33 ELSE 6 \in m.p32 THEN 3 ELSE m.p5x
    BY <1>1 DEF Settled
  <2>5. m.n80mode /\ ~m.n80sr => m.p5x \notin {1, 2}
    BY <1>1 DEF Settled
  <2>6. /\ PortsKept(m, p, {"f0"} \union {"p5x"}) /\ {"f0"} \intersect SettledPorts = {}
        /\ PortsKept(m, q, {"seldic"} \union {"p5x"}) /\ {"seldic"} \intersect SettledPorts = {}
    BY <2>1 DEF PortsKept, SettledPorts
  <2> HIDE DEF x
  <2>7. p.p5x = IF IF m.n80mode THEN 6 \in m.p33 ELSE 6 \in m.p32 THEN 3 ELSE m.p5x
    BY <2>1, <2>3, <2>4
  <2>8. q.p5x = IF IF m.n80mode THEN 6 \in m.p33 ELSE 6 \in m.p32 THEN 3 ELSE m.p5x
    BY <2>1, <2>3, <2>4
  <2>9. InOrder(p)
    BY <1>5, <2>2, <2>5, <2>6, <2>7
  <2>10. InOrder(q)
    BY <1>5, <2>2, <2>5, <2>6, <2>8
  <2> QED BY <2>9, <2>10 DEF p, q
<1>9. /\ PortsKept(m, Out34(m, d), {"p34"}) /\ PortsKept(m, Out40(m, d), {"p40"}) /\ PortsKept(m, Out70(m, d), {"p70"})
      /\ PortsKept(m, Out78(m), {"p70"}) /\ PortsKept(m, Oute2(m, d), {"e2"}) /\ PortsKept(m, Oute3(m, d), {"e3"})
  BY <1>1, OtherOutPorts
<1>10. /\ Settled(Out34(m, d)) /\ Settled(Out40(m, d)) /\ Settled(Out70(m, d)) /\ Settled(Out78(m))
       /\ Settled(Oute2(m, d)) /\ Settled(Oute3(m, d))
  <2>1. ASSUME NEW f \in {"p34", "p40", "p70", "e2", "e3"}, NEW q, PortsKept(m, q, {f}) PROVE Settled(q)
    <3>1. {f} \intersect SettledPorts = {}
      BY DEF SettledPorts
    <3> QED BY <1>1, <2>1, <3>1, SettledKept
  <2> QED BY <1>9, <2>1
<1>11. /\ InOrder(Out34(m, d)) /\ InOrder(Out40(m, d)) /\ InOrder(Out70(m, d)) /\ InOrder(Out78(m))
       /\ InOrder(Oute2(m, d)) /\ InOrder(Oute3(m, d))
  BY <1>1, <1>10, Out34OK, Out40OK, Out70OK, OuteOK DEF InOrder
<1>12. InOrder(Out71(m, d))
  <2> DEFINE q == Out71(m, d)
  <2>1. PortsKept(m, q, {"p71"}) /\ q.p71 = d \union ((1..7) \ ERoms)
    BY <1>1, OtherOutPorts
  <2>2. MemoryOK(q)
    BY <1>1, Out71OK
  <2> HIDE DEF q
  <2>3. /\ q.mode = m.mode /\ q.n80mode = m.n80mode /\ q.n80sr = m.n80sr /\ q.banks = m.banks
        /\ q.p31 = m.p31 /\ q.p32 = m.p32 /\ q.p33 = m.p33 /\ q.p5x = m.p5x /\ q.p99 = m.p99
    BY <2>1, SettledPortsKept
  <2>4. Settled(q)
    BY <1>1, <2>1, <2>3 DEF Settled, Roms71
  <2> QED BY <2>2, <2>4 DEF InOrder, q
<1>13. InOrder(Out99(m, d))
  <2> DEFINE q == Out99(m, d)
  <2>1. PortsKept(m, q, {"p99"}) /\ (q.p99 = d \intersect {0, 4} \/ q.p99 = {})
    BY <1>1, OtherOutPorts
  <2>2. MemoryOK(q)
    BY <1>1, Out99OK
  <2> HIDE DEF q
  <2>3. /\ q.mode = m.mode /\ q.n80mode = m.n80mode /\ q.n80sr = m.n80sr /\ q.banks = m.banks
        /\ q.p31 = m.p31 /\ q.p32 = m.p32 /\ q.p33 = m.p33 /\ q.p5x = m.p5x /\ q.p71 = m.p71
    BY <2>1, SettledPortsKept
  <2>4. Settled(q)
    BY <1>1, <2>1, <2>3 DEF Settled, Roms71
  <2> QED BY <2>2, <2>4 DEF InOrder, q
<1> QED BY <1>2, <1>3, <1>4, <1>6, <1>7, <1>8, <1>11, <1>12, <1>13

\* What Reset does to the ports.
ResetPorts ==
  {"sw31", "mode", "n80mode", "n80sr", "waitmode", "p5x", "neweram", "banks", "e3", "p31", "p71"}

LEMMA Reset88Ports ==
  ASSUME NEW m, DOMAIN m = Fields, NEW newmode, NEW switches, NEW high
  PROVE  LET q == Reset88(m, newmode, switches, high)
             n80 == 1 \in newmode /\ (IF 7 \in m.p33 THEN N80V2Rom ELSE N80Rom) # Null
         IN /\ PortsKept(m, q, ResetPorts)
            /\ q.sw31 = switches /\ q.mode = newmode /\ q.n80mode = n80 /\ q.n80sr = (newmode = {1, 4}) /\ q.p5x = 3
            /\ q.banks = IF n80 /\ m.neweram < 1 THEN 1 ELSE m.neweram
            /\ n80 => q.p31 = {} /\ q.p71 = 0..7
            /\ ~n80 => q.p31 = m.p31 /\ q.p71 = m.p71
<1> DEFINE n80 == 1 \in newmode /\ (IF 7 \in m.p33 THEN N80V2Rom ELSE N80Rom) # Null
           sr == newmode = {1, 4}
           ne == IF n80 /\ m.neweram < 1 THEN 1 ELSE m.neweram
           a == [m EXCEPT !.sw31 = switches, !.mode = newmode, !.n80mode = n80, !.n80sr = newmode = {1, 4},
                   !.waitmode = <<6 \in switches \/ (n80 /\ newmode = {1, 4}), high>>, !.selgvram = TRUE, !.p5x = 3,
                   !.r00 = Neither, !.r60 = Neither, !.w00 = Neither, !.neweram = IF n80 /\ @ < 1 THEN 1 ELSE @]
           b == IF a.banks = a.neweram THEN a ELSE [AllocRW(a, LowRam, RAM) EXCEPT !.banks = a.neweram]
           c == AllocRW(b, RegionIds \ LowRam, RAM)
           s == [c EXCEPT !.e3 = 0, !.p31 = {}, !.p71 = 0..7]
           Set(q) == /\ DOMAIN q = Fields /\ q.sw31 = switches /\ q.mode = newmode /\ q.n80mode = n80 /\ q.n80sr = sr
                     /\ q.p5x = 3
<1>1. /\ Set(a) /\ a.neweram = ne /\ PortsKept(m, a, ResetPorts) /\ a.p31 = m.p31 /\ a.p71 = m.p71
  BY DEF Fields, PortsKept, ResetPorts, Derived, LowCaches, Waits
<1>2. Reset88(m, newmode, switches, high) =
        IF n80 THEN UpdateN80G(UpdateN80R(UpdateN80W(s)))
        ELSE UpdateF0(UpdateC0(Update80(Update60R(Update00W(Update00R(c))))))
  BY DEF Reset88
<1>3. n80 \in BOOLEAN
  OBVIOUS
<1> HIDE DEF n80, sr, ne, a
<1>4. Set(b) /\ b.banks = ne /\ PortsKept(m, b, ResetPorts) /\ b.p31 = m.p31 /\ b.p71 = m.p71
  BY <1>1 DEF AllocRW, AllocRd, AllocWr, Fields, PortsKept, ResetPorts, Derived, LowCaches, Waits
<1> HIDE DEF b
<1>5. Set(c) /\ c.banks = ne /\ PortsKept(m, c, ResetPorts) /\ c.p31 = m.p31 /\ c.p71 = m.p71
  BY <1>4 DEF AllocRW, AllocRd, AllocWr, Fields, PortsKept, ResetPorts, Derived, LowCaches, Waits
<1> HIDE DEF c
<1>6. Set(s) /\ s.banks = ne /\ PortsKept(m, s, ResetPorts) /\ s.p31 = {} /\ s.p71 = 0..7
  BY <1>5 DEF Fields, PortsKept, ResetPorts, Derived, LowCaches, Waits
<1> HIDE DEF s
<1>7. ASSUME NEW p, Set(p), p.banks = ne, PortsKept(m, p, ResetPorts), NEW q, PortsKept(p, q, {"p5x"}), q.p5x = 3
      PROVE  Set(q) /\ q.banks = ne /\ PortsKept(m, q, ResetPorts) /\ q.p31 = p.p31 /\ q.p71 = p.p71
  <2>1. ResetPorts \subseteq Fields \ Derived /\ "p5x" \in ResetPorts
    BY DEF ResetPorts, Fields, Derived, LowCaches, Waits
  <2>2. \A f \in ResetPorts \ {"p5x"} : q[f] = p[f]
    BY <1>7, <2>1 DEF PortsKept
  <2>3. /\ q.sw31 = p.sw31 /\ q.mode = p.mode /\ q.n80mode = p.n80mode /\ q.n80sr = p.n80sr /\ q.banks = p.banks
        /\ q.p31 = p.p31 /\ q.p71 = p.p71
    BY <2>2 DEF ResetPorts
  <2>4. PortsKept(m, q, ResetPorts)
    BY <1>7, <2>1 DEF PortsKept
  <2> QED BY <1>7, <2>3, <2>4 DEF PortsKept
<1>8. CASE n80
  <2> DEFINE t == UpdateN80R(UpdateN80W(s))
             q == UpdateN80G(t)
  <2>1. PortsKept(s, t, {})
    BY <1>6, LowUpdatedPorts
  <2> HIDE DEF t
  <2>2. t.p5x = 3
    BY <1>6, <2>1, P5xIsPort DEF PortsKept
  <2>3. PortsKept(t, q, {"p5x"}) /\ q.p5x = 3
    BY <2>1, <2>2, UpdateN80GPorts DEF PortsKept
  <2> HIDE DEF q
  <2>4. PortsKept(s, q, {"p5x"})
    BY <2>1, <2>3 DEF PortsKept
  <2>5. Set(q) /\ q.banks = ne /\ PortsKept(m, q, ResetPorts) /\ q.p31 = {} /\ q.p71 = 0..7
    BY <1>6, <1>7, <2>3, <2>4
  <2>6. Reset88(m, newmode, switches, high) = q
    BY <1>2, <1>8 DEF q, t
  <2> QED BY <1>8, <2>5, <2>6 DEF n80, sr, ne
<1>9. CASE ~n80
  <2> DEFINE t == Update80(Update60R(Update00W(Update00R(c))))
             q == UpdateF0(UpdateC0(t))
  <2>1. PortsKept(c, t, {})
    BY <1>5, LowUpdatedPorts
  <2> HIDE DEF t
  <2>2. t.p5x = 3
    BY <1>5, <2>1, P5xIsPort DEF PortsKept
  <2>3. PortsKept(t, q, {"p5x"}) /\ q.p5x = 3
    BY <2>1, <2>2, UpperPorts DEF PortsKept
  <2> HIDE DEF q
  <2>4. PortsKept(c, q, {"p5x"})
    BY <2>1, <2>3 DEF PortsKept
  <2>5. Set(q) /\ q.banks = ne /\ PortsKept(m, q, ResetPorts) /\ q.p31 = m.p31 /\ q.p71 = m.p71
    BY <1>5, <1>7, <2>3, <2>4
  <2>6. Reset88(m, newmode, switches, high) = q
    BY <1>2, <1>9 DEF q, t
  <2> QED BY <1>9, <2>5, <2>6 DEF n80, sr, ne
<1> QED BY <1>3, <1>8, <1>9

LEMMA ResetSettled ==
  ASSUME NEW m, MemTypeOK(m), RomsThere(m), Roms71(m), NEW newmode, NEW switches, NEW high
  PROVE  InOrder(Reset88(m, newmode, switches, high)) /\ InOrder(PC88Reset(m, newmode, switches, high))
<1> DEFINE r == Reset88(m, newmode, switches, high)
           a == Out32(Out31(r, {}), {7})
           b == Out35(Out34(Out33(a, IF newmode = {1, 4} THEN {1, 7} ELSE {1}), {}), {})
           c == Out70(Out5x(Out40(b, {}), 3), 0)
           d == Out99(c, IF 6 \in newmode /\ "CDBIOS" \in Has THEN {4} ELSE {})
           n80 == 1 \in newmode /\ (IF 7 \in m.p33 THEN N80V2Rom ELSE N80Rom) # Null
<1>1. DOMAIN m = Fields
  BY DEF MemTypeOK
<1>2. MemoryOK(r)
  BY Reset88OK
<1>3. n80 => "N80SR" \in Has
  BY DEF N80V2Rom, N80Rom
<1>4. /\ PortsKept(m, r, ResetPorts)
      /\ r.mode = newmode /\ r.n80mode = n80 /\ r.n80sr = (newmode = {1, 4}) /\ r.p5x = 3
      /\ r.banks = IF n80 /\ m.neweram < 1 THEN 1 ELSE m.neweram
      /\ n80 => r.p31 = {} /\ r.p71 = 0..7
      /\ ~n80 => r.p71 = m.p71
  BY <1>1, Reset88Ports
<1> HIDE DEF r, n80
<1>5. r.p99 = m.p99
  BY <1>4, SettledPortsKept DEF ResetPorts
<1>6. Roms71(r)
  BY <1>4, <1>5 DEF Roms71
<1>7. n80 => ~(r.banks < 1)
  BY <1>4
<1>8. Settled(r)
  BY <1>3, <1>4, <1>6, <1>7 DEF Settled
<1>9. InOrder(r)
  BY <1>2, <1>8 DEF InOrder
<1>10. InOrder(a)
  BY <1>9, OutSettled
<1> HIDE DEF a
<1>11. InOrder(b)
  BY <1>10, OutSettled
<1> HIDE DEF b
<1>12. InOrder(c)
  BY <1>11, OutSettled
<1> HIDE DEF c
<1>13. InOrder(d)
  BY <1>12, OutSettled
<1> HIDE DEF d
<1>14. InOrder(Outf1(Oute3(Oute2(d, {}), 0), {0}))
  BY <1>13, OutSettled
<1>15. PC88Reset(m, newmode, switches, high) = Outf1(Oute3(Oute2(d, {}), 0), {0})
  BY DEF PC88Reset, d, c, b, a, r
<1> QED BY <1>9, <1>14, <1>15 DEF r

LEMMA LoadSettled == ASSUME NEW m, InOrder(m), NEW s PROVE InOrder(LoadStatus88(m, s))
<1> DEFINE a == Out33(Out32(Out31(Out34(m, s.ports.p34), s.ports.p31), s.ports.p32), s.ports.p33)
           b == Out40(Out5x(Out35(a, s.ports.p35), s.ports.p5x), s.ports.p40)
           c == Out99(Out70(Out71(b, s.ports.p71), s.ports.p70), s.ports.p99)
           d == Outf0(Oute3(Oute2(c, s.ports.e2), s.ports.e3), s.ports.f0)
           q == [d EXCEPT !.gvram = s.gvram, !.dirty = TRUE]
<1>1. InOrder(a)
  BY OutSettled
<1> HIDE DEF a
<1>2. InOrder(b)
  BY <1>1, OutSettled
<1> HIDE DEF b
<1>3. InOrder(c)
  BY <1>2, OutSettled
<1> HIDE DEF c
<1>4. InOrder(d)
  BY <1>3, OutSettled
<1> HIDE DEF d
<1>5. PortsKept(d, q, {"gvram", "dirty"})
  BY <1>4 DEF InOrder, MemoryOK, MemTypeOK, PortsKept, Fields
<1> HIDE DEF q
<1>6. {"gvram", "dirty"} \intersect SettledPorts = {}
  BY DEF SettledPorts
<1>7. Settled(q)
  BY <1>4, <1>5, <1>6, SettledKept DEF InOrder
<1>8. LoadStatus88(m, s) = q
  BY DEF LoadStatus88, q, d, c, b, a
<1> QED BY <1>7, <1>8, LoadStatusOK DEF InOrder

LEMMA PowerOnSettled ==
  ASSUME NEW banks, NEW wait
  PROVE  Roms71([PowerOnMemory EXCEPT !.neweram = banks, !.enablewait = wait])
<1>1. DOMAIN PowerOnMemory = Fields /\ PowerOnMemory.p71 = 0..7 /\ PowerOnMemory.p99 = {}
  BY DEF PowerOnMemory, Fields
<1> QED BY <1>1 DEF Roms71, Fields

LEMMA FreshSettled == ASSUME NEW m PROVE InOrder(Fresh(m))
BY PowerOnIs, PowerOnSettled, ResetSettled DEF Fresh

\* The machine stays so whatever happens to it.
LEMMA MemorySettled == MemSpec => []InOrder(mem)
<1>1. MemInit => InOrder(mem)
  BY PowerOnIs, PowerOnSettled, ResetSettled DEF MemInit
<1>2. InOrder(mem) /\ [MemNext]_memvars => InOrder(mem)'
  <2> SUFFICES ASSUME InOrder(mem), [MemNext]_memvars PROVE InOrder(mem')
    OBVIOUS
  <2>1. ASSUME NEW w PROVE InOrder(Written(mem, w))
    BY OutSettled DEF Written
  <2>2. CASE SetUp88
    BY <2>1, <2>2 DEF SetUp88
  <2>3. CASE Out88
    BY <2>1, <2>3 DEF Out88
  <2>4. CASE Write88 \/ Read88 \/ Retrace \/ Configure88
    <3> DEFINE S == {"gvram", "alureg", "dirty", "enablewait", "neweram"}
    <3>1. DOMAIN mem = Fields /\ Settled(mem) /\ MemoryOK(mem)
      BY DEF InOrder, MemoryOK, MemTypeOK
    <3>2. ASSUME NEW bit
          PROVE  PortsKept(mem, CpuWrites88(mem, bit), S) /\ PortsKept(mem, CpuReads88(mem), S)
      BY <3>1 DEF CpuWrites88, WrGraphics, CpuReads88, PortsKept, Fields
    <3>3. ASSUME NEW low PROVE PortsKept(mem, VRTC(mem, low), S)
      BY <3>1 DEF VRTC, SetWait, PortsKept, Fields, Derived, Waits
    <3>4. ASSUME NEW banks, NEW wait PROVE PortsKept(mem, ApplyConfig88(mem, wait, banks), S)
      BY <3>1 DEF ApplyConfig88, SetWait, PortsKept, Fields, Derived, Waits
    <3>5. PortsKept(mem, mem', S)
      BY <2>4, <3>2, <3>3, <3>4 DEF Write88, Read88, Retrace, Configure88
    <3>6. S \intersect SettledPorts = {}
      BY DEF SettledPorts
    <3>7. Settled(mem')
      BY <3>1, <3>5, <3>6, SettledKept
    <3> QED BY <2>4, <3>1, <3>7, OtherStepsOK DEF Write88, Read88, Retrace, Configure88, InOrder
  <2>5. CASE PushReset
    BY <2>5, ResetSettled DEF PushReset, InOrder, MemoryOK, Settled
  <2>6. CASE LoadSnapshot88
    BY <2>6, FreshSettled, LoadSettled DEF LoadSnapshot88
  <2>7. CASE UNCHANGED memvars
    BY <2>7 DEF memvars
  <2> QED BY <2>2, <2>3, <2>4, <2>5, <2>6, <2>7 DEF MemNext
<1> QED BY <1>1, <1>2, PTL DEF MemSpec

\* A machine that comes up in the mode of m: what the reset gives its ports before
\* the snapshot is loaded.
SameMachine(q, m) ==
  /\ DOMAIN q = Fields /\ q.n80mode = m.n80mode /\ q.n80sr = m.n80sr /\ q.sw31 = m.sw31 /\ q.banks = m.banks
  /\ q.seldic = FALSE /\ q.n80mode \in BOOLEAN
JustReset(q, m) ==
  /\ SameMachine(q, m)
  /\ q.p31 = {} /\ q.p5x = 3 /\ 6 \notin q.p32 /\ 6 \notin q.p33 /\ q.p35 = {}

\* All but the fields named are what they were, once more.
LEMMA LoadPortsKept ==
  ASSUME NEW m, NEW q, NEW S, PortsKept(m, q, S)
  PROVE  /\ "n80mode" \notin S => q.n80mode = m.n80mode
         /\ "n80sr" \notin S => q.n80sr = m.n80sr
         /\ "sw31" \notin S => q.sw31 = m.sw31
         /\ "banks" \notin S => q.banks = m.banks
         /\ "seldic" \notin S => q.seldic = m.seldic
         /\ "p31" \notin S => q.p31 = m.p31
         /\ "p32" \notin S => q.p32 = m.p32
         /\ "p33" \notin S => q.p33 = m.p33
         /\ "p35" \notin S => q.p35 = m.p35
         /\ "p5x" \notin S => q.p5x = m.p5x
         /\ "p70" \notin S => q.p70 = m.p70
         /\ "p71" \notin S => q.p71 = m.p71
         /\ "p99" \notin S => q.p99 = m.p99
         /\ "e2" \notin S => q.e2 = m.e2
         /\ "e3" \notin S => q.e3 = m.e3
<1> DEFINE Loaded == {"n80mode", "n80sr", "sw31", "banks", "seldic", "p31", "p32", "p33", "p35", "p5x", "p70", "p71",
                      "p99", "e2", "e3"}
<1>1. Loaded \subseteq Fields \ Derived
  BY DEF Fields, Derived, LowCaches, Waits
<1> QED BY <1>1 DEF PortsKept

LEMMA SameMachineKept ==
  ASSUME NEW m, NEW p, SameMachine(p, m), NEW q, NEW S, PortsKept(p, q, S),
         S \intersect {"n80mode", "n80sr", "sw31", "banks", "seldic"} = {}
  PROVE  SameMachine(q, m)
<1>1. q.n80mode = p.n80mode /\ q.n80sr = p.n80sr /\ q.sw31 = p.sw31 /\ q.banks = p.banks /\ q.seldic = p.seldic
  BY LoadPortsKept
<1> QED BY <1>1 DEF SameMachine, PortsKept

LEMMA JustResetKept ==
  ASSUME NEW m, NEW q, JustReset(q, m), NEW d
  PROVE  /\ JustReset(Out31(q, {}), m) /\ JustReset(Out32(q, {7}), m)
         /\ (6 \notin d => JustReset(Out33(q, d), m)) /\ JustReset(Out34(q, d), m) /\ JustReset(Out35(q, {}), m)
         /\ JustReset(Out40(q, d), m) /\ JustReset(Out5x(q, 3), m) /\ JustReset(Out70(q, d), m)
         /\ JustReset(Out99(q, d), m) /\ JustReset(Oute2(q, d), m) /\ JustReset(Oute3(q, d), m)
         /\ JustReset(Outf1(q, {0}), m)
<1>1. /\ DOMAIN q = Fields /\ q.n80mode \in BOOLEAN /\ q.n80mode = m.n80mode /\ SameMachine(q, m)
      /\ q.p31 = {} /\ q.p5x = 3 /\ 6 \notin q.p32 /\ 6 \notin q.p33 /\ q.p35 = {} /\ q.seldic = FALSE
  BY DEF JustReset, SameMachine
<1>2. ASSUME NEW p, NEW f \in {"p31", "p32", "p33", "p34", "p35", "p40", "p5x", "p70", "p99", "e2", "e3"},
             PortsKept(q, p, {f, "p5x"}), p.p5x = 3,
             f = "p31" => p.p31 = {}, f = "p32" => 6 \notin p.p32, f = "p33" => 6 \notin p.p33, f = "p35" => p.p35 = {}
      PROVE  JustReset(p, m)
  <2>1. SameMachine(p, m)
    <3>1. {f, "p5x"} \intersect {"n80mode", "n80sr", "sw31", "banks", "seldic"} = {}
      OBVIOUS
    <3> QED BY <1>1, <1>2, <3>1, SameMachineKept
  <2>2. (f # "p31" => p.p31 = q.p31) /\ (f # "p32" => p.p32 = q.p32) /\ (f # "p33" => p.p33 = q.p33) /\ (f # "p35" => p.p35 = q.p35)
    <3>1. \A g \in {"p31", "p32", "p33", "p35"} : g # f => g \notin {f, "p5x"}
      OBVIOUS
    <3> QED BY <1>2, <3>1, LoadPortsKept
  <2> QED BY <1>1, <1>2, <2>1, <2>2 DEF JustReset
<1>3. ASSUME NEW p, NEW f \in {"p31", "p34", "p40", "p70", "p99", "e2", "e3"}, PortsKept(q, p, {f}),
             f = "p31" => p.p31 = {}
      PROVE  JustReset(p, m)
  <2>1. p.p5x = 3 /\ PortsKept(q, p, {f, "p5x"})
    <3>1. "p5x" \notin {f}
      OBVIOUS
    <3>2. p.p5x = q.p5x
      BY <1>3, <3>1, LoadPortsKept
    <3> QED BY <1>1, <1>3, <3>2 DEF PortsKept
  <2> QED BY <1>2, <1>3, <2>1
<1>4. JustReset(Out31(q, {}), m)
  <2> DEFINE p == Out31(q, {})
             of == IF q.n80mode THEN {0, 1} ELSE {1, 2}
  <2>1. PortsKept(q, p, {"p31"}) /\ (p.p31 = q.p31 \/ p.p31 = {} \intersect of)
    BY <1>1, Out31Ports
  <2>2. {} \intersect of = {}
    OBVIOUS
  <2> HIDE DEF p, of
  <2>3. JustReset(p, m)
    BY <1>1, <1>3, <2>1, <2>2
  <2> QED BY <2>3 DEF p
<1>5. JustReset(Out32(q, {7}), m)
  <2>1. CASE q.n80mode
    BY <1>1, <2>1, Out32Ports
  <2>2. CASE ~q.n80mode
    <3>1. PortsKept(q, Out32(q, {7}), {"p32", "p5x"}) /\ 6 \notin Out32(q, {7}).p32 /\ Out32(q, {7}).p5x = 3
      BY <1>1, <2>2, Out32Ports
    <3> QED BY <1>2, <3>1
  <2> QED BY <2>1, <2>2
<1>6. ASSUME 6 \notin d PROVE JustReset(Out33(q, d), m)
  <2>1. CASE ~q.n80mode
    BY <1>1, <2>1, Out33Ports
  <2>2. CASE q.n80mode
    <3>1. PortsKept(q, Out33(q, d), {"p33", "p5x"}) /\ 6 \notin Out33(q, d).p33 /\ Out33(q, d).p5x = 3
      BY <1>1, <1>6, <2>2, Out33Ports
    <3> QED BY <1>2, <3>1
  <2> QED BY <2>1, <2>2
<1>7. JustReset(Out35(q, {}), m)
  <2>1. CASE NoALU(q)
    BY <1>1, <2>1, Out35Ports
  <2>2. CASE ~NoALU(q)
    <3>1. PortsKept(q, Out35(q, {}), {"p35", "p5x"}) /\ Out35(q, {}).p35 = {} /\ Out35(q, {}).p5x = 3
      BY <1>1, <2>2, Out35Ports
    <3> QED BY <1>2, <3>1
  <2> QED BY <2>1, <2>2
<1>8. JustReset(Out5x(q, 3), m)
  <2>1. PortsKept(q, Out5x(q, 3), {"p5x"}) /\ Out5x(q, 3).p5x = 3
    BY <1>1, Out5xPorts
  <2>2. PortsKept(q, Out5x(q, 3), {"p40", "p5x"})
    BY <2>1 DEF PortsKept
  <2> QED BY <1>2, <2>1, <2>2
<1>9. /\ JustReset(Out34(q, d), m) /\ JustReset(Out40(q, d), m) /\ JustReset(Out70(q, d), m) /\ JustReset(Out99(q, d), m)
      /\ JustReset(Oute2(q, d), m) /\ JustReset(Oute3(q, d), m)
  <2>1. /\ PortsKept(q, Out34(q, d), {"p34"}) /\ PortsKept(q, Out40(q, d), {"p40"}) /\ PortsKept(q, Out70(q, d), {"p70"})
        /\ PortsKept(q, Out99(q, d), {"p99"}) /\ PortsKept(q, Oute2(q, d), {"e2"}) /\ PortsKept(q, Oute3(q, d), {"e3"})
    BY <1>1, OtherOutPorts
  <2> QED BY <1>3, <2>1
<1>10. JustReset(Outf1(q, {0}), m)
  <2> DEFINE p == Outf1(q, {0})
  <2>1. PortsKept(q, p, {"seldic", "p5x"}) /\ p.p5x = 3 /\ p.seldic = FALSE
    BY <1>1, OutfPorts
  <2> HIDE DEF p
  <2>2. /\ p.n80mode = q.n80mode /\ p.n80sr = q.n80sr /\ p.sw31 = q.sw31 /\ p.banks = q.banks
        /\ p.p31 = q.p31 /\ p.p32 = q.p32 /\ p.p33 = q.p33 /\ p.p35 = q.p35
    BY <2>1, LoadPortsKept
  <2>3. JustReset(p, m)
    BY <1>1, <2>1, <2>2 DEF JustReset, SameMachine, PortsKept
  <2> QED BY <2>3 DEF p
<1> QED BY <1>4, <1>5, <1>6, <1>7, <1>8, <1>9, <1>10

LEMMA FreshIsReset ==
  ASSUME NEW m, m.n80mode \in BOOLEAN, Settled(m), m.n80mode <=> (1 \in m.mode)
  PROVE  JustReset(Fresh(m), m)
<1> DEFINE p == [PowerOnMemory EXCEPT !.neweram = m.banks, !.enablewait = m.enablewait]
           r == Reset88(p, m.mode, m.sw31, m.waitmode[2])
           a == Out32(Out31(r, {}), {7})
           b == Out35(Out34(Out33(a, IF m.mode = {1, 4} THEN {1, 7} ELSE {1}), {}), {})
           c == Out70(Out5x(Out40(b, {}), 3), 0)
           d == Out99(c, IF 6 \in m.mode /\ "CDBIOS" \in Has THEN {4} ELSE {})
           n80 == 1 \in m.mode /\ (IF 7 \in p.p33 THEN N80V2Rom ELSE N80Rom) # Null
<1>1. /\ DOMAIN p = Fields /\ p.p31 = {} /\ p.p32 = {} /\ p.p33 = {} /\ p.p35 = {} /\ p.seldic = FALSE /\ p.neweram = m.banks
  BY DEF PowerOnMemory, Fields
<1>2. n80 = m.n80mode
  <2>1. "N80SR" \in Has => N80Rom # Null
    BY DEF N80Rom, Null
  <2> QED BY <1>1, <2>1 DEF Settled
<1> HIDE DEF p
<1>3. /\ PortsKept(p, r, ResetPorts)
      /\ r.sw31 = m.sw31 /\ r.mode = m.mode /\ r.n80mode = n80 /\ r.n80sr = (m.mode = {1, 4}) /\ r.p5x = 3
      /\ r.banks = IF n80 /\ p.neweram < 1 THEN 1 ELSE p.neweram
      /\ n80 => r.p31 = {}
      /\ ~n80 => r.p31 = p.p31
  BY <1>1, Reset88Ports
<1> HIDE DEF r, n80
<1>4. r.seldic = p.seldic /\ r.p32 = p.p32 /\ r.p33 = p.p33 /\ r.p35 = p.p35
  BY <1>3, LoadPortsKept DEF ResetPorts
<1>5. r.banks = m.banks
  BY <1>1, <1>2, <1>3 DEF Settled
<1>6. r.n80sr = m.n80sr
  BY <1>3 DEF Settled
<1>7. r.p31 = {}
  BY <1>1, <1>2, <1>3
<1>8. JustReset(r, m)
  BY <1>1, <1>2, <1>3, <1>4, <1>5, <1>6, <1>7 DEF JustReset, SameMachine, PortsKept
<1>9. JustReset(a, m)
  BY <1>8, JustResetKept
<1> HIDE DEF a
<1>10. JustReset(b, m)
  <2>1. 6 \notin (IF m.mode = {1, 4} THEN {1, 7} ELSE {1})
    OBVIOUS
  <2> QED BY <1>9, <2>1, JustResetKept
<1> HIDE DEF b
<1>11. JustReset(c, m)
  BY <1>10, JustResetKept
<1> HIDE DEF c
<1>12. JustReset(d, m)
  BY <1>11, JustResetKept
<1> HIDE DEF d
<1>13. JustReset(Outf1(Oute3(Oute2(d, {}), 0), {0}), m)
  BY <1>12, JustResetKept
<1>14. Fresh(m) = Outf1(Oute3(Oute2(d, {}), 0), {0})
  BY DEF Fresh, PC88Reset, d, c, b, a, r, p
<1> QED BY <1>13, <1>14

\* The ports of m as the load has written them again, as far as a bank depends on
\* them in the mode that m is in.
Ports31(q, m) == q.p31 \intersect {1, 2} = m.p31 \intersect {1, 2} /\ (m.n80mode => q.p31 = m.p31)
Ports32(q, m) == IF m.n80mode THEN q.p33 = m.p33 ELSE q.p32 = m.p32
SamePorts(q, m) ==
  /\ SameMachine(q, m) /\ Ports31(q, m) /\ Ports32(q, m)
  /\ q.p35 = m.p35 /\ q.p5x = m.p5x /\ q.p71 = m.p71 /\ q.e2 = m.e2 /\ q.e3 = m.e3
  /\ ~m.n80mode => q.p70 = m.p70 /\ q.p99 = m.p99

LEMMA LoadRestores ==
  ASSUME NEW m, MemoryOK(m), Settled(m), NoALU(m) => m.p35 = {}, NEW f, JustReset(f, m)
  PROVE  SamePorts(LoadStatus88(f, SaveStatus88(m)), m) /\ LoadStatus88(f, SaveStatus88(m)).gvram = m.gvram
<1> DEFINE a1 == Out34(f, m.p34)
           a2 == Out31(a1, m.p31)
           a3 == Out32(a2, m.p32)
           a4 == Out33(a3, m.p33)
           a5 == Out35(a4, m.p35)
           a6 == Out5x(a5, m.p5x)
           a7 == Out40(a6, m.p40)
           a8 == Out71(a7, m.p71)
           a9 == Out70(a8, m.p70)
           a10 == Out99(a9, m.p99)
           a11 == Oute2(a10, m.e2)
           a12 == Oute3(a11, m.e3)
           a13 == Outf0(a12, m.f0)
           q == [a13 EXCEPT !.gvram = m.gvram, !.dirty = TRUE]
           Same(p) == SameMachine(p, m) /\ DOMAIN p = Fields /\ p.n80mode \in BOOLEAN
<1>1. LoadStatus88(f, SaveStatus88(m)) = q
  BY DEF LoadStatus88, SaveStatus88, SavedPorts
<1>2. m.n80mode \in BOOLEAN /\ ("CDBIOS" \in Has \/ m.p99 = {}) /\ Roms71(m)
  BY DEF MemoryOK, MemTypeOK, RomsThere, Settled
<1>3. ASSUME NEW p, SameMachine(p, m) PROVE Same(p) /\ p.n80mode = m.n80mode /\ p.n80sr = m.n80sr
  BY <1>3 DEF SameMachine
<1>4. JustReset(a1, m)
  BY JustResetKept
<1> HIDE DEF a1
<1>5. Same(a1) /\ a1.p31 = {} /\ a1.p5x = 3 /\ 6 \notin a1.p32 /\ 6 \notin a1.p33 /\ a1.p35 = {}
  BY <1>3, <1>4 DEF JustReset
<1>6. Same(a2) /\ Ports31(a2, m) /\ a2.p5x = 3 /\ 6 \notin a2.p32 /\ 6 \notin a2.p33 /\ a2.p35 = {}
  <2> DEFINE of == IF a1.n80mode THEN {0, 1} ELSE {1, 2}
  <2>1. PortsKept(a1, a2, {"p31"}) /\ a2.p31 = IF Toggled(m.p31, a1.p31) \intersect of = {} THEN a1.p31 ELSE m.p31 \intersect of
    BY <1>5, Out31Ports
  <2> HIDE DEF a2
  <2>2. SameMachine(a2, m) /\ a2.p5x = 3 /\ 6 \notin a2.p32 /\ 6 \notin a2.p33 /\ a2.p35 = {}
    BY <1>5, <2>1, LoadPortsKept, SameMachineKept
  <2>3. a2.p31 = m.p31 \intersect of
    BY <1>5, <2>1 DEF Toggled
  <2>4. CASE m.n80mode
    <3>1. of = {0, 1} /\ m.p31 \subseteq {0, 1}
      BY <1>3, <1>5, <2>4 DEF Settled
    <3>2. a2.p31 = m.p31
      BY <2>3, <3>1
    <3> QED BY <1>3, <2>2, <3>2 DEF Ports31
  <2>5. CASE ~m.n80mode
    <3>1. of = {1, 2}
      BY <1>3, <1>5, <2>5
    <3>2. a2.p31 \intersect {1, 2} = m.p31 \intersect {1, 2}
      BY <2>3, <3>1
    <3> QED BY <1>3, <2>2, <2>5, <3>2 DEF Ports31
  <2> QED BY <1>2, <2>4, <2>5
<1> HIDE DEF a2
<1>7. /\ Same(a3) /\ Ports31(a3, m) /\ a3.p5x = 3 /\ 6 \notin a3.p33 /\ a3.p35 = {}
      /\ (~m.n80mode => a3.p32 = m.p32)
  <2>1. CASE m.n80mode
    <3>1. a3 = a2
      BY <1>3, <1>6, <2>1, Out32Ports
    <3> QED BY <1>6, <2>1, <3>1
  <2>2. CASE ~m.n80mode
    <3>1. PortsKept(a2, a3, {"p32", "p5x"}) /\ a3.p32 = m.p32 /\ a3.p5x = 3
      BY <1>3, <1>6, <2>2, Out32Ports
    <3> HIDE DEF a3
    <3>2. SameMachine(a3, m) /\ 6 \notin a3.p33 /\ a3.p35 = {} /\ a3.p31 = a2.p31
      BY <1>6, <3>1, LoadPortsKept, SameMachineKept
    <3> QED BY <1>3, <1>6, <3>1, <3>2 DEF Ports31
  <2> QED BY <1>2, <2>1, <2>2
<1> HIDE DEF a3
<1>8. Same(a4) /\ Ports31(a4, m) /\ Ports32(a4, m) /\ a4.p5x = 3 /\ a4.p35 = {}
  <2>1. CASE ~m.n80mode
    <3>1. a4 = a3
      BY <1>3, <1>7, <2>1, Out33Ports
    <3> QED BY <1>7, <2>1, <3>1 DEF Ports32
  <2>2. CASE m.n80mode
    <3>1. PortsKept(a3, a4, {"p33", "p5x"}) /\ a4.p33 = m.p33 /\ a4.p5x = 3
      BY <1>3, <1>7, <2>2, Out33Ports
    <3> HIDE DEF a4
    <3>2. SameMachine(a4, m) /\ a4.p35 = {} /\ a4.p31 = a3.p31
      BY <1>7, <3>1, LoadPortsKept, SameMachineKept
    <3> QED BY <1>3, <1>7, <2>2, <3>1, <3>2 DEF Ports31, Ports32
  <2> QED BY <1>2, <2>1, <2>2
<1> HIDE DEF a4
\* From here on a step that keeps the ports of 31 and of 32 or 33 keeps these.
<1>9. ASSUME NEW p, Same(p), Ports31(p, m), Ports32(p, m), NEW r, NEW S, PortsKept(p, r, S),
             S \intersect {"n80mode", "n80sr", "sw31", "banks", "seldic", "p31", "p32", "p33"} = {}
      PROVE  Same(r) /\ Ports31(r, m) /\ Ports32(r, m)
  <2>1. S \intersect {"n80mode", "n80sr", "sw31", "banks", "seldic"} = {}
    BY <1>9
  <2>2. SameMachine(r, m)
    BY <1>9, <2>1, SameMachineKept
  <2>3. r.p31 = p.p31 /\ r.p32 = p.p32 /\ r.p33 = p.p33
    BY <1>9, LoadPortsKept
  <2> QED BY <1>3, <1>9, <2>2, <2>3 DEF Ports31, Ports32
<1> DEFINE Restored(p) == Same(p) /\ Ports31(p, m) /\ Ports32(p, m)
<1>10. Restored(a5) /\ a5.p35 = m.p35 /\ a5.p5x = 3
  <2>1. NoALU(a4) <=> NoALU(m)
    BY <1>3, <1>8 DEF NoALU
  <2>2. CASE NoALU(m)
    <3>1. a5 = a4
      BY <1>8, <2>1, <2>2, Out35Ports
    <3> QED BY <1>8, <2>2, <3>1
  <2>3. CASE ~NoALU(m)
    <3>1. PortsKept(a4, a5, {"p35", "p5x"}) /\ a5.p35 = m.p35 /\ a5.p5x = 3
      BY <1>8, <2>1, <2>3, Out35Ports
    <3> QED BY <1>8, <1>9, <3>1
  <2> QED BY <2>2, <2>3
<1> HIDE DEF a5
<1>11. Restored(a6) /\ a6.p35 = m.p35 /\ a6.p5x = m.p5x
  <2>1. /\ PortsKept(a5, a6, {"p5x"})
        /\ a6.p5x = IF a5.n80mode /\ ~a5.n80sr /\ m.p5x \in {1, 2} THEN a5.p5x
                    ELSE IF (IF a5.n80mode THEN 6 \in a5.p33 ELSE 6 \in a5.p32) THEN 3 ELSE m.p5x
    BY <1>10, Out5xPorts
  <2> HIDE DEF a6
  <2>2. Restored(a6) /\ a6.p35 = m.p35
    BY <1>9, <1>10, <2>1, LoadPortsKept
  <2>3. a6.p5x = m.p5x
    <3>1. CASE m.n80mode
      BY <1>3, <1>10, <2>1, <3>1 DEF Settled, Ports32
    <3>2. CASE ~m.n80mode
      BY <1>3, <1>10, <2>1, <3>2 DEF Settled, Ports32
    <3> QED BY <1>2, <3>1, <3>2
  <2> QED BY <2>2, <2>3
<1> HIDE DEF a6
<1>12. Restored(a7) /\ a7.p35 = m.p35 /\ a7.p5x = m.p5x
  <2>1. PortsKept(a6, a7, {"p40"})
    BY <1>11, OtherOutPorts
  <2> HIDE DEF a7
  <2> QED BY <1>9, <1>11, <2>1, LoadPortsKept
<1> HIDE DEF a7
<1>13. Restored(a8) /\ a8.p35 = m.p35 /\ a8.p5x = m.p5x /\ a8.p71 = m.p71
  <2>1. PortsKept(a7, a8, {"p71"}) /\ a8.p71 = m.p71 \union ((1..7) \ ERoms)
    BY <1>12, OtherOutPorts
  <2> HIDE DEF a8
  <2>2. a8.p71 = m.p71
    BY <1>2, <2>1 DEF Roms71
  <2> QED BY <1>9, <1>12, <2>1, <2>2, LoadPortsKept
<1> HIDE DEF a8
<1>14. /\ Restored(a9) /\ a9.p35 = m.p35 /\ a9.p5x = m.p5x /\ a9.p71 = m.p71
       /\ (~m.n80mode => a9.p70 = m.p70)
  <2>1. PortsKept(a8, a9, {"p70"}) /\ (~a8.n80mode => a9.p70 = m.p70)
    BY <1>13, OtherOutPorts
  <2> HIDE DEF a9
  <2> QED BY <1>3, <1>9, <1>13, <2>1, LoadPortsKept
<1> HIDE DEF a9
<1>15. /\ Restored(a10) /\ a10.p35 = m.p35 /\ a10.p5x = m.p5x /\ a10.p71 = m.p71
       /\ (~m.n80mode => a10.p70 = m.p70 /\ a10.p99 = m.p99)
  <2>1. PortsKept(a9, a10, {"p99"}) /\ a10.p99 = IF "CDBIOS" \in Has /\ ~a9.n80mode THEN m.p99 \intersect {0, 4} ELSE {}
    BY <1>14, OtherOutPorts
  <2> HIDE DEF a10
  <2>2. Restored(a10) /\ a10.p35 = m.p35 /\ a10.p5x = m.p5x /\ a10.p71 = m.p71 /\ (~m.n80mode => a10.p70 = m.p70)
    BY <1>9, <1>14, <2>1, LoadPortsKept
  <2>3. m.p99 \intersect {0, 4} = m.p99
    BY <1>2 DEF Roms71
  <2> QED BY <1>2, <1>3, <1>14, <2>1, <2>2, <2>3
<1> HIDE DEF a10
<1>16. /\ Restored(a11) /\ a11.p35 = m.p35 /\ a11.p5x = m.p5x /\ a11.p71 = m.p71 /\ a11.e2 = m.e2
       /\ (~m.n80mode => a11.p70 = m.p70 /\ a11.p99 = m.p99)
  <2>1. PortsKept(a10, a11, {"e2"}) /\ a11.e2 = m.e2
    BY <1>15, OtherOutPorts
  <2> HIDE DEF a11
  <2> QED BY <1>9, <1>15, <2>1, LoadPortsKept
<1> HIDE DEF a11
<1>17. /\ Restored(a12) /\ a12.p35 = m.p35 /\ a12.p5x = m.p5x /\ a12.p71 = m.p71 /\ a12.e2 = m.e2 /\ a12.e3 = m.e3
       /\ (~m.n80mode => a12.p70 = m.p70 /\ a12.p99 = m.p99)
  <2>1. PortsKept(a11, a12, {"e3"}) /\ a12.e3 = m.e3
    BY <1>16, OtherOutPorts
  <2> HIDE DEF a12
  <2> QED BY <1>9, <1>16, <2>1, LoadPortsKept
<1> HIDE DEF a12
<1>18. /\ Restored(a13) /\ a13.p35 = m.p35 /\ a13.p5x = m.p5x /\ a13.p71 = m.p71 /\ a13.e2 = m.e2 /\ a13.e3 = m.e3
       /\ (~m.n80mode => a13.p70 = m.p70 /\ a13.p99 = m.p99)
  <2>1. PortsKept(a12, a13, {"f0", "p5x"}) /\ a13.p5x = IF JisyoUsable(a12) /\ 6 \in a12.p32 THEN 3 ELSE a12.p5x
    BY <1>17, OutfPorts
  <2> HIDE DEF a13
  <2>2. a13.p5x = m.p5x
    BY <1>2, <1>3, <1>17, <2>1 DEF JisyoUsable, Settled, Ports32
  <2> QED BY <1>9, <1>17, <2>1, <2>2, LoadPortsKept
<1> HIDE DEF a13
<1>19. /\ Restored(q) /\ q.p35 = m.p35 /\ q.p5x = m.p5x /\ q.p71 = m.p71 /\ q.e2 = m.e2 /\ q.e3 = m.e3
       /\ (~m.n80mode => q.p70 = m.p70 /\ q.p99 = m.p99)
       /\ q.gvram = m.gvram
  <2>1. PortsKept(a13, q, {"gvram", "dirty"}) /\ q.gvram = m.gvram
    BY <1>18 DEF PortsKept, Fields
  <2> HIDE DEF q
  <2> QED BY <1>9, <1>18, <2>1, LoadPortsKept
<1> HIDE DEF q
<1> QED BY <1>1, <1>19 DEF SamePorts

\* Two machines with these ports show the same banks: MemoryOK says which.
LEMMA SamePortsSameBanks ==
  ASSUME NEW m, NEW q, MemoryOK(m), MemoryOK(q), SamePorts(q, m), ~m.seldic
  PROVE  \A r \in RegionIds : (m.n80mode /\ r = "80") \/ (q.rd[r] = m.rd[r] /\ q.wr[r] = m.wr[r])
<1>1. /\ q.n80mode = m.n80mode /\ m.n80mode \in BOOLEAN /\ q.sw31 = m.sw31 /\ q.banks = m.banks /\ ~q.seldic
      /\ q.p35 = m.p35 /\ q.p5x = m.p5x /\ q.p71 = m.p71 /\ q.e2 = m.e2 /\ q.e3 = m.e3
      /\ (1 \in q.p31 <=> 1 \in m.p31) /\ (2 \in q.p31 <=> 2 \in m.p31)
      /\ q.p31 \intersect {1, 2} = m.p31 \intersect {1, 2}
  BY DEF SamePorts, SameMachine, Ports31
<1>2. Eram(q) = Eram(m) /\ (\A b : EramAt(q, b) <=> EramAt(m, b)) /\ Highest(q) = Highest(m)
      /\ ALUFunction(q) = ALUFunction(m)
  BY <1>1 DEF Eram, EramAt, Highest, ALUFunction
<1>3. CASE m.n80mode
  <2>1. q.p31 = m.p31 /\ q.p33 = m.p33
    BY <1>3 DEF SamePorts, Ports31, Ports32
  <2>2. \A b : ExtendedN80(q, b) <=> ExtendedN80(m, b)
    BY <1>1 DEF ExtendedN80
  <2>3. N80Rd00(q) = N80Rd00(m) /\ N80Wr00(q) = N80Wr00(m)
    BY <1>2, <2>1, <2>2 DEF N80Rd00, N80Wr00
  <2>4. N80Rd60(q) = N80Rd60(m)
    BY <1>2, <2>1, <2>2, <2>3 DEF N80Rd60
  <2>5. \A r \in LowRam : q.rd[r] = m.rd[r] /\ q.wr[r] = m.wr[r]
    BY <1>1, <1>3, <2>3, <2>4 DEF MemoryOK, LowOK, LowRd00, LowRd60, LowWr, LowRam
  <2>6. \A alu : GraphicsN80(q, alu) = GraphicsN80(m, alu)
    BY <1>1, <2>1 DEF GraphicsN80
  <2>7. q.rd["84"] = m.rd["84"] /\ q.wr["84"] = m.wr["84"]
    BY <1>1, <1>2, <1>3, <2>6 DEF MemoryOK, N80OK
  <2>8. \A r \in Upper : q.rd[r] = m.rd[r] /\ q.wr[r] = m.wr[r]
    BY <1>1, <1>3 DEF MemoryOK, UpperPlain
  <2> QED BY <1>3, <2>5, <2>7, <2>8 DEF RegionIds, LowRam, Upper
<1>4. CASE ~m.n80mode
  <2>1. q.p32 = m.p32 /\ q.p70 = m.p70 /\ q.p99 = m.p99
    BY <1>4 DEF SamePorts, Ports32
  <2>2. Rd00(q) = Rd00(m) /\ Wr00(q) = Wr00(m)
    BY <1>1, <1>2, <2>1 DEF Rd00, Wr00
  <2>3. InternalBank(q) = InternalBank(m)
    BY <2>1 DEF InternalBank
  <2>4. Rd60(q) = Rd60(m)
    BY <1>1, <1>2, <2>1, <2>3 DEF Rd60
  <2>5. \A r \in LowRam : q.rd[r] = m.rd[r] /\ q.wr[r] = m.wr[r]
    BY <1>1, <1>4, <2>2, <2>4 DEF MemoryOK, LowOK, LowRd00, LowRd60, LowWr, LowRam
  <2>6. \A r \in {"80", "84"} : q.rd[r] = m.rd[r] /\ q.wr[r] = m.wr[r]
    BY <1>1, <1>4, <2>1 DEF MemoryOK, MidOK, Bank80, Window
  <2>7. \A r : GetHiBank(q, r) = GetHiBank(m, r)
    BY <1>1, <2>1 DEF GetHiBank, TVRAMShown
  <2>8. \A r : HighRd(q, r) = HighRd(m, r) /\ HighWr(q, r) = HighWr(m, r)
    BY <1>1, <1>2, <2>1, <2>7 DEF HighRd, HighWr
  <2>9. \A r \in Upper : q.rd[r] = m.rd[r] /\ q.wr[r] = m.wr[r]
    BY <1>1, <1>4, <2>8 DEF MemoryOK, HighC0, HighF0, Upper
  <2> QED BY <1>4, <2>5, <2>6, <2>9 DEF RegionIds, LowRam, Upper
<1> QED BY <1>1, <1>3, <1>4

\* A snapshot brings back what the CPU sees: LoadStatus, on a machine that has just
\* been reset, leaves every region with the bank it had, the graphics memory and the
\* comparison of its planes, and the ports that can be read.
THEOREM SnapshotsBringBanksBack == MemSpec => []SnapshotKeepsBanks
<1>1. InOrder(mem) => SnapshotKeepsBanks
  <2> DEFINE loaded == LoadStatus88(Fresh(mem), SaveStatus88(mem))
  <2> SUFFICES ASSUME InOrder(mem), ~mem.seldic, mem.n80mode = (1 \in mem.mode), ~(NoALU(mem) /\ mem.p35 # {})
               PROVE  /\ \A r \in RegionIds : (mem.n80mode /\ r = "80") \/
                                     (loaded.rd[r] = mem.rd[r] /\ loaded.wr[r] = mem.wr[r])
                      /\ loaded.gvram = mem.gvram /\ RdALU(loaded) = RdALU(mem)
                      /\ ~mem.n80mode => MemInPorts(loaded) = MemInPorts(mem)
    BY DEF SnapshotKeepsBanks
  <2>1. MemoryOK(mem) /\ Settled(mem) /\ mem.n80mode \in BOOLEAN
    BY DEF InOrder, MemoryOK, MemTypeOK
  <2>2. JustReset(Fresh(mem), mem)
    <3>1. mem.n80mode <=> (1 \in mem.mode)
      OBVIOUS
    <3> QED BY ONLY <2>1, <3>1, FreshIsReset
  <2>3. MemoryOK(loaded)
    BY FreshSettled, LoadStatusOK DEF InOrder
  <2>4. SamePorts(loaded, mem) /\ loaded.gvram = mem.gvram
    BY <2>1, <2>2, LoadRestores
  <2> HIDE DEF loaded
  <2>5. \A r \in RegionIds : (mem.n80mode /\ r = "80") \/ (loaded.rd[r] = mem.rd[r] /\ loaded.wr[r] = mem.wr[r])
    BY <2>1, <2>3, <2>4, SamePortsSameBanks
  <2>6. RdALU(loaded) = RdALU(mem)
    BY <2>4 DEF RdALU, SamePorts
  <2>7. ~mem.n80mode => MemInPorts(loaded) = MemInPorts(mem)
    BY <2>4 DEF MemInPorts, SamePorts, SameMachine, Ports32
  <2> QED BY <2>4, <2>5, <2>6, <2>7
<1> QED BY <1>1, MemorySettled, PTL
====

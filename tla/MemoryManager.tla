---- MODULE MemoryManager ----
(***************************************************************************)
(* MemoryManagerBase of common/memory_manager.{h,cpp}, of which M88 has    *)
(* one for reads and one for writes: Devices devices claim pages of the    *)
(* address space, a lower number outranks a higher one, and the page table *)
(* that every memory access of the CPU reads shows each page's highest     *)
(* ranking claimant.  Beside the table the code keeps, for every page, the *)
(* list priority[page], whose entry i names the claimant that answers when *)
(* the devices above i are left out: Read8P and Write8P go through it.     *)
(*                                                                         *)
(* A pointer is <<what the device passed, pages into it>>.  claims is not  *)
(* in the code: it says which devices want the page.                       *)
(***************************************************************************)
EXTENDS Integers

CONSTANTS
  Devices,      \* ndevices, 8 in the code
  PageSize,     \* 2^pagebits
  Pages,        \* npages
  Owners, NoOwner,
  Pointers, NullPointer,
  Founder,      \* Memory, the first to connect
  Spans         \* the [addr, length] that devices ask for

ASSUME DevicesAssumption == Devices \in Nat /\ Devices >= 2
ASSUME PagesAssumption == Pages \in Nat /\ PageSize \in Nat \ {0}
ASSUME OwnersAssumption == NoOwner \notin Owners \union {Founder}

Lowest == Devices - 1
Pid == 0..Lowest
Page == 0..(Pages - 1)

VARIABLES inst, local, priority, table, claims
mmvars == <<inst, local, priority, table, claims>>

-----------------------------------------------------------------------------
(* What the lists and the table are for.                                     *)

\* q is the first device from i on that wants page p; the lowest always does.
IsFirst(p, i, q) ==
  /\ q \in i..Lowest /\ q \in claims[p] \union {Lowest}
  /\ \A j \in i..(q - 1) : j \notin claims[p]

\* Whatever devices claim, release and leave in whatever order, entry i of a
\* page's list names the first claimant from i on: Read8P and Write8P find the
\* device just under the one that asks, and a page's top entry its owner.
PrioritiesKept == \A p \in Page, i \in Pid : IsFirst(p, i, priority[p][i])

\* The page table, which the CPU reads directly, shows the owner and the pointer
\* of each page's first claimant, a device that is still there.
OwnersAnswer ==
  \A p \in Page :
    LET q == priority[p][0]
    IN /\ table[p].inst = inst[q] /\ table[p].inst # NoOwner
       /\ table[p].ptr = local[q][p].ptr

\* What the devices and the CPU find, at any time: both.
MmCorrect == PrioritiesKept /\ OwnersAnswer

-----------------------------------------------------------------------------
(* Init, as Memory leaves it, which connects first and claims every page.    *)

MmInit ==
  /\ inst = [pid \in Pid |-> IF pid = Lowest THEN Founder ELSE NoOwner]
  /\ local = [pid \in Pid |-> [p \in Page |->
                [ptr |-> IF pid = Lowest THEN <<Founder, p>> ELSE NullPointer, func |-> FALSE]]]
  /\ priority = [p \in Page |-> [i \in Pid |-> Lowest]]
  /\ table = [p \in Page |-> [inst |-> Founder, ptr |-> <<Founder, p>>, func |-> FALSE]]
  /\ claims = [p \in Page |-> {Lowest}]

Touched(addr, length) ==
  (addr \div PageSize)..(((addr + length + PageSize - 1) \div PageSize) - 1)

\* Where Connect looks, in order; the last slot of either search is never given
\* away, and -1, which no caller looks for, stands for none.
Searched(high) == [k \in 1..Lowest |-> IF high THEN k - 1 ELSE Devices - k]
Connect(owner, high) ==
  \E k \in 1..Lowest :
    LET pid == Searched(high)[k]
    IN /\ inst[pid] = NoOwner
       /\ \A j \in 1..(k - 1) : inst[Searched(high)[j]] # NoOwner
       /\ inst' = [inst EXCEPT ![pid] = owner]
       /\ local' = [local EXCEPT ![pid] = [p \in Page |-> [local[pid][p] EXCEPT !.ptr = NullPointer]]]
       /\ UNCHANGED <<priority, table, claims>>

\* The loops of Alloc and Release over one page's list, in closed form.
Claimed(list, pid) ==
  [i \in Pid |-> IF i <= pid /\ \A j \in i..pid : list[j] > pid THEN pid ELSE list[i]]
Yielded(list, pid) ==
  [i \in Pid |-> IF \/ i = 0 /\ list[0] = pid
                    \/ i \in 1..pid /\ \A j \in i..pid : list[j] >= pid
                 THEN list[pid + 1] ELSE list[i]]

Alloc(pid, pages, ptr, func) ==
  LET Mine(p) == [ptr |-> <<ptr, IF func THEN 0 ELSE p>>, func |-> func]
  IN /\ inst[pid] # NoOwner
     /\ priority' = [p \in Page |-> IF p \in pages THEN Claimed(priority[p], pid) ELSE priority[p]]
     /\ table' = [p \in Page |-> IF p \in pages /\ priority'[p][0] = pid
                    THEN [inst |-> inst[pid], ptr |-> Mine(p).ptr, func |-> func] ELSE table[p]]
     /\ local' = [local EXCEPT ![pid] = [p \in Page |-> IF p \in pages THEN Mine(p) ELSE local[pid][p]]]
     /\ claims' = [p \in Page |-> IF p \in pages THEN claims[p] \union {pid} ELSE claims[p]]
     /\ UNCHANGED inst

\* Mutant: the pointer changes, the object it is called with does not.
KeepsOwner(p, pid) ==
  LET npid == priority[p][pid + 1]
  IN IF priority[p][pid] = pid /\ priority[p][0] = pid
     THEN [table[p] EXCEPT !.ptr = local[npid][p].ptr]
     ELSE table[p]

\* A page that falls to the next device shows its owner and its pointer, and
\* the kind of the device that leaves.
Left(p, pid) ==
  LET npid == priority[p][pid + 1]
  IN IF priority[p][pid] = pid /\ priority[p][0] = pid
     THEN [inst |-> inst[npid], ptr |-> local[npid][p].ptr, func |-> table[p].func]
     ELSE table[p]

\* The lowest device cannot release anything; only Memory holds that slot, and it
\* is disconnected when the machine is torn down, which is not modelled.
Release(pid, pages) ==
  /\ inst[pid] # NoOwner /\ pid # Lowest
  /\ priority' = [p \in Page |-> IF p \in pages /\ priority[p][pid] = pid
                   THEN Yielded(priority[p], pid) ELSE priority[p]]
  /\ table' = [p \in Page |-> IF p \in pages THEN Left(p, pid) ELSE table[p]]
  /\ local' = [local EXCEPT ![pid] = [p \in Page |->
                 [ptr |-> IF p \in pages THEN NullPointer ELSE local[pid][p].ptr, func |-> local[pid][p].func]]]
  /\ claims' = [p \in Page |-> IF p \in pages THEN claims[p] \ {pid} ELSE claims[p]]

MmDisconnect(pid) == Release(pid, Page) /\ inst' = [inst EXCEPT ![pid] = NoOwner]

\* By owner, of which a device may be several: the first of them.
DisconnectOwner(owner) ==
  \E pid \in Pid :
    /\ inst[pid] = owner /\ \A q \in 0..(pid - 1) : inst[q] # owner
    /\ MmDisconnect(pid)

MmNext ==
  \/ \E owner \in Owners, high \in BOOLEAN : Connect(owner, high)
  \/ \E pid \in Pid, s \in Spans, ptr \in Pointers, func \in BOOLEAN :
       Alloc(pid, Touched(s.addr, s.length), ptr, func)
  \/ \E pid \in Pid, s \in Spans : Release(pid, Touched(s.addr, s.length)) /\ UNCHANGED inst
  \/ \E pid \in Pid : MmDisconnect(pid)
  \/ \E owner \in Owners : DisconnectOwner(owner)

MmSpec == MmInit /\ [][MmNext]_mmvars

====

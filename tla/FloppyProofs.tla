---- MODULE FloppyProofs ----
(***************************************************************************)
(* Proofs about the disk system, whatever the images, the commands and     *)
(* the bounds: the disk manager with its drives (Disks), the floppy disk   *)
(* controller (FDC) and the ports between the CPUs (SubSystem).            *)
(***************************************************************************)
EXTENDS FDC, Disks, SubSystem, TLAPS, FiniteSetTheorems, WellFoundedInduction, SequenceTheorems

-----------------------------------------------------------------------------
(* The disk manager: calls of the user interface, holders and drives.       *)

\* What the menu of a drive may name: a file, or none.
Named == Files \union {""}

\* The calls a command of the user interface is made of.
Calls ==
  [op : {"unmount", "clear", "add", "format"}, dr : Drive]
    \union [op : {"mount"}, dr : Drive, file : Files, readonly : BOOLEAN, index : Int,
            create : BOOLEAN, ui : BOOLEAN]
    \union [op : {"second"}, dr : {1}, file : Files, readonly : BOOLEAN, dropped : BOOLEAN]

\* A mount comes directly after the unmount of the same drive.
Chained(q) == \A i \in 1..Len(q) - 1 :
  q[i + 1].op = "mount" => q[i].op = "unmount" /\ q[i].dr = q[i + 1].dr

\* Calls the user interface may still have to make.
IsCalls(q) == q \in Seq(Calls) /\ Chained(q)

\* Calls a command can begin with, whatever was left in the drives.
Opening(q) == IsCalls(q) /\ (q # <<>> => q[1].op # "mount")

\* The records the state is made of.
StateFields == {"file", "holder", "drive", "name", "asked", "todo", "changes", "lost", "newest", "spoiled"}

\* Those of a holder.
HolderFields == {"name", "ref", "readonly", "disks"}

\* Those of a drive.
DriveFields == {"holder", "index", "size", "data", "readonly", "modified", "fdu"}

\* All records keep their fields.
DiskShapes(s) ==
  /\ DOMAIN s = StateFields
  /\ DOMAIN s.holder = Holder /\ \A h \in Holder : DOMAIN s.holder[h] = HolderFields
  /\ DOMAIN s.drive = Drive /\ \A dr \in Drive : DOMAIN s.drive[dr] = DriveFields

\* 1 if a drive has its disk from a holder, else 0.
Uses(s, dr, h) == IF s.drive[dr].holder = h THEN 1 ELSE 0

\* A drive counts once or not at all.
LEMMA UsesRange == ASSUME NEW s, NEW dr, NEW h PROVE Uses(s, dr, h) \in {0, 1}
BY DEF Uses

\* A holder is open, and has a file, as long as a drive uses it (DiskImageHolder::Connect, Disconnect).
HolderCounts(s, h) ==
  /\ s.holder[h].ref = Uses(s, 0, h) + Uses(s, 1, h)
  /\ IF s.holder[h].ref = 0 THEN s.holder[h].name = "" ELSE s.holder[h].name \in Files

\* A drive with a disk has a holder in which the disk still is.
DriveHolds(s, dr) ==
  /\ s.drive[dr].holder \in Holder \union {0}
  /\ s.drive[dr].index \in Int
  /\ s.drive[dr].fdu => /\ s.drive[dr].holder # 0
                        /\ s.drive[dr].index >= 0
                        /\ s.drive[dr].index + 1 \in DOMAIN s.holder[s.drive[dr].holder].disks

\* No file is open in both holders, and no disk is in both drives.
NoneTwice(s) ==
  /\ s.holder[1].name = s.holder[2].name => s.holder[1].name = ""
  /\ s.drive[0].fdu /\ s.drive[1].fdu /\ s.drive[0].holder = s.drive[1].holder
       => s.drive[0].index # s.drive[1].index

\* Holders and drives agree: with the calls still to be made, the inductive invariant.
Agree(s) ==
  /\ DiskShapes(s)
  /\ \A h \in Holder : HolderCounts(s, h)
  /\ \A dr \in Drive : DriveHolds(s, dr)
  /\ NoneTwice(s)

\* What the menus remember is a file that can be asked for again.
MenusTyped(s) == /\ s.name \in [Drive -> Named]
            /\ s.asked \in [Drive -> BOOLEAN]

\* The drive of the mount that is due has been emptied.  The user interface sees to it,
\* not Mount: without Emptied, a mount over another disk would leave its holder counted.
Emptied(s) == s.todo # <<>> /\ Head(s.todo).op = "mount" => s.drive[Head(s.todo).dr].holder = 0

\* The inductive invariant.
DisksInv == Agree(dm) /\ MenusTyped(dm) /\ IsCalls(dm.todo) /\ Emptied(dm)

\* Two commands one after the other are a command.
LEMMA Joined == ASSUME NEW p, NEW q, Opening(p), Opening(q) PROVE Opening(p \o q)
<1>1. p \o q \in Seq(Calls) /\ p \in Seq(Calls) /\ q \in Seq(Calls)
  BY DEF Opening, IsCalls
<1>2. /\ Len(p) \in Nat /\ Len(q) \in Nat /\ Len(p \o q) = Len(p) + Len(q)
      /\ \A i \in 1..Len(p) + Len(q) : (p \o q)[i] = IF i <= Len(p) THEN p[i] ELSE q[i - Len(p)]
  BY <1>1
<1>3. Chained(p \o q)
  <2> SUFFICES ASSUME NEW i \in 1..Len(p) + Len(q) - 1, (p \o q)[i + 1].op = "mount"
              PROVE (p \o q)[i].op = "unmount" /\ (p \o q)[i].dr = (p \o q)[i + 1].dr
    BY <1>2 DEF Chained
  <2>1. CASE i < Len(p)
    <3>1. (p \o q)[i] = p[i] /\ (p \o q)[i + 1] = p[i + 1] /\ i \in 1..Len(p) - 1
      BY <2>1, <1>2
    <3> QED BY <3>1 DEF Opening, IsCalls, Chained
  <2>2. CASE i = Len(p)
    <3>1. (p \o q)[i + 1] = q[1] /\ q # <<>>
      BY <2>2, <1>2, <1>1
    <3> QED BY <3>1 DEF Opening
  <2>3. CASE i > Len(p)
    <3>1. (p \o q)[i] = q[i - Len(p)] /\ (p \o q)[i + 1] = q[i - Len(p) + 1]
          /\ i - Len(p) \in 1..Len(q) - 1
      BY <2>3, <1>2
    <3> QED BY <3>1 DEF Opening, IsCalls, Chained
  <2> QED BY <2>1, <2>2, <2>3, <1>2
<1>4. p \o q # <<>> => (p \o q)[1].op # "mount"
  <2>1. CASE p = <<>>
    BY <2>1, <1>1 DEF Opening
  <2>2. CASE p # <<>>
    <3>1. Len(p) >= 1
      BY <2>2, <1>1
    <3>2. (p \o q)[1] = p[1]
      BY <1>2, <3>1
    <3> QED BY <3>2, <2>2 DEF Opening
  <2> QED BY <2>1, <2>2
<1> QED BY <1>1, <1>3, <1>4 DEF Opening, IsCalls

\* One call other than a mount is a command.
LEMMA OneCall == ASSUME NEW c \in Calls, c.op # "mount" PROVE Opening(<<c>>)
BY DEF Opening, IsCalls, Chained

\* So is no call at all.
LEMMA NoCall == Opening(<<>>)
BY DEF Opening, IsCalls, Chained

\* OneCall for the calls with a drive only.
LEMMA CallIsOne ==
  ASSUME NEW op \in {"unmount", "clear", "add", "format"}, NEW dr \in Drive
  PROVE Opening(<<Call(op, dr)>>)
<1>1. Call(op, dr) \in Calls /\ Call(op, dr).op # "mount"
  BY DEF Call, Calls
<1> QED BY <1>1, OneCall

\* OneCall for the question whether the second disk goes to drive 2.
LEMMA SecondIsOne ==
  ASSUME NEW f \in Files, NEW ro \in BOOLEAN, NEW dropped \in BOOLEAN
  PROVE Opening(<<Second(f, ro, dropped)>>)
<1>1. Second(f, ro, dropped) \in Calls /\ Second(f, ro, dropped).op # "mount"
  BY DEF Second, Calls
<1> QED BY <1>1, OneCall

\* The calls of DiskManager::Mount, preceded by its own unmount.
LEMMA MountIsOpening ==
  ASSUME NEW dr \in Drive, NEW f \in Files, NEW ro \in BOOLEAN, NEW index \in Int,
         NEW create \in BOOLEAN, NEW ui \in BOOLEAN
  PROVE Opening(MountCalls(dr, f, ro, index, create, ui))
<1> DEFINE u == Call("unmount", dr)
           m == [op |-> "mount", dr |-> dr, file |-> f, readonly |-> ro, index |-> index,
                 create |-> create, ui |-> ui]
<1>1. u \in Calls /\ m \in Calls /\ u.op = "unmount" /\ u.dr = dr /\ m.dr = dr
  BY DEF Call, Calls
<1> HIDE DEF u, m
<1>2. Opening(<<u, m>>)
  BY <1>1 DEF Opening, IsCalls, Chained
<1> QED BY <1>2 DEF MountCalls, u, m

\* The calls of OpenDiskImage in the user interface.
LEMMA OpenIsOpening ==
  ASSUME NEW dr \in Drive, NEW f \in Files, NEW ro \in BOOLEAN, NEW index \in Int,
         NEW create \in BOOLEAN
  PROVE Opening(OpenCalls(dr, f, ro, index, create))
<1>1. TRUE \in BOOLEAN
  OBVIOUS
<1>2. Opening(MountCalls(dr, f, ro, index, create, TRUE))
  BY <1>1, MountIsOpening, Zenon
<1> QED BY <1>2 DEF OpenCalls

\* The calls that take a disk out.
LEMMA ClosingIsOpening == ASSUME NEW dr \in Drive PROVE Opening(Closing(dr))
<1> DEFINE u == Call("unmount", dr)
           c == Call("clear", dr)
<1>1. u \in Calls /\ c \in Calls /\ u.op = "unmount" /\ c.op = "clear"
  BY DEF Call, Calls
<1> HIDE DEF u, c
<1>2. Opening(<<u, c>>)
  BY <1>1 DEF Opening, IsCalls, Chained
<1> QED BY <1>2 DEF Closing, u, c

\* All the calls ChangeDiskImage makes, with those for a new image.
LEMMA ChangeIsOpening ==
  ASSUME NEW dr \in Drive, NEW f \in Files, NEW ro \in BOOLEAN, NEW createnew \in BOOLEAN
  PROVE Opening(ChangeDiskImage(dr, f, ro, createnew))
<1>1. Opening(<<Call("unmount", dr)>>) /\ Opening(<<Call("add", dr)>>) /\ Opening(<<Call("format", dr)>>)
  BY CallIsOne
<1>2. Opening(OpenCalls(dr, f, ro, 0, createnew)) /\ Opening(OpenCalls(dr, f, FALSE, 0, FALSE))
  <2>1. FALSE \in BOOLEAN /\ 0 \in Int
    OBVIOUS
  <2> QED BY <2>1, OpenIsOpening, Zenon
<1>3. Opening(<<Second(f, ro, FALSE)>>) /\ Opening(<<>>)
  BY SecondIsOne, NoCall
<1>4. Opening(<<Call("add", dr)>> \o OpenCalls(dr, f, FALSE, 0, FALSE) \o <<Call("format", dr)>>)
  BY <1>1, <1>2, Joined
<1>5. Opening(IF createnew THEN <<Call("add", dr)>> \o OpenCalls(dr, f, FALSE, 0, FALSE)
                          \o <<Call("format", dr)>> ELSE <<>>)
  BY <1>4, <1>3
<1>6. Opening(IF dr = 0 THEN <<Second(f, ro, FALSE)>> ELSE <<>>)
  BY <1>3
<1>7. Opening(<<Call("unmount", dr)>> \o OpenCalls(dr, f, ro, 0, createnew))
  BY <1>1, <1>2, Joined
<1> QED BY <1>5, <1>6, <1>7, Joined DEF ChangeDiskImage

\* What becomes of drive 2 once the image is open: mounted, emptied or left.
LEMMA SecondOpening ==
  ASSUME NEW s, NEW c, c.file \in Files, c.readonly \in BOOLEAN
  PROVE Opening(OpenSecond(s, c))
<1>1. Opening(OpenCalls(1, c.file, c.readonly, 1, FALSE)) /\ Opening(Closing(1)) /\ Opening(<<>>)
  <2>1. FALSE \in BOOLEAN /\ 1 \in Int /\ 1 \in Drive
    BY DEF Drive
  <2> QED BY <2>1, OpenIsOpening, ClosingIsOpening, NoCall, Zenon
<1> QED BY <1>1 DEF OpenSecond

-----------------------------------------------------------------------------
(* Calls that open and close no image.                                     *)

\* t differs from s only in files, contents of disks and what counts them.
Untouched(s, t) ==
  /\ DiskShapes(t)
  /\ \A h \in Holder : /\ t.holder[h].ref = s.holder[h].ref
                       /\ t.holder[h].name = s.holder[h].name
                       /\ DOMAIN t.holder[h].disks = DOMAIN s.holder[h].disks
  /\ \A dr \in Drive : /\ t.drive[dr].holder = s.drive[dr].holder
                       /\ t.drive[dr].index = s.drive[dr].index
                       /\ t.drive[dr].fdu = s.drive[dr].fdu
  /\ t.todo = s.todo /\ t.name = s.name /\ t.asked = s.asked

\* Such a step keeps the agreement.
LEMMA UntouchedAgrees ==
  ASSUME NEW s, NEW t, Agree(s), Untouched(s, t)
  PROVE Agree(t)
<1>1. \A h \in Holder : HolderCounts(t, h)
  BY ZenonT(30) DEF Agree, Untouched, HolderCounts, Uses, Drive
<1>2. \A dr \in Drive : DriveHolds(t, dr)
  BY DEF Agree, Untouched, DriveHolds
<1>3. NoneTwice(t)
  BY DEF Agree, Untouched, NoneTwice, Drive, Holder
<1> QED BY <1>1, <1>2, <1>3 DEF Agree, Untouched

\* Untouched is transitive,
LEMMA UntouchedTwice ==
  ASSUME NEW s, NEW t, NEW u, Untouched(s, t), Untouched(t, u)
  PROVE Untouched(s, u)
BY DEF Untouched

\* and reflexive.
LEMMA ItselfUntouched == ASSUME NEW s, DiskShapes(s) PROVE Untouched(s, s)
BY DEF Untouched

\* SetDiskSize moves the disks behind the one that grows, and opens or closes none.
LEMMA SizeUntouched ==
  ASSUME NEW s, DiskShapes(s), NEW h \in Holder, NEW index, NEW newsize
  PROVE Untouched(s, SetDiskSize(s, h, index, newsize))
<1>1. DOMAIN Shifted(s.holder[h], index, newsize) = DOMAIN s.holder[h].disks
  BY DEF Shifted
<1> DEFINE cells == Resized(s.file[s.holder[h].name], s.holder[h], index, newsize)
           disks == Shifted(s.holder[h], index, newsize)
           t == [s EXCEPT !.file[s.holder[h].name] = cells, !.holder[h].disks = disks]
<1>2. DOMAIN disks = DOMAIN s.holder[h].disks
  BY <1>1
<1>3. SetDiskSize(s, h, index, newsize) \in {s, t}
  BY DEF SetDiskSize
<1> HIDE DEF disks
<1> HIDE DEF cells
<1>4. Untouched(s, t)
  BY <1>2 DEF Untouched, DiskShapes, StateFields, HolderFields, DriveFields
<1> QED BY <1>3, <1>4, ItselfUntouched

\* WriteDiskImage writes to the file alone.
LEMMA ImageUntouched ==
  ASSUME NEW s, DiskShapes(s), NEW h, NEW index, NEW size, NEW data
  PROVE Untouched(s, WriteDiskImage(s, h, index, size, data))
<1> DEFINE cells == Overwritten(s.file[s.holder[h].name], s.holder[h].disks[index + 1].pos, Cells(size, data))
           t == [s EXCEPT !.file[s.holder[h].name] = cells]
<1>1. WriteDiskImage(s, h, index, size, data) = t
  BY DEF WriteDiskImage
<1> HIDE DEF cells
<1>2. Untouched(s, t)
  BY DEF Untouched, DiskShapes, StateFields, HolderFields, DriveFields
<1> QED BY <1>1, <1>2

\* So does writing back the disk of a drive that has one.
LEMMA BackUntouched ==
  ASSUME NEW s, DiskShapes(s), NEW dr, s.drive[dr].holder \in Holder
  PROVE Untouched(s, WrittenBack(s, dr))
<1> DEFINE d == s.drive[dr]
           t == SetDiskSize(s, d.holder, d.index, d.size)
           w == WriteDiskImage(t, d.holder, d.index, d.size, d.data)
           files == w.spoiled \union {InDrive(s, dr).file}
           x == [w EXCEPT !.spoiled = files]
<1>1. Untouched(s, t)
  BY SizeUntouched
<1>2. Untouched(t, w)
  <2>1. DiskShapes(t)
    BY <1>1 DEF Untouched
  <2> HIDE DEF t, d
  <2> QED BY <2>1, ImageUntouched
<1>3. WrittenBack(s, dr) \in {w, x}
  BY DEF WrittenBack
<1> HIDE DEF w, files
<1>4. Untouched(w, x)
  BY <1>2 DEF Untouched, DiskShapes, StateFields, HolderFields, DriveFields
<1> QED BY <1>1, <1>2, <1>3, <1>4, UntouchedTwice

\* Whatever happens when a disk is written back, failures included.
LEMMA OutcomeUntouched ==
  ASSUME NEW s, Agree(s), NEW dr \in Drive, NEW t \in Outcomes(s, dr)
  PROVE Untouched(s, t)
<1> DEFINE failed == [s EXCEPT !.lost = @ \union {InDrive(s, dr)}]
           size == s.holder[s.drive[dr].holder].disks[s.drive[dr].index + 1].size
           torn == [failed EXCEPT !.drive[dr].data = Garbled, !.drive[dr].size = size]
<1>0. DiskShapes(s)
  BY DEF Agree
<1>1. Untouched(s, failed)
  BY <1>0 DEF Untouched, DiskShapes, StateFields, HolderFields, DriveFields
<1>2. Untouched(failed, torn)
  <2> HIDE DEF failed, size
  <2> QED BY <1>1 DEF Untouched, DiskShapes, StateFields, HolderFields, DriveFields
<1>3. CASE ~ToWrite(s, dr)
  BY <1>3, <1>0, ItselfUntouched DEF Outcomes
<1>4. CASE ToWrite(s, dr)
  <2>1. t \in {failed, WrittenBack(s, dr), WrittenBack(torn, dr)}
    BY <1>4 DEF Outcomes
  <2>2. s.drive[dr].holder \in Holder
    BY <1>4 DEF ToWrite, Agree, DriveHolds
  <2>3. Untouched(s, torn)
    BY <1>1, <1>2, UntouchedTwice
  <2>4. DiskShapes(torn) /\ torn.drive[dr].holder \in Holder
    BY <2>2, <2>3 DEF Untouched
  <2> HIDE DEF failed, torn
  <2>5. Untouched(torn, WrittenBack(torn, dr))
    BY <2>4, BackUntouched
  <2>6. Untouched(s, WrittenBack(s, dr))
    BY <2>2, <1>0, BackUntouched
  <2> QED BY <2>1, <2>3, <2>5, <2>6, <1>1, UntouchedTwice
<1> QED BY <1>3, <1>4
-----------------------------------------------------------------------------
(* Unmount and Mount.                                                      *)

\* t differs from s in files, holders, drives and what counts them.
SameMenus(s, t) == t.todo = s.todo /\ t.name = s.name /\ t.asked = s.asked

\* In the middle of Mount: holder h has been connected for drive dr, whose disk is not in yet.
Pending(s, dr, h) ==
  /\ DiskShapes(s)
  /\ s.drive[dr].holder = 0
  /\ s.holder[h].ref = Uses(s, 0, h) + Uses(s, 1, h) + 1
  /\ s.holder[h].name \in Files
  /\ \A k \in Holder \ {h} : HolderCounts(s, k)
  /\ \A d \in Drive : DriveHolds(s, d)
  /\ NoneTwice(s)

\* What Disconnect makes of a holder: closed by the last drive, else one user less.
LetGo(h, k) ==
  IF h.ref <= 1 THEN k.ref = 0 /\ k.name = ""
  ELSE k.ref = h.ref - 1 /\ k.name = h.name /\ k.disks = h.disks

\* DiskImageHolder::Disconnect and the rest of the state.
LEMMA DisconnectHolders ==
  ASSUME NEW s, DiskShapes(s), NEW h \in Holder
  PROVE LET t == Disconnect(s, h)
        IN /\ DiskShapes(t) /\ t.drive = s.drive /\ SameMenus(s, t)
           /\ LetGo(s.holder[h], t.holder[h])
           /\ \A k \in Holder \ {h} : t.holder[k] = s.holder[k]
<1>1. DOMAIN s.holder[h] = HolderFields
  BY DEF DiskShapes
<1>2. CASE s.holder[h].ref <= 1
  BY <1>2 DEF Disconnect, LetGo, SameMenus, DiskShapes, StateFields, HolderFields, DriveFields, Closed
<1>3. CASE ~(s.holder[h].ref <= 1)
  BY <1>3 DEF Disconnect, LetGo, SameMenus, DiskShapes, StateFields, HolderFields, DriveFields
<1> QED BY <1>2, <1>3

\* DiskImageHolder::Connect and the rest of the state.
LEMMA ConnectHolders ==
  ASSUME NEW s, DiskShapes(s), NEW h \in Holder
  PROVE LET t == Connect(s, h)
        IN /\ DiskShapes(t) /\ t.drive = s.drive /\ SameMenus(s, t)
           /\ t.holder[h] = [s.holder[h] EXCEPT !.ref = @ + 1]
           /\ \A k \in Holder \ {h} : t.holder[k] = s.holder[k]
BY DEF Connect, SameMenus, DiskShapes, StateFields, HolderFields, DriveFields

\* DiskImageHolder::Open and the rest of the state.
LEMMA OpenHolders ==
  ASSUME NEW s, DiskShapes(s), NEW h \in Holder, NEW f, NEW ro
  PROVE LET t == Open(s, h, f, ro)
        IN /\ DiskShapes(t) /\ t.drive = s.drive /\ SameMenus(s, t)
           /\ t.holder[h].name = f /\ t.holder[h].ref = 1
           /\ \A k \in Holder \ {h} : t.holder[k] = s.holder[k]
<1> DEFINE cells == IF s.file[f] = Absent THEN <<>> ELSE s.file[f]
           disks == HeadersFrom(cells)
           readonly == ro \/ f \in Locked
           t == [s EXCEPT !.file[f] = cells,
                   !.holder[h] = [name |-> f, ref |-> 1, readonly |-> readonly, disks |-> disks]]
<1>1. Open(s, h, f, ro) = t
  BY DEF Open
<1> HIDE DEF cells
<1> HIDE DEF disks
<1> HIDE DEF readonly
<1>2. /\ DiskShapes(t) /\ t.drive = s.drive /\ SameMenus(s, t)
      /\ t.holder[h].name = f /\ t.holder[h].ref = 1
      /\ \A k \in Holder \ {h} : t.holder[k] = s.holder[k]
  BY DEF SameMenus, DiskShapes, StateFields, HolderFields, DriveFields
<1> QED BY <1>1, <1>2

\* An assignment to a drive and the rest of the state.
LEMMA DriveSet ==
  ASSUME NEW s, DiskShapes(s), NEW dr \in Drive, NEW d, DOMAIN d = DriveFields
  PROVE LET t == [s EXCEPT !.drive[dr] = d]
        IN /\ DiskShapes(t) /\ t.holder = s.holder /\ SameMenus(s, t)
           /\ t.drive[dr] = d
           /\ \A e \in Drive \ {dr} : t.drive[e] = s.drive[e]
BY DEF SameMenus, DiskShapes, StateFields, HolderFields

\* Unmount, once the disk is written back: the drive lets its holder go.
LEMMA RemovedAgrees ==
  ASSUME NEW s, Agree(s), NEW dr \in Drive
  PROVE LET t == Removed(s, dr)
        IN Agree(t) /\ SameMenus(s, t) /\ t.drive[dr].holder = 0
<1> DEFINE h == s.drive[dr].holder
           u == IF h = 0 THEN s ELSE Disconnect(s, h)
           t == [u EXCEPT !.drive[dr] = EmptyDrive]
<1>0. DiskShapes(s) /\ DOMAIN EmptyDrive = DriveFields
  BY DEF Agree, EmptyDrive, DriveFields
<1>1. DiskShapes(u) /\ u.drive = s.drive /\ SameMenus(s, u)
  BY <1>0, DisconnectHolders DEF Agree, DriveHolds, SameMenus
<1>2. /\ DiskShapes(t) /\ t.holder = u.holder /\ SameMenus(s, t)
      /\ t.drive[dr] = EmptyDrive
      /\ \A e \in Drive \ {dr} : t.drive[e] = s.drive[e]
  <2> HIDE DEF u
  <2> QED BY <1>1, <1>0, DriveSet DEF SameMenus
<1>3. t = Removed(s, dr)
  BY DEF Removed
<1>4. \A k \in Holder : k # h => t.holder[k] = s.holder[k]
  <2>1. h \in Holder \union {0}
    BY DEF Agree, DriveHolds
  <2> QED BY <2>1, <1>0, <1>2, DisconnectHolders
<1>5. h \in Holder => LetGo(s.holder[h], t.holder[h])
  <2>1. h \in Holder => h # 0
    BY DEF Holder
  <2> QED BY <2>1, <1>0, <1>2, DisconnectHolders
<1>6. t.drive[dr].holder = 0 /\ ~t.drive[dr].fdu /\ t.drive[dr].index = -1
  BY <1>2 DEF EmptyDrive
<1> HIDE DEF t, u
<1>7. \A k \in Holder : HolderCounts(t, k)
  <2> SUFFICES ASSUME NEW k \in Holder PROVE HolderCounts(t, k)
    OBVIOUS
  <2>1. CASE k # h
    <3>1. t.holder[k] = s.holder[k] /\ Uses(t, 0, k) = Uses(s, 0, k) /\ Uses(t, 1, k) = Uses(s, 1, k)
      BY <2>1, <1>2, <1>4, <1>6 DEF Uses, Drive, Holder
    <3> QED BY <3>1 DEF HolderCounts, Agree
  <2>2. CASE k = h
    <3>1. Uses(s, 0, k) + Uses(s, 1, k) = Uses(t, 0, k) + Uses(t, 1, k) + 1
      <4>1. \A e \in Drive \ {dr} : Uses(t, e, k) = Uses(s, e, k)
        BY <1>2 DEF Uses
      <4>2. Uses(t, dr, k) = 0 /\ Uses(s, dr, k) = 1
        BY <2>2, <1>6 DEF Uses, Holder
      <4> QED BY <4>1, <4>2, UsesRange DEF Drive
    <3>2. s.holder[k].ref = Uses(s, 0, k) + Uses(s, 1, k) /\ s.holder[k].ref # 0
          /\ s.holder[k].name \in Files
      <4>1. HolderCounts(s, k) /\ Uses(s, 0, k) \in {0, 1} /\ Uses(s, 1, k) \in {0, 1}
            /\ Uses(t, 0, k) \in {0, 1} /\ Uses(t, 1, k) \in {0, 1}
        BY UsesRange DEF Agree
      <4>2. Uses(s, 0, k) + Uses(s, 1, k) # 0
        BY <3>1, <4>1
      <4> QED BY <4>1, <4>2 DEF HolderCounts
    <3>3. LetGo(s.holder[k], t.holder[k])
      BY <1>5, <2>2
    <3>4. /\ Uses(s, 0, k) \in {0, 1} /\ Uses(s, 1, k) \in {0, 1}
          /\ Uses(t, 0, k) \in {0, 1} /\ Uses(t, 1, k) \in {0, 1}
      BY UsesRange
    <3>5. CASE s.holder[k].ref <= 1
      <4>1. Uses(t, 0, k) + Uses(t, 1, k) = 0
        BY <3>1, <3>2, <3>4, <3>5
      <4> QED BY <3>3, <3>5, <4>1 DEF HolderCounts, LetGo
    <3>6. CASE ~(s.holder[k].ref <= 1)
      <4>1. /\ Uses(t, 0, k) + Uses(t, 1, k) = s.holder[k].ref - 1
            /\ s.holder[k].ref - 1 # 0
        BY <3>1, <3>2, <3>4, <3>6
      <4> QED BY <3>2, <3>3, <3>6, <4>1 DEF HolderCounts, LetGo
    <3> QED BY <3>5, <3>6
  <2> QED BY <2>1, <2>2
<1>8. \A d \in Drive : DriveHolds(t, d)
  <2> SUFFICES ASSUME NEW d \in Drive PROVE DriveHolds(t, d)
    OBVIOUS
  <2>1. CASE d = dr
    BY <2>1, <1>6 DEF DriveHolds
  <2>2. CASE d # dr
    <3>1. t.drive[d] = s.drive[d] /\ DriveHolds(s, d)
      BY <2>2, <1>2 DEF Agree
    <3>2. CASE s.drive[d].holder # h \/ s.drive[d].holder = 0
      BY <3>1, <3>2, <1>4 DEF DriveHolds
    <3>3. CASE s.drive[d].holder = h /\ h # 0
      <4>1. h \in Holder
        BY <3>1, <3>3 DEF DriveHolds
      <4>2. Uses(s, 0, h) + Uses(s, 1, h) = 2
        BY <2>2, <3>3 DEF Uses, Drive
      <4>3. s.holder[h].ref = 2
        BY <4>1, <4>2, <1>0 DEF Agree, HolderCounts, DiskShapes
      <4>4. t.holder[h].disks = s.holder[h].disks
        BY <4>1, <4>3, <1>5 DEF LetGo
      <4> QED BY <3>1, <3>3, <4>4 DEF DriveHolds
    <3> QED BY <3>2, <3>3
  <2> QED BY <2>1, <2>2
<1>9. NoneTwice(t)
  <2>1. \A k \in Holder : t.holder[k].name \in {s.holder[k].name, ""}
    <3> SUFFICES ASSUME NEW k \in Holder PROVE t.holder[k].name \in {s.holder[k].name, ""}
      OBVIOUS
    <3> QED BY <1>4, <1>5 DEF LetGo
  <2>2. \A k \in Holder : t.holder[k].name \in Files \/ t.holder[k].name = ""
    BY <1>7 DEF HolderCounts
  <2>3. t.holder[1].name = t.holder[2].name => t.holder[1].name = ""
    BY <2>1, <2>2 DEF Agree, NoneTwice, Holder
  <2>4. ~(t.drive[0].fdu /\ t.drive[1].fdu)
    BY <1>6 DEF Drive
  <2> QED BY <2>3, <2>4 DEF NoneTwice
<1> QED BY <1>2, <1>3, <1>6, <1>7, <1>8, <1>9 DEF Agree

\* The second half of Mount: from a connected holder to a disk in the drive, an empty
\* drive that keeps the holder, or a failure that lets the holder go.
LEMMA InsertAgrees ==
  ASSUME NEW s, NEW dr \in Drive, NEW h \in Holder, NEW index \in Int, NEW passes, Pending(s, dr, h),
         s.drive[1 - dr].fdu /\ s.drive[1 - dr].holder = h => index # s.drive[1 - dr].index
  PROVE LET i == Insert(s, dr, h, index, passes)
        IN Agree(i.s) /\ SameMenus(s, i.s) /\ i.ok \in BOOLEAN
<1> DEFINE disks == s.holder[h].disks
           bare == [s EXCEPT !.drive[dr] = [EmptyDrive EXCEPT !.holder = h]]
           d == [holder |-> h, index |-> index, size |-> disks[index + 1].size,
                 data |-> ReadDiskImage(s, h, index).data, readonly |-> s.holder[h].readonly,
                 modified |-> FALSE, fdu |-> TRUE]
           full == [s EXCEPT !.drive[dr] = d]
           i == Insert(s, dr, h, index, passes)
<1>0. DiskShapes(s)
  BY DEF Pending
<1>1. ASSUME NEW e, DOMAIN e = DriveFields, e.holder = h, e.index \in Int,
             e.fdu => e.index = index /\ index >= 0 /\ index + 1 \in DOMAIN disks
      PROVE Agree([s EXCEPT !.drive[dr] = e]) /\ SameMenus(s, [s EXCEPT !.drive[dr] = e])
  <2> DEFINE t == [s EXCEPT !.drive[dr] = e]
  <2>1. /\ DiskShapes(t) /\ t.holder = s.holder /\ SameMenus(s, t) /\ t.drive[dr] = e
        /\ \A x \in Drive \ {dr} : t.drive[x] = s.drive[x]
    BY <1>0, <1>1, DriveSet
  <2> HIDE DEF t
  <2>2. \A k \in Holder : HolderCounts(t, k)
    <3> SUFFICES ASSUME NEW k \in Holder PROVE HolderCounts(t, k)
      OBVIOUS
    <3>1. CASE k = h
      <4>1. Uses(t, 0, k) + Uses(t, 1, k) = Uses(s, 0, k) + Uses(s, 1, k) + 1
            /\ Uses(t, 0, k) + Uses(t, 1, k) # 0
        BY <2>1, <3>1, <1>1 DEF Uses, Drive, Holder, Pending
      <4> QED BY <4>1, <2>1, <3>1 DEF HolderCounts, Pending
    <3>2. CASE k # h
      <4>1. Uses(t, 0, k) = Uses(s, 0, k) /\ Uses(t, 1, k) = Uses(s, 1, k)
        BY <2>1, <3>2, <1>1 DEF Uses, Drive, Holder, Pending
      <4> QED BY <4>1, <2>1, <3>2 DEF HolderCounts, Pending
    <3> QED BY <3>1, <3>2
  <2>3. \A x \in Drive : DriveHolds(t, x)
    <3> SUFFICES ASSUME NEW x \in Drive PROVE DriveHolds(t, x)
      OBVIOUS
    <3>1. CASE x = dr
      BY <3>1, <2>1, <1>1 DEF DriveHolds, Holder
    <3>2. CASE x # dr
      BY <3>2, <2>1 DEF DriveHolds, Pending
    <3> QED BY <3>1, <3>2
  <2>4. NoneTwice(t)
    <3>1. t.holder[1].name = t.holder[2].name => t.holder[1].name = ""
      BY <2>1 DEF NoneTwice, Pending
    <3>2. \A x \in Drive \ {dr} :
            t.drive[dr].fdu /\ t.drive[x].fdu /\ t.drive[dr].holder = t.drive[x].holder
              => t.drive[dr].index # t.drive[x].index
      <4> SUFFICES ASSUME NEW x \in Drive \ {dr}, t.drive[dr].fdu, t.drive[x].fdu,
                          t.drive[dr].holder = t.drive[x].holder
                  PROVE t.drive[dr].index # t.drive[x].index
        OBVIOUS
      <4>1. x = 1 - dr
        BY DEF Drive
      <4>2. t.drive[x] = s.drive[1 - dr]
        BY <4>1, <2>1
      <4> QED BY <4>2, <2>1, <1>1
    <3>3. CASE dr = 0
      <4>1. dr = 0 /\ 1 \in Drive \ {dr}
        BY <3>3 DEF Drive
      <4>2. t.drive[0].fdu /\ t.drive[1].fdu /\ t.drive[0].holder = t.drive[1].holder
              => t.drive[0].index # t.drive[1].index
        BY <3>2, <4>1
      <4> QED BY <4>2, <3>1 DEF NoneTwice
    <3>4. CASE dr = 1
      <4>1. dr = 1 /\ 0 \in Drive \ {dr}
        BY <3>4 DEF Drive
      <4>2. t.drive[1].fdu /\ t.drive[0].fdu /\ t.drive[1].holder = t.drive[0].holder
              => t.drive[1].index # t.drive[0].index
        BY <3>2, <4>1
      <4> QED BY <4>2, <3>1 DEF NoneTwice
    <3> QED BY <3>3, <3>4 DEF Drive
  <2> QED BY <2>1, <2>2, <2>3, <2>4 DEF Agree, t
<1>2. Agree(bare) /\ SameMenus(s, bare)
  <2> DEFINE e == [EmptyDrive EXCEPT !.holder = h]
  <2>1. DOMAIN e = DriveFields /\ e.holder = h /\ e.index \in Int /\ ~e.fdu
    BY DEF EmptyDrive, DriveFields
  <2> HIDE DEF e
  <2>2. Agree([s EXCEPT !.drive[dr] = e]) /\ SameMenus(s, [s EXCEPT !.drive[dr] = e])
    BY <2>1, <1>1
  <2> QED BY <2>2 DEF e
<1>3. ASSUME index >= 0, index + 1 \in DOMAIN disks PROVE Agree(full) /\ SameMenus(s, full)
  <2>1. DOMAIN d = DriveFields /\ d.holder = h /\ d.index = index
    BY DEF DriveFields
  <2> HIDE DEF d
  <2> QED BY <2>1, <1>1, <1>3
<1>4. Agree(Disconnect(s, h)) /\ SameMenus(s, Disconnect(s, h))
  <2> DEFINE t == Disconnect(s, h)
  <2>1. /\ DiskShapes(t) /\ t.drive = s.drive /\ SameMenus(s, t)
        /\ LetGo(s.holder[h], t.holder[h])
        /\ \A k \in Holder \ {h} : t.holder[k] = s.holder[k]
    BY <1>0, DisconnectHolders
  <2> HIDE DEF t
  <2>3. \A k \in Holder : Uses(t, 0, k) = Uses(s, 0, k) /\ Uses(t, 1, k) = Uses(s, 1, k)
                          /\ Uses(s, 0, k) \in {0, 1} /\ Uses(s, 1, k) \in {0, 1}
    BY <2>1 DEF Uses
  <2>4. \A k \in Holder : HolderCounts(t, k)
    <3>1. HolderCounts(t, h)
      <4>1. s.holder[h].ref = Uses(s, 0, h) + Uses(s, 1, h) + 1 /\ s.holder[h].name \in Files
        BY DEF Pending
      <4>2. Uses(s, 0, h) \in {0, 1} /\ Uses(s, 1, h) \in {0, 1}
        BY UsesRange
      <4>3. CASE s.holder[h].ref <= 1
        <5>1. Uses(s, 0, h) + Uses(s, 1, h) = 0
          BY <4>1, <4>2, <4>3
        <5> QED BY <5>1, <4>3, <2>1, <2>3 DEF HolderCounts, LetGo
      <4>4. CASE ~(s.holder[h].ref <= 1)
        <5>1. s.holder[h].ref - 1 = Uses(s, 0, h) + Uses(s, 1, h) /\ s.holder[h].ref - 1 # 0
          BY <4>1, <4>2, <4>4
        <5> QED BY <5>1, <4>1, <4>4, <2>1, <2>3 DEF HolderCounts, LetGo
      <4> QED BY <4>3, <4>4
    <3>2. \A k \in Holder \ {h} : HolderCounts(t, k)
      BY <2>1, <2>3 DEF HolderCounts, Pending
    <3> QED BY <3>1, <3>2
  <2>5. \A x \in Drive : DriveHolds(t, x)
    <3> SUFFICES ASSUME NEW x \in Drive PROVE DriveHolds(t, x)
      OBVIOUS
    <3>1. CASE s.drive[x].holder # h
      BY <3>1, <2>1 DEF DriveHolds, Pending
    <3>2. CASE s.drive[x].holder = h
      <4>1. ~(s.holder[h].ref <= 1)
        BY <3>2, <2>3 DEF Uses, Pending, Drive
      <4>2. t.holder[h].disks = s.holder[h].disks
        BY <4>1, <2>1 DEF LetGo
      <4> QED BY <3>2, <4>2, <2>1 DEF DriveHolds, Pending
    <3> QED BY <3>1, <3>2
  <2>6. NoneTwice(t)
    <3>1. \A k \in Holder : t.holder[k].name \in {s.holder[k].name, ""}
      BY <2>1 DEF LetGo
    <3>2. t.holder[1].name = t.holder[2].name => t.holder[1].name = ""
      BY <3>1 DEF Pending, NoneTwice, Holder
    <3> QED BY <3>2, <2>1 DEF Pending, NoneTwice
  <2> QED BY <2>1, <2>4, <2>5, <2>6 DEF Agree, t
<1>5. \/ i = [ok |-> TRUE, s |-> bare]
      \/ i = [ok |-> FALSE, s |-> Disconnect(s, h)]
      \/ index >= 0 /\ index + 1 \in DOMAIN disks /\ i = [ok |-> TRUE, s |-> full]
  BY DEF Insert
<1> HIDE DEF bare, full
<1> HIDE DEF i
<1>6. i.ok \in BOOLEAN /\ Agree(i.s) /\ SameMenus(s, i.s)
  <2>1. CASE i = [ok |-> TRUE, s |-> bare]
    BY <2>1, <1>2
  <2>2. CASE i = [ok |-> FALSE, s |-> Disconnect(s, h)]
    BY <2>2, <1>4
  <2>3. CASE index >= 0 /\ index + 1 \in DOMAIN disks /\ i = [ok |-> TRUE, s |-> full]
    BY <2>3, <1>3
  <2> QED BY <2>1, <2>2, <2>3, <1>5
<1> QED BY <1>6 DEF i

\* The first free holder is one.
LEMMA LeastHolder ==
  ASSUME NEW S \in SUBSET Holder, S # {}
  PROVE (CHOOSE x \in S : \A y \in S : x <= y) \in S
<1>1. \E x \in S : \A y \in S : x <= y
  <2>1. CASE 1 \in S
    BY <2>1 DEF Holder
  <2>2. CASE 1 \notin S
    <3>1. S = {2}
      BY <2>2 DEF Holder
    <3> QED BY <3>1
  <2> QED BY <2>1, <2>2
<1> QED BY <1>1

\* All of Mount for a drive without a holder, whether the file is open already or not.
LEMMA MountAgrees ==
  ASSUME NEW s, Agree(s), NEW dr \in Drive, s.drive[dr].holder = 0, NEW f \in Files,
         NEW ro, NEW index \in Int, NEW create, NEW passes
  PROVE LET m == MountFrom(s, dr, f, ro, index, create, passes)
        IN Agree(m.s) /\ SameMenus(s, m.s) /\ m.ok \in BOOLEAN
<1> DEFINE held == {h \in Holder : s.holder[h].name = f}
           free == {h \in Holder : ~IsOpen(s.holder[h])}
           h == CHOOSE x \in free : \A y \in free : x <= y
           k == CHOOSE x \in held : TRUE
           m == MountFrom(s, dr, f, ro, index, create, passes)
<1>0. DiskShapes(s) /\ f # ""
  BY DisksAssumption DEF Agree
<1>1. CASE held # {}
  <2> DEFINE t == Connect(s, k)
             n == IF UsedBy(t, 1 - dr, k, index) THEN -1 ELSE index
  <2>1. m = Insert(t, dr, k, IF UsedBy(s, 1 - dr, k, index) THEN -1 ELSE index, passes)
    BY <1>1 DEF MountFrom
  <2>2. k \in Holder /\ s.holder[k].name = f
    BY <1>1
  <2> HIDE DEF k
  <2>3. /\ DiskShapes(t) /\ t.drive = s.drive /\ SameMenus(s, t)
        /\ t.holder[k] = [s.holder[k] EXCEPT !.ref = @ + 1]
        /\ \A j \in Holder \ {k} : t.holder[j] = s.holder[j]
    BY <2>2, <1>0, ConnectHolders
  <2>4. DOMAIN s.holder[k] = HolderFields
    BY <2>2, <1>0 DEF DiskShapes
  <2>5. /\ t.holder[k].ref = s.holder[k].ref + 1 /\ t.holder[k].name = f
        /\ t.holder[k].disks = s.holder[k].disks
    BY <2>2, <2>3, <2>4 DEF HolderFields
  <2> HIDE DEF t, m
  <2>6. \A x \in Drive : \A j \in Holder : Uses(t, x, j) = Uses(s, x, j)
    BY <2>3 DEF Uses
  <2>7. Pending(t, dr, k)
    <3>1. t.holder[k].ref = Uses(t, 0, k) + Uses(t, 1, k) + 1
      BY <2>2, <2>5, <2>6 DEF Agree, HolderCounts, Drive
    <3>2. \A j \in Holder \ {k} : HolderCounts(t, j)
      BY <2>3, <2>6 DEF Agree, HolderCounts, Drive
    <3>3. \A x \in Drive : DriveHolds(t, x)
      <4> SUFFICES ASSUME NEW x \in Drive PROVE DriveHolds(t, x)
        OBVIOUS
      <4>1. DriveHolds(s, x)
        BY DEF Agree
      <4>2. \A j \in Holder : t.holder[j].disks = s.holder[j].disks
        BY <2>3, <2>5
      <4> QED BY <4>1, <4>2, <2>3 DEF DriveHolds
    <3>4. NoneTwice(t)
      <4>1. \A j \in Holder : t.holder[j].name = s.holder[j].name
        BY <2>2, <2>3, <2>5
      <4>2. t.holder[1].name = s.holder[1].name /\ t.holder[2].name = s.holder[2].name
        BY <4>1 DEF Holder
      <4>3. NoneTwice(s)
        BY DEF Agree
      <4> QED BY <4>2, <4>3, <2>3 DEF NoneTwice
    <3> QED BY <3>1, <3>2, <3>3, <3>4, <2>3, <2>5 DEF Pending
  <2>8. 1 - dr \in Drive
    BY DEF Drive
  <2>9. n \in Int /\ (t.drive[1 - dr].fdu /\ t.drive[1 - dr].holder = k => n # t.drive[1 - dr].index)
    <3>1. DriveHolds(t, 1 - dr)
      BY <2>7, <2>8 DEF Pending
    <3> QED BY <3>1 DEF DriveHolds, UsedBy
  <2>10. m = Insert(t, dr, k, n, passes)
    BY <2>1, <2>3 DEF UsedBy
  <2> HIDE DEF n
  <2>11. Agree(m.s) /\ SameMenus(t, m.s) /\ m.ok \in BOOLEAN
    BY <2>2, <2>7, <2>9, <2>10, InsertAgrees
  <2> QED BY <2>11, <2>3 DEF SameMenus, m
<1>2. CASE held = {} /\ (free = {} \/ ~Opens(s, h, f, ro, create))
  <2>1. m = [ok |-> FALSE, s |-> s]
    BY <1>2 DEF MountFrom
  <2> HIDE DEF m
  <2>2. Agree(m.s) /\ SameMenus(s, m.s) /\ m.ok \in BOOLEAN
    BY <2>1 DEF SameMenus
  <2> QED BY <2>2 DEF m
<1>3. CASE held = {} /\ free # {} /\ Opens(s, h, f, ro, create)
  <2> DEFINE t == Open(s, h, f, ro)
  <2>1. m = Insert(t, dr, h, index, passes)
    BY <1>3 DEF MountFrom
  <2>2. h \in Holder /\ ~(s.holder[h].ref > 0) /\ \A j \in Holder : s.holder[j].name # f
    BY <1>3, LeastHolder DEF IsOpen
  <2> HIDE DEF h
  <2>3. /\ DiskShapes(t) /\ t.drive = s.drive /\ SameMenus(s, t)
        /\ t.holder[h].name = f /\ t.holder[h].ref = 1
        /\ \A j \in Holder \ {h} : t.holder[j] = s.holder[j]
    <3>1. h \in Holder /\ DiskShapes(s)
      BY <2>2, <1>0
    <3> HIDE DEF h, t
    <3> QED BY <3>1, OpenHolders DEF t
  <2> HIDE DEF t, m
  <2>4. \A x \in Drive : \A j \in Holder : Uses(t, x, j) = Uses(s, x, j)
    BY <2>3 DEF Uses
  <2>5. Uses(s, 0, h) = 0 /\ Uses(s, 1, h) = 0
    <3>1. /\ s.holder[h].ref = Uses(s, 0, h) + Uses(s, 1, h)
          /\ Uses(s, 0, h) \in {0, 1} /\ Uses(s, 1, h) \in {0, 1}
      BY <2>2, UsesRange DEF Agree, HolderCounts
    <3> QED BY <3>1, <2>2
  <2>6. \A x \in Drive : t.drive[x].holder # h
    BY <2>3, <2>5 DEF Uses, Drive
  <2>7. Pending(t, dr, h)
    <3>1. t.holder[h].ref = Uses(t, 0, h) + Uses(t, 1, h) + 1
      BY <2>2, <2>3, <2>4, <2>5 DEF Drive
    <3>2. \A j \in Holder \ {h} : HolderCounts(t, j)
      BY <2>3, <2>4 DEF Agree, HolderCounts, Drive
    <3>3. \A x \in Drive : DriveHolds(t, x)
      BY <2>3, <2>6 DEF DriveHolds, Agree
    <3>4. NoneTwice(t)
      <4>1. t.holder[1].name # t.holder[2].name
        BY <2>2, <2>3 DEF Holder
      <4>2. NoneTwice(s)
        BY DEF Agree
      <4> QED BY <4>1, <4>2, <2>3 DEF NoneTwice
    <3> QED BY <3>1, <3>2, <3>3, <3>4, <2>3 DEF Pending
  <2>8. t.drive[1 - dr].holder # h
    BY <2>6 DEF Drive
  <2>9. Agree(m.s) /\ SameMenus(t, m.s) /\ m.ok \in BOOLEAN
    BY <2>1, <2>2, <2>7, <2>8, InsertAgrees
  <2> QED BY <2>9, <2>3 DEF SameMenus, m
<1> QED BY <1>1, <1>2, <1>3

\* FormatDisk changes a disk, not where it is.
LEMMA FormatUntouched ==
  ASSUME NEW s, DiskShapes(s), NEW dr \in Drive
  PROVE Untouched(s, FormatDisk(s, dr))
<1> DEFINE disk == InDrive(s, dr)
           lost == IF dr = 0 \/ s.drive[dr].modified THEN s.lost ELSE s.lost \union {disk}
           t == [s EXCEPT !.drive[dr].data = Formatted, !.drive[dr].size = 2,
                   !.drive[0].modified = TRUE, !.newest[disk.file][disk.index] = Formatted,
                   !.lost = lost]
<1>1. FormatDisk(s, dr) \in {s, t}
  BY DEF FormatDisk, DiskShapes, StateFields
<1> HIDE DEF disk
<1> HIDE DEF lost
<1>2. Untouched(s, t)
  BY DEF Untouched, DiskShapes, StateFields, HolderFields, DriveFields, Drive
<1> QED BY <1>1, <1>2, ItselfUntouched

\* AddDisk adds a disk to an empty image, in which no drive has one.
LEMMA AddAgrees ==
  ASSUME NEW s, Agree(s), NEW h \in Holder, s.holder[h].disks = <<>>
  PROVE LET t == AddDisk(s, h)
        IN Agree(t) /\ SameMenus(s, t) /\ t.drive = s.drive
<1> DEFINE pos == IF s.holder[h].disks = <<>> THEN 0
                  ELSE Last(s.holder[h].disks).pos + Last(s.holder[h].disks).size
           disks == Append(s.holder[h].disks, [pos |-> pos, size |-> 1])
           f == s.holder[h].name
           cells == Overwritten(s.file[f], pos, Cells(1, Formatted))
           t == [s EXCEPT !.holder[h].disks = disks, !.file[f] = cells]
<1>0. DiskShapes(s)
  BY DEF Agree
<1>1. AddDisk(s, h) = t
  BY <1>0 DEF AddDisk, DiskShapes, StateFields, HolderFields
<1> HIDE DEF disks
<1> HIDE DEF cells
<1> HIDE DEF f
<1>2. /\ DiskShapes(t) /\ t.drive = s.drive /\ SameMenus(s, t)
      /\ \A k \in Holder : t.holder[k].ref = s.holder[k].ref /\ t.holder[k].name = s.holder[k].name
      /\ \A k \in Holder \ {h} : t.holder[k] = s.holder[k]
  BY <1>0 DEF DiskShapes, SameMenus, StateFields, HolderFields, DriveFields
<1> HIDE DEF t
<1>3. \A k \in Holder : HolderCounts(t, k)
  BY <1>2 DEF Agree, HolderCounts, Uses
<1>4. \A dr \in Drive : DriveHolds(t, dr)
  <2> SUFFICES ASSUME NEW dr \in Drive PROVE DriveHolds(t, dr)
    OBVIOUS
  <2>1. DriveHolds(s, dr) /\ t.drive[dr] = s.drive[dr]
    BY <1>2 DEF Agree
  <2>2. DOMAIN s.holder[h].disks = {}
    OBVIOUS
  <2>3. s.drive[dr].fdu => s.drive[dr].holder # h
    BY <2>1, <2>2 DEF DriveHolds
  <2> QED BY <2>1, <2>3, <1>2 DEF DriveHolds
<1>5. NoneTwice(t)
  BY <1>2 DEF Agree, NoneTwice, Holder
<1> QED BY <1>1, <1>2, <1>3, <1>4, <1>5 DEF Agree

-----------------------------------------------------------------------------
(* Steps of the disk manager.                                              *)

\* Nothing is open at first.
LEMMA DisksBegin == DisksInit => DisksInv
<1> SUFFICES ASSUME DisksInit PROVE DisksInv
  OBVIOUS
<1> DEFINE newest == [f \in Files |-> [i \in Indices |->
     IF Images[f] # Absent /\ i < Len(HeadersFrom(Images[f]))
     THEN Images[f][HeadersFrom(Images[f])[i + 1].pos + 1].data ELSE Formatted]]
<1>1. dm = [file |-> Images, holder |-> [h \in Holder |-> Closed],
            drive |-> [dr \in Drive |-> EmptyDrive],
            name |-> [dr \in Drive |-> ""], asked |-> [dr \in Drive |-> FALSE],
            todo |-> <<>>, changes |-> 0, lost |-> {}, spoiled |-> {}, newest |-> newest]
  BY DEF DisksInit
<1> HIDE DEF newest
<1>2. DiskShapes(dm)
  BY <1>1 DEF DiskShapes, StateFields, HolderFields, DriveFields, Closed, EmptyDrive
<1>3. /\ \A h \in Holder : dm.holder[h] = Closed
      /\ \A dr \in Drive : dm.drive[dr] = EmptyDrive
      /\ dm.todo = <<>>
  BY <1>1
<1>8. /\ Closed.ref = 0 /\ Closed.name = ""
      /\ ~EmptyDrive.fdu /\ EmptyDrive.holder = 0
  BY DEF Closed, EmptyDrive
<1>4. \A h \in Holder : HolderCounts(dm, h)
  <2>1. \A dr \in Drive, h \in Holder : Uses(dm, dr, h) = 0
    <3> SUFFICES ASSUME NEW dr \in Drive, NEW h \in Holder PROVE Uses(dm, dr, h) = 0
      OBVIOUS
    <3>1. dm.drive[dr].holder = 0
      BY <1>3, <1>8
    <3>2. h # 0
      BY DEF Holder
    <3> QED BY <3>1, <3>2 DEF Uses
  <2>2. \A h \in Holder : Uses(dm, 0, h) = 0 /\ Uses(dm, 1, h) = 0
    BY <2>1 DEF Drive
  <2> SUFFICES ASSUME NEW h \in Holder PROVE HolderCounts(dm, h)
    OBVIOUS
  <2>3. dm.holder[h].ref = 0 /\ dm.holder[h].name = ""
    BY <1>3, <1>8
  <2>4. Uses(dm, 0, h) + Uses(dm, 1, h) = 0
    BY <2>2
  <2> QED BY <2>3, <2>4 DEF HolderCounts
<1>5. \A dr \in Drive : DriveHolds(dm, dr)
  BY <1>3 DEF DriveHolds, EmptyDrive
<1>6. NoneTwice(dm)
  <2>1. 1 \in Holder /\ 0 \in Drive
    BY DEF Holder, Drive
  <2> QED BY <2>1, <1>3, <1>8 DEF NoneTwice
<1>7. MenusTyped(dm)
  BY <1>1 DEF MenusTyped, Named
<1> QED BY <1>2, <1>3, <1>4, <1>5, <1>6, <1>7, NoCall DEF DisksInv, Agree, Emptied, Opening

\* A command of the user only leaves its calls to be made.
LEMMA CommandKeeps ==
  ASSUME DisksInv, NEW calls, Opening(calls), Commanded(calls)
  PROVE DisksInv'
<1>1. DiskShapes(dm)
  BY DEF DisksInv, Agree
<1>2. /\ dm'.todo = calls /\ dm'.holder = dm.holder /\ dm'.drive = dm.drive
      /\ dm'.name = dm.name /\ dm'.asked = dm.asked /\ DiskShapes(dm')
  BY <1>1 DEF Commanded, DiskShapes, StateFields
<1>3. Agree(dm')
  BY <1>2 DEF DisksInv, Agree, HolderCounts, Uses, DriveHolds, NoneTwice
<1>4. MenusTyped(dm')
  BY <1>2 DEF DisksInv, MenusTyped
<1>5. Emptied(dm') /\ IsCalls(dm'.todo)
  BY <1>2 DEF Emptied, Opening, IsCalls
<1> QED BY <1>3, <1>4, <1>5 DEF DisksInv

\* A call that keeps the agreement is taken off; if it was an unmount, its drive is empty.
LEMMA DoneKeeps ==
  ASSUME DisksInv, dm.todo # <<>>, NEW s, Agree(s), MenusTyped(s), s.todo = dm.todo,
         Head(dm.todo).op = "unmount" => s.drive[Head(dm.todo).dr].holder = 0,
         dm' = Done(s)
  PROVE DisksInv'
<1>1. DiskShapes(s)
  BY DEF Agree
<1>2. /\ dm'.todo = Tail(dm.todo) /\ dm'.holder = s.holder /\ dm'.drive = s.drive
      /\ dm'.name = s.name /\ dm'.asked = s.asked /\ DiskShapes(dm')
  BY <1>1 DEF Done, DiskShapes, StateFields
<1>3. Agree(dm')
  BY <1>2 DEF Agree, HolderCounts, Uses, DriveHolds, NoneTwice
<1>4. MenusTyped(dm')
  BY <1>2 DEF MenusTyped
<1>5. dm.todo \in Seq(Calls) /\ Chained(dm.todo)
  BY DEF DisksInv, IsCalls
<1>6. /\ Tail(dm.todo) \in Seq(Calls) /\ Len(Tail(dm.todo)) = Len(dm.todo) - 1
      /\ \A i \in 1..Len(dm.todo) - 1 : Tail(dm.todo)[i] = dm.todo[i + 1]
  BY <1>5
<1>7. Len(dm.todo) \in Nat /\ Len(dm.todo) >= 1 /\ Head(dm.todo) = dm.todo[1]
  BY <1>5
<1>8. Chained(Tail(dm.todo))
  BY <1>5, <1>6, <1>7 DEF Chained
<1>9. Emptied(dm')
  <2> SUFFICES ASSUME Tail(dm.todo) # <<>>, Head(Tail(dm.todo)).op = "mount"
              PROVE s.drive[Head(Tail(dm.todo)).dr].holder = 0
    BY <1>2 DEF Emptied
  <2>1. Head(Tail(dm.todo)) = dm.todo[2] /\ 1 \in 1..Len(dm.todo) - 1
    BY <1>6, <1>7
  <2>2. dm.todo[1].op = "unmount" /\ dm.todo[1].dr = dm.todo[2].dr
    BY <2>1, <1>5 DEF Chained
  <2> QED BY <2>1, <2>2, <1>7
<1> QED BY <1>2, <1>3, <1>4, <1>6, <1>8, <1>9 DEF DisksInv, IsCalls

\* The call that is due is one of Calls.
LEMMA HeadIsCall ==
  ASSUME DisksInv, dm.todo # <<>>
  PROVE Head(dm.todo) \in Calls
BY DEF DisksInv, IsCalls

\* A call that opens and closes nothing.
LEMMA UntouchedDone ==
  ASSUME DisksInv, dm.todo # <<>>, NEW s, Untouched(dm, s), Head(dm.todo).op # "unmount",
         dm' = Done(s)
  PROVE DisksInv'
<1>1. Agree(s) /\ MenusTyped(s) /\ s.todo = dm.todo
  BY UntouchedAgrees DEF DisksInv, Untouched, MenusTyped
<1> QED BY <1>1, DoneKeeps

\* Every step keeps the invariant.
LEMMA DisksStep == DisksInv /\ [DisksNext]_dm => DisksInv'
<1> SUFFICES ASSUME DisksInv, [DisksNext]_dm PROVE DisksInv'
  OBVIOUS
<1> DEFINE c == Head(dm.todo)
<1>0. Agree(dm) /\ MenusTyped(dm) /\ DiskShapes(dm)
  BY DEF DisksInv, Agree
<1>1. CASE ChangeImage
  <2>1. PICK dr \in Drive, f \in Files, ro \in BOOLEAN :
          Commanded(ChangeDiskImage(dr, f, ro, dm.file[f] = Absent))
    BY <1>1 DEF ChangeImage
  <2>2. (dm.file[f] = Absent) \in BOOLEAN
    OBVIOUS
  <2>3. Opening(ChangeDiskImage(dr, f, ro, dm.file[f] = Absent))
    BY <2>2, ChangeIsOpening, Zenon
  <2> QED BY <2>1, <2>3, CommandKeeps, Zenon
<1>2. CASE Eject
  <2>1. PICK dr \in Drive : Commanded(Closing(dr))
    BY <1>2 DEF Eject
  <2> QED BY <2>1, ClosingIsOpening, CommandKeeps
<1>3. CASE BothDrives
  <2>1. PICK f \in Files : Commanded(Closing(1) \o ChangeDiskImage(0, f, FALSE, dm.file[f] = Absent))
    BY <1>3 DEF BothDrives
  <2>2. (dm.file[f] = Absent) \in BOOLEAN /\ FALSE \in BOOLEAN /\ 0 \in Drive /\ 1 \in Drive
    BY DEF Drive
  <2>3. Opening(ChangeDiskImage(0, f, FALSE, dm.file[f] = Absent)) /\ Opening(Closing(1))
    BY <2>2, ChangeIsOpening, ClosingIsOpening, Zenon
  <2>4. Opening(Closing(1) \o ChangeDiskImage(0, f, FALSE, dm.file[f] = Absent))
    BY <2>3, Joined, Zenon
  <2> QED BY <2>1, <2>4, CommandKeeps, Zenon
<1>4. CASE DropFile
  <2>1. PICK f \in Files : Commanded(OpenCalls(0, f, FALSE, 0, FALSE) \o <<Second(f, FALSE, TRUE)>>)
    BY <1>4 DEF DropFile
  <2>2. FALSE \in BOOLEAN /\ TRUE \in BOOLEAN /\ 0 \in Drive /\ 0 \in Int
    BY DEF Drive
  <2>3. Opening(OpenCalls(0, f, FALSE, 0, FALSE)) /\ Opening(<<Second(f, FALSE, TRUE)>>)
    BY <2>2, OpenIsOpening, SecondIsOne, Zenon
  <2>4. Opening(OpenCalls(0, f, FALSE, 0, FALSE) \o <<Second(f, FALSE, TRUE)>>)
    BY <2>3, Joined, Zenon
  <2> QED BY <2>1, <2>4, CommandKeeps, Zenon
<1>5. CASE SelectDisk
  <2>1. PICK dr \in Drive, index \in Indices \union {NoSuchDisk} :
          /\ dm.name[dr] # ""
          /\ Commanded(MountCalls(dr, dm.name[dr], dm.asked[dr], index, FALSE, FALSE))
    BY <1>5 DEF SelectDisk
  <2>2. dm.name[dr] \in Files /\ dm.asked[dr] \in BOOLEAN /\ index \in Int /\ FALSE \in BOOLEAN
    <3>1. dm.name[dr] \in Named /\ dm.asked[dr] \in BOOLEAN
      BY <1>0 DEF MenusTyped
    <3>2. dm.name[dr] \in Files
      BY <2>1, <3>1 DEF Named
    <3>3. index \in Int
      BY DEF Indices, NoSuchDisk
    <3> QED BY <3>1, <3>2, <3>3
  <2>3. Opening(MountCalls(dr, dm.name[dr], dm.asked[dr], index, FALSE, FALSE))
    BY <2>2, MountIsOpening, Zenon
  <2> QED BY <2>1, <2>3, CommandKeeps, Zenon
<1>6. CASE LoadSnapshotDisks
  <2>1. PICK pair \in SavedDisks :
          /\ dm.name[0] # ""
          /\ Commanded(OpenCalls(1, dm.name[0], dm.asked[0], 1, FALSE)
               \o MountCalls(0, dm.name[0], FALSE, pair[1], FALSE, FALSE)
               \o MountCalls(1, dm.name[0], FALSE, pair[2], FALSE, FALSE))
    BY <1>6 DEF LoadSnapshotDisks
  <2>2. /\ dm.name[0] \in Files /\ dm.asked[0] \in BOOLEAN /\ FALSE \in BOOLEAN
        /\ pair[1] \in Int /\ pair[2] \in Int /\ 1 \in Int /\ 0 \in Drive /\ 1 \in Drive
    <3>1. 0 \in Drive /\ 1 \in Drive
      BY DEF Drive
    <3>2. dm.name[0] \in Named /\ dm.asked[0] \in BOOLEAN
      BY <1>0, <3>1 DEF MenusTyped
    <3>3. dm.name[0] \in Files
      BY <2>1, <3>2 DEF Named
    <3>4. pair[1] \in Int /\ pair[2] \in Int
      BY DisksAssumption
    <3> QED BY <3>1, <3>2, <3>3, <3>4
  <2>3. /\ Opening(OpenCalls(1, dm.name[0], dm.asked[0], 1, FALSE))
        /\ Opening(MountCalls(0, dm.name[0], FALSE, pair[1], FALSE, FALSE))
        /\ Opening(MountCalls(1, dm.name[0], FALSE, pair[2], FALSE, FALSE))
    BY <2>2, OpenIsOpening, MountIsOpening, Zenon
  <2>4. Opening(OpenCalls(1, dm.name[0], dm.asked[0], 1, FALSE)
               \o MountCalls(0, dm.name[0], FALSE, pair[1], FALSE, FALSE)
               \o MountCalls(1, dm.name[0], FALSE, pair[2], FALSE, FALSE))
    BY <2>3, Joined, Zenon
  <2> QED BY <2>1, <2>4, CommandKeeps, Zenon
<1>7. CASE UnmountCall
  <2>1. PICK s \in Unmount(dm, c.dr) : dm.todo # <<>> /\ c.op = "unmount" /\ dm' = Done(s)
    BY <1>7 DEF UnmountCall
  <2>2. c.dr \in Drive
    BY <2>1, HeadIsCall DEF Calls
  <2>3. PICK t \in Outcomes(dm, c.dr) : s = Removed(t, c.dr)
    BY <2>1 DEF Unmount
  <2>4. Untouched(dm, t)
    BY <1>0, <2>2, OutcomeUntouched
  <2>5. Agree(t)
    BY <1>0, <2>4, UntouchedAgrees
  <2>6. Agree(s) /\ SameMenus(t, s) /\ s.drive[c.dr].holder = 0
    BY <2>2, <2>3, <2>5, RemovedAgrees
  <2>7. MenusTyped(s) /\ s.todo = dm.todo
    BY <2>4, <2>6, <1>0 DEF Untouched, SameMenus, MenusTyped
  <2> QED BY <2>1, <2>6, <2>7, DoneKeeps
<1>8. CASE MountCall
  <2>1. PICK passes \in BOOLEAN :
          dm.todo # <<>> /\ c.op = "mount" /\ dm' = Done(Mount(dm, c, passes))
    BY <1>8 DEF MountCall
  <2>2. c \in Calls
    BY <2>1, HeadIsCall
  <2>3. c.dr \in Drive /\ c.file \in Files /\ c.index \in Int /\ c.readonly \in BOOLEAN
    BY <2>1, <2>2 DEF Calls, Drive
  <2>4. dm.drive[c.dr].holder = 0
    BY <2>1 DEF DisksInv, Emptied
  <2> DEFINE m == MountFrom(dm, c.dr, c.file, c.readonly, c.index, c.create, passes)
             t == [m.s EXCEPT !.name[c.dr] = IF m.ok THEN c.file ELSE "",
                              !.asked[c.dr] = m.ok /\ c.readonly]
  <2>5. Agree(m.s) /\ SameMenus(dm, m.s) /\ m.ok \in BOOLEAN
    BY <1>0, <2>3, <2>4, MountAgrees
  <2>6. Mount(dm, c, passes) \in {t, m.s}
    BY DEF Mount
  <2> HIDE DEF m
  <2> HIDE DEF c
  <2>7. Agree(m.s) /\ MenusTyped(m.s) /\ m.s.todo = dm.todo
    BY <2>5, <1>0 DEF MenusTyped, SameMenus
  <2>8. Agree(t) /\ MenusTyped(t) /\ t.todo = dm.todo
    <3> DEFINE name == IF m.ok THEN c.file ELSE ""
               asked == m.ok /\ c.readonly
    <3>1. name \in Named /\ asked \in BOOLEAN
      BY <2>3, <2>5 DEF Named
    <3> HIDE DEF name
    <3> HIDE DEF asked
    <3> DEFINE u == [m.s EXCEPT !.name[c.dr] = name, !.asked[c.dr] = asked]
    <3>2. DiskShapes(m.s)
      BY <2>5 DEF Agree
    <3>3. /\ DiskShapes(u) /\ u.holder = m.s.holder /\ u.drive = m.s.drive /\ u.todo = m.s.todo
          /\ u.name = [m.s.name EXCEPT ![c.dr] = name]
          /\ u.asked = [m.s.asked EXCEPT ![c.dr] = asked]
      BY <3>2 DEF DiskShapes, StateFields
    <3> HIDE DEF u
    <3>4. Agree(u)
      BY <2>5, <3>3, ZenonT(30) DEF Agree, HolderCounts, Uses, DriveHolds, NoneTwice
    <3>5. MenusTyped(u)
      BY <2>7, <3>1, <3>3 DEF MenusTyped
    <3> QED BY <3>3, <3>4, <3>5, <2>7 DEF u, name, asked
  <2> HIDE DEF t
  <2> DEFINE s == Mount(dm, c, passes)
  <2>9. Agree(s) /\ MenusTyped(s) /\ s.todo = dm.todo
    BY <2>6, <2>7, <2>8
  <2>10. c.op # "unmount"
    BY <2>1
  <2> QED BY <2>1, <2>9, <2>10, DoneKeeps DEF c
<1>9. CASE AddDiskCall
  <2> DEFINE h == dm.drive[c.dr].holder
             s == IF h # 0 /\ dm.holder[h].disks = <<>> THEN AddDisk(dm, h) ELSE dm
  <2>1. dm.todo # <<>> /\ c.op = "add" /\ dm' = Done(s)
    BY <1>9 DEF AddDiskCall
  <2>2. c.dr \in Drive
    BY <2>1, HeadIsCall DEF Calls, Drive
  <2>3. h \in Holder \union {0}
    BY <2>2, <1>0 DEF Agree, DriveHolds
  <2>4. Agree(s) /\ MenusTyped(s) /\ s.todo = dm.todo
    <3>1. CASE h # 0 /\ dm.holder[h].disks = <<>>
      BY <3>1, <2>3, <1>0, AddAgrees DEF SameMenus, MenusTyped
    <3>2. CASE ~(h # 0 /\ dm.holder[h].disks = <<>>)
      BY <3>2, <1>0
    <3> QED BY <3>1, <3>2
  <2> HIDE DEF s
  <2> QED BY <2>1, <2>4, DoneKeeps
<1>10. CASE FormatCall
  <2>1. dm.todo # <<>> /\ c.op = "format" /\ \E s \in {FormatDisk(dm, c.dr), dm} : dm' = Done(s)
    BY <1>10 DEF FormatCall
  <2>2. c.dr \in Drive
    BY <2>1, HeadIsCall DEF Calls, Drive
  <2>3. Untouched(dm, FormatDisk(dm, c.dr)) /\ Untouched(dm, dm)
    BY <1>0, <2>2, FormatUntouched, ItselfUntouched
  <2> QED BY <2>1, <2>3, UntouchedDone
<1>11. CASE SecondCall
  <2>1. dm.todo # <<>> /\ c.op = "second" /\ dm' = [dm EXCEPT !.todo = OpenSecond(dm, c) \o Tail(dm.todo)]
    BY <1>11, <1>0 DEF SecondCall, DiskShapes, StateFields
  <2>2. c.file \in Files /\ c.readonly \in BOOLEAN
    BY <2>1, HeadIsCall DEF Calls, Drive
  <2>3. Opening(OpenSecond(dm, c))
    BY <2>2, SecondOpening
  <2>4. Opening(Tail(dm.todo))
    <3>1. dm.todo \in Seq(Calls) /\ Chained(dm.todo)
      BY DEF DisksInv, IsCalls
    <3>2. /\ Tail(dm.todo) \in Seq(Calls) /\ Len(Tail(dm.todo)) = Len(dm.todo) - 1
          /\ \A i \in 1..Len(dm.todo) - 1 : Tail(dm.todo)[i] = dm.todo[i + 1]
          /\ Len(dm.todo) \in Nat /\ Len(dm.todo) >= 1 /\ c = dm.todo[1]
      BY <3>1, <2>1
    <3>3. Chained(Tail(dm.todo))
      BY <3>1, <3>2 DEF Chained
    <3>4. Tail(dm.todo) # <<>> => Tail(dm.todo)[1].op # "mount"
      <4> SUFFICES ASSUME Tail(dm.todo) # <<>> PROVE Tail(dm.todo)[1].op # "mount"
        OBVIOUS
      <4>1. 1 \in 1..Len(dm.todo) - 1 /\ Tail(dm.todo)[1] = dm.todo[2]
        BY <3>2
      <4> QED BY <4>1, <3>1, <3>2, <2>1 DEF Chained
    <3> QED BY <3>2, <3>3, <3>4 DEF Opening, IsCalls
  <2> DEFINE q == OpenSecond(dm, c) \o Tail(dm.todo)
  <2>5. Opening(q)
    BY <2>3, <2>4, Joined
  <2> HIDE DEF q
  <2>6. /\ dm'.todo = q /\ dm'.holder = dm.holder /\ dm'.drive = dm.drive
        /\ dm'.name = dm.name /\ dm'.asked = dm.asked /\ DiskShapes(dm')
    BY <2>1, <1>0 DEF DiskShapes, StateFields, q
  <2>7. Agree(dm')
    BY <1>0, <2>6 DEF Agree, HolderCounts, Uses, DriveHolds, NoneTwice
  <2>8. MenusTyped(dm')
    BY <1>0, <2>6 DEF MenusTyped
  <2>9. Emptied(dm') /\ IsCalls(dm'.todo)
    BY <2>5, <2>6 DEF Emptied, Opening, IsCalls
  <2> QED BY <2>7, <2>8, <2>9 DEF DisksInv
<1>12. CASE ClearCall
  <2> DEFINE s == [dm EXCEPT !.name[c.dr] = "", !.asked[c.dr] = FALSE]
  <2>1. dm.todo # <<>> /\ c.op = "clear" /\ dm' = Done(s)
    BY <1>12 DEF ClearCall
  <2>2. /\ DiskShapes(s) /\ s.holder = dm.holder /\ s.drive = dm.drive /\ s.todo = dm.todo
        /\ s.name = [dm.name EXCEPT ![c.dr] = ""] /\ s.asked = [dm.asked EXCEPT ![c.dr] = FALSE]
    BY <1>0 DEF DiskShapes, StateFields
  <2> HIDE DEF s
  <2>3. Agree(s)
    BY <1>0, <2>2 DEF Agree, HolderCounts, Uses, DriveHolds, NoneTwice
  <2>4. MenusTyped(s)
    BY <1>0, <2>2 DEF MenusTyped, Named
  <2> QED BY <2>1, <2>2, <2>3, <2>4, DoneKeeps
<1>13. CASE WriteTrack
  <2>1. PICK dr \in Drive, data \in NewData, size \in 1..2, first \in BOOLEAN :
          dm' = TrackWritten(dm, dr, data, size, first)
    BY <1>13 DEF WriteTrack
  <2>2. Untouched(dm, dm')
    BY <2>1, <1>0 DEF TrackWritten, Untouched, DiskShapes, StateFields, HolderFields, DriveFields
  <2>3. Agree(dm')
    BY <1>0, <2>2, UntouchedAgrees
  <2>4. MenusTyped(dm') /\ IsCalls(dm'.todo) /\ Emptied(dm')
    <3>1. dm.todo # <<>> => c.dr \in Drive
      BY HeadIsCall DEF Calls, Drive
    <3> QED BY <3>1, <2>2, <1>0 DEF Untouched, MenusTyped, DisksInv, Emptied
  <2> QED BY <2>3, <2>4 DEF DisksInv
<1>14. CASE UNCHANGED dm
  BY <1>14 DEF DisksInv
<1> QED BY <1>1, <1>2, <1>3, <1>4, <1>5, <1>6, <1>7, <1>8, <1>9, <1>10, <1>11, <1>12, <1>13, <1>14
        DEF DisksNext

\* What the agreement was for.
LEMMA AgreeingHolds == DisksInv => HoldersMatchDrives
<1> SUFFICES ASSUME DisksInv PROVE HoldersMatchDrives
  OBVIOUS
<1>0. Agree(dm)
  BY DEF DisksInv
<1>1. \A h \in Holder : dm.holder[h].ref = Cardinality({dr \in Drive : dm.drive[dr].holder = h})
  <2> SUFFICES ASSUME NEW h \in Holder
              PROVE dm.holder[h].ref = Cardinality({dr \in Drive : dm.drive[dr].holder = h})
    OBVIOUS
  <2> DEFINE S == {dr \in Drive : dm.drive[dr].holder = h}
  <2>1. dm.holder[h].ref = Uses(dm, 0, h) + Uses(dm, 1, h)
    BY <1>0 DEF Agree, HolderCounts
  <2>2. Cardinality({}) = 0 /\ Cardinality({0}) = 1 /\ Cardinality({1}) = 1
    BY FS_EmptySet, FS_Singleton
  <2>3. Cardinality({0, 1}) = 2
    <3>1. {0} \union {1} = {0, 1} /\ IsFiniteSet({0}) /\ 1 \notin {0}
      BY FS_Singleton
    <3> QED BY <3>1, <2>2, FS_AddElement
  <2>4. CASE dm.drive[0].holder = h /\ dm.drive[1].holder = h
    <3>1. S = {0, 1} /\ Uses(dm, 0, h) = 1 /\ Uses(dm, 1, h) = 1
      BY <2>4 DEF Drive, Uses
    <3> HIDE DEF S
    <3>2. Cardinality(S) = 2 /\ dm.holder[h].ref = 2
      BY <3>1, <2>1, <2>3
    <3> QED BY <3>2 DEF S
  <2>5. CASE dm.drive[0].holder = h /\ dm.drive[1].holder # h
    <3>1. S = {0} /\ Uses(dm, 0, h) = 1 /\ Uses(dm, 1, h) = 0
      BY <2>5 DEF Drive, Uses
    <3> HIDE DEF S
    <3>2. Cardinality(S) \in {0, 1} /\ Cardinality(S) = Uses(dm, 0, h) + Uses(dm, 1, h)
      BY <3>1, <2>2
    <3> QED BY <3>2, <2>1 DEF S
  <2>6. CASE dm.drive[0].holder # h /\ dm.drive[1].holder = h
    <3>1. S = {1} /\ Uses(dm, 0, h) = 0 /\ Uses(dm, 1, h) = 1
      BY <2>6 DEF Drive, Uses
    <3> HIDE DEF S
    <3>2. Cardinality(S) \in {0, 1} /\ Cardinality(S) = Uses(dm, 0, h) + Uses(dm, 1, h)
      BY <3>1, <2>2
    <3> QED BY <3>2, <2>1 DEF S
  <2>7. CASE dm.drive[0].holder # h /\ dm.drive[1].holder # h
    <3>1. S = {} /\ Uses(dm, 0, h) = 0 /\ Uses(dm, 1, h) = 0
      BY <2>7 DEF Drive, Uses
    <3> HIDE DEF S
    <3>2. Cardinality(S) \in {0, 1} /\ Cardinality(S) = Uses(dm, 0, h) + Uses(dm, 1, h)
      BY <3>1, <2>2
    <3> QED BY <3>2, <2>1 DEF S
  <2> QED BY <2>4, <2>5, <2>6, <2>7
<1>2. dm.holder[1].name = dm.holder[2].name => dm.holder[1].name = ""
  BY <1>0 DEF Agree, NoneTwice
<1>3. ASSUME NEW dr \in Drive, dm.drive[dr].fdu
      PROVE /\ dm.drive[dr].holder # 0
            /\ dm.drive[dr].index + 1 \in DOMAIN dm.holder[dm.drive[dr].holder].disks
            /\ dm.drive[1 - dr].fdu => InDrive(dm, 1 - dr) # InDrive(dm, dr)
  <2>1. DriveHolds(dm, dr) /\ 1 - dr \in Drive /\ DriveHolds(dm, 1 - dr)
    BY <1>0 DEF Agree, Drive
  <2>2. /\ dm.drive[dr].holder # 0
        /\ dm.drive[dr].index + 1 \in DOMAIN dm.holder[dm.drive[dr].holder].disks
    BY <2>1, <1>3 DEF DriveHolds
  <2>3. ASSUME dm.drive[1 - dr].fdu, InDrive(dm, 1 - dr) = InDrive(dm, dr) PROVE FALSE
    <3> DEFINE a == dm.drive[dr].holder
               b == dm.drive[1 - dr].holder
    <3>1. a \in Holder /\ b \in Holder
      BY <2>1, <1>3, <2>3 DEF DriveHolds
    <3>2. dm.holder[a].name = dm.holder[b].name /\ dm.drive[dr].index = dm.drive[1 - dr].index
      BY <2>3 DEF InDrive
    <3>3. a # b
      <4>1. dm.drive[0].fdu /\ dm.drive[1].fdu /\ dm.drive[0].holder = dm.drive[1].holder
              => dm.drive[0].index # dm.drive[1].index
        BY <1>0 DEF Agree, NoneTwice
      <4>2. CASE dr = 0
        BY <4>1, <4>2, <3>2, <1>3, <2>3
      <4>3. CASE dr = 1
        BY <4>1, <4>3, <3>2, <1>3, <2>3
      <4> QED BY <4>2, <4>3 DEF Drive
    <3>4. dm.holder[a].name = ""
      BY <3>1, <3>2, <3>3, <1>2 DEF Holder
    <3>5. Uses(dm, dr, a) = 1 /\ Uses(dm, 1 - dr, a) \in {0, 1}
      BY UsesRange DEF Uses
    <3>6. Uses(dm, 0, a) + Uses(dm, 1, a) # 0
      BY <3>5 DEF Drive
    <3> QED BY <3>1, <3>4, <3>6, <1>0, DisksAssumption DEF Agree, HolderCounts
  <2> QED BY <2>2, <2>3
<1> QED BY <1>1, <1>2, <1>3 DEF HoldersMatchDrives

\* A holder's count is the number of drives that use it, no file is open twice, and a drive
\* with a disk has it from an open image that still has that disk, which is not in the other
\* drive: whatever the images, the order of the user's commands, the failures of the host
\* and the writes of programs between any two calls.
THEOREM DrivesAreInStep == DisksSpec => []HoldersMatchDrives
<1>1. DisksInit => DisksInv
  BY DisksBegin
<1>2. DisksInv /\ [DisksNext]_dm => DisksInv'
  BY DisksStep
<1>3. DisksInv => HoldersMatchDrives
  BY AgreeingHolds
<1> QED BY <1>1, <1>2, <1>3, PTL DEF DisksSpec

-----------------------------------------------------------------------------
(* The controller: each handler is called in a Quiet state, and leads to a  *)
(* Settled one.                                                            *)

\* The fields of the controller's record; assignments keep them.
FieldNames == 
  {"phase", "prev_phase", "status", "intr", "accept_tc", "count", "buffer", "timers", "t_phase",
   "handle", "slot", "command", "us", "hd", "id", "eot", "stp", "wid", "result", "diag", "diag_at", "rest",
   "int_requested", "seek_state", "seeks", "dresult", "cylinder", "unit", "mode", "disk", "given"}

\* The record the controller begins with has them.
LEMMA FieldsAre == DOMAIN PowerOn = FieldNames
BY DEF PowerOn, FieldNames

\* A controller's record, with a result for every drive addressed.
Shaped(s) == DOMAIN s = FieldNames /\ DOMAIN s.dresult = Addresses

\* Such a record, settled.
Sound(s) == Shaped(s) /\ Settled(s)

\* The controller while one of its handlers runs: no timer of its own is left.
Quiet(s) ==
  /\ Shaped(s) /\ s.timers = <<>> /\ s.handle # "own" /\ Reporting(s, Addresses)

\* The commands that wait for the drive.
Timed == SectorCommands \union {"ReadID", "WriteID"}

\* A handler of such a command runs, and the data register is not asked for.
Busy(s) ==
  /\ Quiet(s) /\ "RQM" \notin s.status /\ s.command.op \in Timed
  /\ s.accept_tc => s.command.op \in SectorCommands

\* Such a handler, when TC could not delete an event of somebody else.
Running(s) == Busy(s) /\ s.handle # "stale"

\* t differs from s in nothing that Settled mentions but the phase.
SameLines(s, t) ==
  /\ DOMAIN t = FieldNames
  /\ t.status = s.status /\ t.timers = s.timers /\ t.t_phase = s.t_phase /\ t.handle = s.handle
  /\ t.accept_tc = s.accept_tc /\ t.command = s.command
  /\ t.int_requested = s.int_requested /\ t.dresult = s.dresult

\* Sequences of at most one timer.
LEMMA OneTimer ==
  ASSUME NEW x
  PROVE /\ Append(<<>>, x) = <<x>> /\ Front(<<x>>) = <<>>
        /\ RemoveAt(<<x>>, 1) = <<>> /\ <<x>> # <<>> /\ Last(<<x>>) = x
BY DEF Front, RemoveAt, Last

\* Quiet depends on those fields alone.
LEMMA SameQuiet == ASSUME NEW s, NEW t, SameLines(s, t), Quiet(s) PROVE Quiet(t)
BY DEF SameLines, Quiet, Shaped, Reporting

\* The same for Busy.
LEMMA SameBusy == ASSUME NEW s, NEW t, SameLines(s, t), Busy(s) PROVE Busy(t)
BY SameQuiet DEF SameLines, Busy

\* And for Running.
LEMMA SameRunning == ASSUME NEW s, NEW t, SameLines(s, t), Running(s) PROVE Running(t)
BY SameBusy DEF SameLines, Running

\* With the same phase t is settled too.
LEMMA SameSound ==
  ASSUME NEW s, NEW t, SameLines(s, t), t.phase = s.phase, Sound(s)
  PROVE  Sound(t)
BY DEF SameLines, Sound, Shaped, Settled, Owning, Waits, Ends, Listens, Transfers, Reporting

\* SameLines is transitive.
LEMMA SameTwice == ASSUME NEW s, NEW t, NEW u, SameLines(s, t), SameLines(t, u) PROVE SameLines(s, u)
BY DEF SameLines

\* ShiftToIdlePhase leads from a handler to a coherent state.
LEMMA ToIdlePhase == ASSUME NEW s, Quiet(s) PROVE Sound(ShiftToIdlePhase(s))
BY FieldsAre DEF Quiet, Shaped, ShiftToIdlePhase, Sound, Settled, Owning, Listens, Reporting, FieldNames

\* ShiftToCommandPhase, for a command that has parameters.
LEMMA ToCommandPhase ==
  ASSUME NEW s, Quiet(s), s.command.op \in WithParameters, NEW n
  PROVE Sound(ShiftToCommandPhase(s, n))
<1> DEFINE count == Least(n, Few)
<1> HIDE DEF count
<1> QED BY FieldsAre DEF Quiet, Shaped, ShiftToCommandPhase, Sound, Settled, Owning, Listens, Reporting, FieldNames, count

\* ShiftToResultPhase.
LEMMA ToResultPhase == ASSUME NEW s, Quiet(s), NEW n PROVE Sound(ShiftToResultPhase(s, n))
BY FieldsAre DEF Quiet, Shaped, ShiftToResultPhase, Sound, Settled, Owning, Listens, Reporting, FieldNames

\* ShiftToResultPhase7, which asks for an interrupt.
LEMMA ToResultPhase7 == ASSUME NEW s, Quiet(s) PROVE Sound(ShiftToResultPhase7(s))
BY ToResultPhase, FieldsAre DEF Intr, ShiftToResultPhase7, ShiftToResultPhase, Quiet, Shaped, Sound, Settled, Owning, Listens, Reporting, FieldNames

\* The same with the result of a failure.
LEMMA ToFailurePhase == ASSUME NEW s, Quiet(s), NEW r PROVE Sound(Fails(s, r))
<1>1. SameLines(s, [s EXCEPT !.result = r])
  BY DEF Quiet, Shaped, SameLines, FieldNames
<1> QED BY <1>1, SameQuiet, ToResultPhase7 DEF Fails

\* From a handler into one in which the drive is (SetTimer).
LEMMA ToTimer ==
  ASSUME NEW s, Busy(s), NEW x \in {"execute", "timer"},
         s.command.op \in {"ReadID", "WriteID"} => ~s.accept_tc,
         s.command.op = "WriteID" => x = "timer"
  PROVE Sound(SetTimer(s, x))
BY FieldsAre, OneTimer DEF Busy, Quiet, Shaped, SetTimer, Sound, Settled, Owning, Waits, Reporting, FieldNames, Timed

\* ShiftToExecReadPhase, for the commands that read.
LEMMA ToReadPhase ==
  ASSUME NEW s, Quiet(s), s.command.op \in {"ReadData", "ReadDiagnostic"}, s.handle # "stale", NEW n
  PROVE Sound(ShiftToExecReadPhase(s, n))
BY FieldsAre DEF Quiet, Shaped, ShiftToExecReadPhase, ShiftToExecPhase, Sound, Settled, Owning, Listens, Transfers, Reporting, FieldNames

\* ShiftToExecWritePhase, for the commands that write.
LEMMA ToWritePhase ==
  ASSUME NEW s, Quiet(s), s.command.op \in {"WriteData", "WriteID"},
         s.command.op = "WriteData" => s.handle # "stale", NEW n
  PROVE Sound(ShiftToExecWritePhase(s, n))
BY FieldsAre DEF Quiet, Shaped, ShiftToExecWritePhase, ShiftToExecPhase, Sound, Settled, Owning, Listens, Transfers, Reporting, FieldNames, SectorCommands

\* ShiftToExecScanPhase, for a scan.
LEMMA ToScanPhase ==
  ASSUME NEW s, Quiet(s), s.command.op = "Scan", s.handle # "stale", NEW n, NEW d
  PROVE Sound(ShiftToExecScanPhase(s, n, d))
BY FieldsAre DEF Quiet, Shaped, ShiftToExecScanPhase, ShiftToExecPhase, Sound, Settled, Owning, Listens, Transfers, Reporting, FieldNames

-----------------------------------------------------------------------------
\* GetSectorParameters changes only what a command works with.
LEMMA ParametersLines ==
  ASSUME NEW s, DOMAIN s = FieldNames
  PROVE SameLines(s, GetSectorParameters(s)) /\ GetSectorParameters(s).phase = s.phase
BY DEF GetSectorParameters, SameLines, FieldNames

\* Took takes over an answer of the drive.
LEMMA TookLines ==
  ASSUME NEW s, DOMAIN s = FieldNames, NEW a
  PROVE SameLines(s, Took(s, a))
BY DEF Took, SameLines, FieldNames

\* Inverted changes the result.
LEMMA InvertedLines ==
  ASSUME NEW s, DOMAIN s = FieldNames, NEW d
  PROVE SameLines(s, Inverted(s, d))
<1> DEFINE r == Toggle(s.result, "CM")
<1> HIDE DEF r
<1>1. SameLines(s, [s EXCEPT !.result = r]) /\ SameLines(s, s)
  BY DEF SameLines, FieldNames
<1> QED BY <1>1 DEF Inverted, r

\* IDIncrement changes the ID and the head.
LEMMA IDLines ==
  ASSUME NEW s, DOMAIN s = FieldNames, NEW r
  PROVE SameLines(s, IDAfter(s, r).s)
<1> DEFINE h == IF s.command.mt THEN 1 - s.id.h ELSE s.id.h
           hd == IF s.command.mt THEN 1 - s.hd ELSE s.hd
           n == NextRecord(r)
           a == [s EXCEPT !.id.r = n]
           b == [s EXCEPT !.id.r = 1, !.id.h = h, !.hd = hd]
           c == [s EXCEPT !.id.r = 1, !.id.h = h, !.hd = hd, !.id.c = @ + 1]
<1>1. IDAfter(s, r).s \in {a, b, c}
  BY DEF IDAfter
<1> HIDE DEF h
<1> HIDE DEF hd
<1> HIDE DEF n
<1>2. SameLines(s, a) /\ SameLines(s, b) /\ SameLines(s, c)
  BY DEF SameLines, FieldNames
<1> QED BY <1>1, <1>2

\* The next sector is waited for, the end of the cylinder too.
LEMMA NextAwaited ==
  ASSUME NEW s, Busy(s), s.command.op \in SectorCommands
  PROVE Sound(NextSector(s))
<1>0. DOMAIN s = FieldNames
  BY DEF Busy, Quiet, Shaped
<1> DEFINE r == IF s.command.op = "Scan" /\ s.stp = 2 THEN NextRecord(s.id.r) ELSE s.id.r
           i == IDAfter(s, r)
<1>1. SameLines(s, i.s)
  BY <1>0, IDLines
<1>2. NextSector(s) = SetTimer(i.s, IF i.more THEN "execute" ELSE "timer")
  BY DEF NextSector, Onward, IDIncrement
<1> HIDE DEF i
<1>3. Busy(i.s) /\ i.s.command.op \in SectorCommands
  BY <1>1, SameBusy DEF SameLines
<1> DEFINE x == IF i.more THEN "execute" ELSE "timer"
<1>4. x \in {"execute", "timer"}
  OBVIOUS
<1> HIDE DEF x
<1>5. i.s.command.op \notin {"ReadID", "WriteID"}
  BY <1>3 DEF SectorCommands
<1>6. Sound(SetTimer(i.s, x))
  BY <1>3, <1>4, <1>5, ToTimer
<1> QED BY <1>2, <1>6 DEF x

\* So does an assignment to the phase.
LEMMA PhaseLines ==
  ASSUME NEW s, DOMAIN s = FieldNames, NEW p
  PROVE SameLines(s, [s EXCEPT !.phase = p])
BY DEF SameLines, FieldNames

\* ToTimer for the commands on sectors.
LEMMA SectorTimer ==
  ASSUME NEW s, Busy(s), s.command.op \in SectorCommands, NEW x \in {"execute", "timer"}
  PROVE Sound(SetTimer(s, x))
<1>1. s.command.op \notin {"ReadID", "WriteID"}
  BY DEF SectorCommands
<1> QED BY <1>1, ToTimer

\* A sector read is transferred, scanned, passed over, or the end of the command.
LEMMA SectorReadLeads ==
  ASSUME NEW s, Running(s), NEW sector, NEW scan \in BOOLEAN,
         scan => s.command.op = "Scan", ~scan => s.command.op \in {"ReadData", "ReadDiagnostic"}
  PROVE Sound(SectorRead(s, sector, scan))
<1>1. Busy(s) /\ Quiet(s) /\ s.handle # "stale" /\ s.command.op \in SectorCommands
  BY DEF Running, Busy, SectorCommands
<1>2. /\ Sound(ShiftToResultPhase7(s)) /\ Sound(SetTimer(s, "timer"))
      /\ scan => Sound(ShiftToExecScanPhase(s, Bytes(s.id.n), sector.data))
      /\ ~scan => Sound(ShiftToExecReadPhase(s, Bytes(s.id.n)))
  BY <1>1, ToResultPhase7, SectorTimer, ToScanPhase, ToReadPhase
<1> QED BY <1>2 DEF SectorRead

\* ReadData, also on behalf of a scan: the drive is not ready, fails or answers.
LEMMA ReadDataLeads ==
  ASSUME NEW s, Running(s), NEW deleted, NEW scan \in BOOLEAN,
         scan => s.command.op = "Scan", ~scan => s.command.op = "ReadData"
  PROVE Sound(ReadData(s, deleted, scan))
<1> DEFINE check == CheckCondition(s)
           sector == ReadSector(Under(s), Flags(s), s.id)
           t == Took(s, sector)
           u == Inverted(t, deleted)
<1>1. Busy(s) /\ Quiet(s) /\ s.command.op \in SectorCommands /\ DOMAIN s = FieldNames
  BY DEF Running, Busy, SectorCommands, Quiet, Shaped
<1>2. SameLines(s, t)
  BY <1>1, TookLines
<1>3. SameLines(t, u)
  BY <1>2, InvertedLines DEF SameLines
<1>4. SameLines(s, u)
  BY <1>2, <1>3, SameTwice
<1> HIDE DEF u, t
<1>5. Running(u) /\ u.command = s.command
  BY <1>4, SameRunning DEF SameLines
<1>6. Sound(SectorRead(u, sector, scan))
  BY <1>5, SectorReadLeads
<1>7. SameLines(s, [s EXCEPT !.result = check])
  BY <1>1 DEF SameLines, FieldNames
<1>8. Sound(SetTimer([s EXCEPT !.result = check], "execute"))
  <2> DEFINE v == [s EXCEPT !.result = check]
  <2>1. Busy(v) /\ v.command.op \in SectorCommands
    BY <1>1, <1>7, SameBusy DEF SameLines
  <2> HIDE DEF v
  <2>2. Sound(SetTimer(v, "execute"))
    BY <2>1, SectorTimer
  <2> QED BY <2>2 DEF v
<1>9. Sound(Fails(s, check))
  BY <1>1, ToFailurePhase
<1> HIDE DEF check, sector
<1> QED BY <1>6, <1>8, <1>9 DEF ReadData, ReadThen, u, t, check, sector

\* DelTimer takes the one timer there is.
LEMMA DelTimerQuiet ==
  ASSUME NEW s, Shaped(s), Reporting(s, Addresses), s.handle = "own" <=> s.timers # <<>>,
         s.timers \in {<<>>, <<"execute">>, <<"timer">>}
  PROVE Quiet(DelTimer(s))
BY OneTimer DEF DelTimer, Quiet, Shaped, Reporting, FieldNames

\* What TC leaves a command in.
TransferEnds(s) ==
  /\ s.phase = "tc" /\ Shaped(s) /\ Reporting(s, Addresses)
  /\ s.handle = "own" <=> s.timers # <<>>
  /\ s.timers \in {<<>>, <<"execute">>, <<"timer">>}

\* What a handler is called with by the command itself,
Begins(s) == s.phase = "idle" /\ Quiet(s) /\ "RQM" \notin s.status /\ ~s.accept_tc

\* and by the last of its parameters.
HasParameters(s) == s.phase = "command" /\ Quiet(s) /\ "RQM" \notin s.status /\ ~s.accept_tc

\* CmdReadData, in every phase it is called in.
LEMMA ReadDataHandled ==
  ASSUME NEW s, s.command.op = "ReadData",
         \/ Begins(s) \/ HasParameters(s) \/ TransferEnds(s)
         \/ Running(s) /\ s.phase \in {"execute", "timer", "execread"}
  PROVE Sound(CmdReadData(s))
<1>0. s.command.op \in SectorCommands /\ s.command.op \in WithParameters /\ s.command.op \in Timed
  BY DEF SectorCommands, WithParameters, Timed
<1>1. CASE Begins(s)
  BY <1>1, <1>0, ToCommandPhase DEF Begins, CmdReadData
<1>2. CASE HasParameters(s)
  <2>1. Busy(s) /\ s.phase = "command" /\ DOMAIN s = FieldNames
    BY <1>2, <1>0 DEF HasParameters, Busy, Quiet, Shaped
  <2>2. Busy(GetSectorParameters(s)) /\ GetSectorParameters(s).command.op \in SectorCommands
    BY <2>1, <1>0, ParametersLines, SameBusy DEF SameLines
  <2>3. Sound(SetTimer(GetSectorParameters(s), "execute"))
    BY <2>2, SectorTimer
  <2> QED BY <2>1, <2>3 DEF CmdReadData
<1>3. CASE TransferEnds(s)
  <2>1. Sound(ShiftToResultPhase7(DelTimer(s)))
    BY <1>3, DelTimerQuiet, ToResultPhase7 DEF TransferEnds
  <2> QED BY <1>3, <2>1 DEF CmdReadData, TransferEnds
<1>4. CASE Running(s) /\ s.phase = "execute"
  BY <1>4, ReadDataLeads DEF CmdReadData
<1>5. CASE Running(s) /\ s.phase = "timer"
  <2>1. Sound(Fails(s, {"AT", "EN"}))
    BY <1>5, ToFailurePhase DEF Running, Busy
  <2> QED BY <1>5, <2>1 DEF CmdReadData
<1>6. CASE Running(s) /\ s.phase = "execread"
  <2>1. Sound(ShiftToResultPhase7(s)) /\ Sound(NextSector(s))
    BY <1>6, <1>0, ToResultPhase7, NextAwaited DEF Running, Busy
  <2> QED BY <1>6, <2>1 DEF CmdReadData
<1> QED BY <1>1, <1>2, <1>3, <1>4, <1>5, <1>6

\* CmdScanEqual, in every phase it is called in.
LEMMA ScanHandled ==
  ASSUME NEW s, s.command.op = "Scan",
         \/ Begins(s) \/ HasParameters(s) \/ TransferEnds(s)
         \/ Running(s) /\ s.phase \in {"execute", "timer", "execscan"}
  PROVE Sound(CmdScanEqual(s))
<1>0. s.command.op \in SectorCommands /\ s.command.op \in WithParameters /\ s.command.op \in Timed
  BY DEF SectorCommands, WithParameters, Timed
<1>1. CASE Begins(s)
  BY <1>1, <1>0, ToCommandPhase DEF Begins, CmdScanEqual
<1>2. CASE HasParameters(s)
  <2>1. Busy(s) /\ s.phase = "command" /\ DOMAIN s = FieldNames
    BY <1>2, <1>0 DEF HasParameters, Busy, Quiet, Shaped
  <2>2. Busy(GetSectorParameters(s)) /\ GetSectorParameters(s).command.op \in SectorCommands
    BY <2>1, <1>0, ParametersLines, SameBusy DEF SameLines
  <2>3. Sound(SetTimer(GetSectorParameters(s), "execute"))
    BY <2>2, SectorTimer
  <2> QED BY <2>1, <2>3 DEF CmdScanEqual
<1>3. CASE TransferEnds(s)
  <2>1. Sound(ShiftToResultPhase7(DelTimer(s)))
    BY <1>3, DelTimerQuiet, ToResultPhase7 DEF TransferEnds
  <2> QED BY <1>3, <2>1 DEF CmdScanEqual, TransferEnds
<1>4. CASE Running(s) /\ s.phase = "execute"
  <2>1. TRUE \in BOOLEAN
    OBVIOUS
  <2>2. Sound(ReadData(s, FALSE, TRUE))
    BY <1>4, ReadDataLeads
  <2> QED BY <1>4, <2>2 DEF CmdScanEqual
<1>5. CASE Running(s) /\ s.phase = "timer"
  <2>1. Sound(Fails(s, {"EN", "SN"}))
    BY <1>5, ToFailurePhase DEF Running, Busy
  <2> QED BY <1>5, <2>1 DEF CmdScanEqual
<1>6. CASE Running(s) /\ s.phase = "execscan"
  <2> DEFINE t == [s EXCEPT !.phase = "execute"]
  <2>1. SameLines(s, t)
    BY <1>6, PhaseLines DEF Running, Busy, Quiet, Shaped
  <2>2. Busy(t) /\ t.command.op \in SectorCommands
    BY <1>6, <1>0, <2>1, SameBusy DEF SameLines, Running
  <2> HIDE DEF t
  <2>3. Sound(ShiftToResultPhase7(s)) /\ Sound(NextSector(t))
    BY <1>6, <2>2, ToResultPhase7, NextAwaited DEF Running, Busy
  <2> QED BY <1>6, <2>3 DEF CmdScanEqual, t
<1> QED BY <1>1, <1>2, <1>3, <1>4, <1>5, <1>6

\* WriteData fails with a result phase of its own, or leaves the lines alone.
LEMMA WriteDataLeads ==
  ASSUME NEW s, Quiet(s)
  PROVE \/ WriteData(s) = Fails(s, CheckCondition(s))
        \/ SameLines(s, WriteData(s))
<1> DEFINE content == IF s.buffer = <<>> THEN Blank ELSE Last(s.buffer)
           answer == WriteSector(Under(s), Flags(s), s.id, content, s.command.deleted)
<1>1. SameLines(s, Took(s, answer))
  BY TookLines DEF Quiet, Shaped
<1> QED BY <1>1 DEF WriteData

\* A failure is reported without a timer.
LEMMA FailsQuiet == ASSUME NEW s, Quiet(s), NEW r PROVE Quiet(Fails(s, r))
<1> DEFINE count == Least(7, Few)
<1> HIDE DEF count
<1> QED BY DEF Quiet, Shaped, Fails, ShiftToResultPhase7, ShiftToResultPhase, Intr, FieldNames, Reporting, count

\* The result of a failure is what it was called with.
LEMMA FailsHasResult == ASSUME NEW s, Quiet(s), NEW r PROVE Fails(s, r).result = r
BY DEF Quiet, Shaped, Fails, ShiftToResultPhase7, ShiftToResultPhase, Intr, FieldNames

\* CmdWriteData, in every phase it is called in.
LEMMA WriteDataHandled ==
  ASSUME NEW s, s.command.op = "WriteData",
         \/ Begins(s) \/ HasParameters(s) \/ TransferEnds(s)
         \/ Running(s) /\ s.phase \in {"execute", "timer", "execwrite"}
  PROVE Sound(CmdWriteData(s))
<1>0. s.command.op \in SectorCommands /\ s.command.op \in WithParameters /\ s.command.op \in Timed
  BY DEF SectorCommands, WithParameters, Timed
<1>1. CASE Begins(s)
  BY <1>1, <1>0, ToCommandPhase DEF Begins, CmdWriteData
<1>2. CASE HasParameters(s)
  <2>1. Busy(s) /\ s.phase = "command" /\ DOMAIN s = FieldNames
    BY <1>2, <1>0 DEF HasParameters, Busy, Quiet, Shaped
  <2>2. Busy(GetSectorParameters(s)) /\ GetSectorParameters(s).command.op \in SectorCommands
    BY <2>1, <1>0, ParametersLines, SameBusy DEF SameLines
  <2>3. Sound(SetTimer(GetSectorParameters(s), "execute"))
    BY <2>2, SectorTimer
  <2> QED BY <2>1, <2>3 DEF CmdWriteData
<1>3. CASE TransferEnds(s)
  <2> DEFINE d == DelTimer(s)
             f == Flushed(d)
             w == WriteData(f)
  <2>1. Quiet(d)
    BY <1>3, DelTimerQuiet DEF TransferEnds
  <2>2. Quiet(f)
    <3> HIDE DEF d
    <3> DEFINE b == d.buffer \o [i \in 1..d.count |-> Blank]
    <3>1. f = [d EXCEPT !.buffer = b]
      BY DEF Flushed
    <3> HIDE DEF b, f
    <3>2. SameLines(d, f)
      BY <2>1, <3>1 DEF SameLines, Quiet, Shaped, FieldNames
    <3> QED BY <2>1, <3>2, SameQuiet
  <2>3. Quiet(w)
    <3> HIDE DEF f
    <3> QED BY <2>2, WriteDataLeads, SameQuiet, FailsQuiet
  <2> HIDE DEF d, w
  <2>4. Sound(ShiftToResultPhase7(d)) /\ Sound(ShiftToResultPhase7(w))
    BY <2>1, <2>3, ToResultPhase7
  <2>5. s.phase = "tc"
    BY <1>3 DEF TransferEnds
  <2> QED BY <2>4, <2>5 DEF CmdWriteData, d, w
<1>4. CASE Running(s) /\ s.phase = "execute"
  <2> DEFINE check == CheckCondition(s)
             t == [s EXCEPT !.result = check]
             u == Took(s, FindID(Under(s), Flags(s), s.id))
  <2>0. Quiet(s) /\ DOMAIN s = FieldNames
    BY <1>4 DEF Running, Busy, Quiet, Shaped
  <2>1. SameLines(s, t)
    BY <2>0 DEF SameLines, FieldNames
  <2>2. SameLines(s, u)
    BY <2>0, TookLines
  <2> HIDE DEF t, u, check
  <2>3. Busy(t) /\ t.command.op \in SectorCommands /\ Quiet(u) /\ u.command.op = "WriteData" /\ u.handle # "stale"
    BY <1>4, <1>0, <2>0, <2>1, <2>2, SameBusy, SameQuiet DEF SameLines, Running
  <2>4. /\ Sound(SetTimer(t, "execute")) /\ Sound(Fails(s, check))
        /\ Sound(ShiftToResultPhase7(u)) /\ Sound(ShiftToExecWritePhase(u, Bytes(u.id.n)))
    BY <2>0, <2>3, SectorTimer, ToFailurePhase, ToResultPhase7, ToWritePhase
  <2>5. Sound(SectorToWrite(u))
    BY <2>4 DEF SectorToWrite
  <2> QED BY <1>4, <2>4, <2>5 DEF CmdWriteData, t, u, check
<1>5. CASE Running(s) /\ s.phase = "timer"
  <2>1. Sound(Fails(s, {"AT", "EN"}))
    BY <1>5, ToFailurePhase DEF Running, Busy
  <2> QED BY <1>5, <2>1 DEF CmdWriteData
<1>6. CASE Running(s) /\ s.phase = "execwrite"
  <2> DEFINE w == WriteData(s)
             t == [w EXCEPT !.phase = "execute"]
  <2>0. Quiet(s)
    BY <1>6 DEF Running, Busy
  <2>1. Quiet(w) /\ (w.result = {} => SameLines(s, w))
    <3>1. CASE CheckCondition(s) # {}
      <4>1. w = Fails(s, CheckCondition(s))
        BY <3>1 DEF WriteData
      <4> QED BY <4>1, <3>1, <2>0, FailsQuiet, FailsHasResult
    <3>2. CASE CheckCondition(s) = {}
      <4>1. SameLines(s, w)
        <5> DEFINE content == IF s.buffer = <<>> THEN Blank ELSE Last(s.buffer)
                   answer == WriteSector(Under(s), Flags(s), s.id, content, s.command.deleted)
        <5>1. SameLines(s, Took(s, answer))
          BY <2>0, TookLines DEF Quiet, Shaped
        <5> QED BY <5>1, <3>2 DEF WriteData
      <4> QED BY <4>1, <2>0, SameQuiet
    <3> QED BY <3>1, <3>2
  <2> HIDE DEF w
  <2>2. SameLines(w, t)
    BY <2>1, PhaseLines DEF Quiet, Shaped
  <2> HIDE DEF t
  <2>3. w.result = {} => Sound(NextSector(t))
    <3> SUFFICES ASSUME w.result = {} PROVE Sound(NextSector(t))
      OBVIOUS
    <3>1. SameLines(s, t)
      BY <2>1, <2>2, SameTwice
    <3>2. Busy(t) /\ t.command.op \in SectorCommands
      BY <3>1, <1>6, <1>0, SameBusy DEF SameLines, Running
    <3> QED BY <3>2, NextAwaited
  <2>4. Sound(ShiftToResultPhase7(w))
    BY <2>1, ToResultPhase7
  <2>5. Sound(SectorWritten(w))
    BY <2>3, <2>4 DEF SectorWritten, t
  <2> QED BY <1>6, <2>5 DEF CmdWriteData, w
<1> QED BY <1>1, <1>2, <1>3, <1>4, <1>5, <1>6

\* ReadID waits for a sector or for the whole turn.
LEMMA IDWaits ==
  ASSUME NEW s, Busy(s), s.command.op = "ReadID", ~s.accept_tc
  PROVE Sound(IDWanted(s))
<1>1. Sound(SetTimer(s, "execute")) /\ Sound(SetTimer(s, "timer"))
  BY ToTimer
<1> QED BY <1>1 DEF IDWanted

\* CmdReadID, in every phase it is called in.
LEMMA ReadIDHandled ==
  ASSUME NEW s, s.command.op = "ReadID",
         \/ Begins(s) \/ HasParameters(s)
         \/ Busy(s) /\ ~s.accept_tc /\ s.phase \in {"execute", "timer"}
  PROVE Sound(CmdReadID(s))
<1>0. s.command.op \in WithParameters /\ s.command.op \in Timed
  BY DEF WithParameters, Timed
<1>1. CASE Begins(s)
  BY <1>1, <1>0, ToCommandPhase DEF Begins, CmdReadID
<1>2. CASE HasParameters(s)
  <2> DEFINE t == [s EXCEPT !.us = s.buffer.us, !.hd = s.buffer.hd]
  <2>1. Busy(s) /\ s.phase = "command" /\ DOMAIN s = FieldNames /\ ~s.accept_tc
    BY <1>2, <1>0 DEF HasParameters, Busy, Quiet, Shaped
  <2>2. SameLines(s, t)
    BY <2>1 DEF SameLines, FieldNames
  <2> HIDE DEF t
  <2>3. Sound(IDWanted(t))
    BY <2>1, <2>2, SameBusy, IDWaits DEF SameLines
  <2> QED BY <2>1, <2>3 DEF CmdReadID, t
<1>3. CASE Busy(s) /\ ~s.accept_tc /\ s.phase = "execute"
  BY <1>3, IDWaits DEF CmdReadID
<1>4. CASE Busy(s) /\ ~s.accept_tc /\ s.phase = "timer"
  <2> DEFINE found == ReadID(Under(s), Flags(s))
             a == [s EXCEPT !.disk[s.us] = found.disk]
             b == [s EXCEPT !.disk[s.us] = found.disk, !.id = Here(found.disk)[found.sector].id]
  <2>0. Quiet(s) /\ DOMAIN s = FieldNames
    BY <1>4 DEF Running, Busy, Quiet, Shaped
  <2>1. SameLines(s, a) /\ SameLines(s, b)
    <3> HIDE DEF found
    <3> QED BY <2>0 DEF SameLines, FieldNames
  <2>2. /\ Sound(Fails(s, CheckCondition(s))) /\ Sound(Fails(a, {"AT", "MA"}))
        /\ Sound(Fails(b, {}))
    <3> HIDE DEF a, b
    <3> QED BY <2>0, <2>1, SameQuiet, ToFailurePhase
  <2> HIDE DEF found
  <2>3. Sound(IDRead(s, found))
    BY <2>2 DEF IDRead
  <2>4. Sound(ReadIDNow(s))
    BY <2>2, <2>3 DEF ReadIDNow, found
  <2> QED BY <1>4, <2>4 DEF CmdReadID
<1> QED BY <1>1, <1>2, <1>3, <1>4

\* CmdWriteID, in every phase it is called in.
LEMMA WriteIDHandled ==
  ASSUME NEW s, s.command.op = "WriteID",
         \/ Begins(s) \/ HasParameters(s)
         \/ s.phase = "tc" /\ Quiet(s)
         \/ Quiet(s) /\ "RQM" \notin s.status /\ s.phase \in {"timer", "execwrite"}
         \/ Quiet(s) /\ s.phase = "timer"
  PROVE Sound(CmdWriteID(s))
<1> DEFINE p == s.buffer
           t == [s EXCEPT !.us = p.us, !.hd = p.hd, !.wid = p.id.n, !.eot = p.eot]
<1>0. s.command.op \in WithParameters /\ s.command.op \in Timed
  BY DEF WithParameters, Timed
<1>1. CASE Begins(s)
  BY <1>1, <1>0, ToCommandPhase DEF Begins, CmdWriteID
<1>2. CASE HasParameters(s)
  <2> DEFINE ids == <<[c |-> p.us, h |-> p.id.n, r |-> 0, n |-> 0]>>
             u == [t EXCEPT !.buffer = ids]
  <2>1. Busy(s) /\ s.phase = "command" /\ DOMAIN s = FieldNames /\ ~s.accept_tc
    BY <1>2, <1>0 DEF HasParameters, Busy, Quiet, Shaped
  <2>2. SameLines(s, t)
    <3> HIDE DEF p
    <3> QED BY <2>1 DEF SameLines, FieldNames
  <2> HIDE DEF t, ids
  <2>3. SameLines(t, u)
    BY <2>2 DEF SameLines, FieldNames
  <2>4. SameLines(s, u)
    BY <2>2, <2>3, SameTwice
  <2> HIDE DEF u
  <2>5. Busy(t) /\ Busy(u) /\ t.command.op = "WriteID" /\ u.command.op = "WriteID" /\ ~u.accept_tc
    BY <2>1, <2>2, <2>4, SameBusy DEF SameLines
  <2>6. Sound(ShiftToExecWritePhase(t, p.eot)) /\ Sound(SetTimer(u, "timer"))
    BY <2>5, ToWritePhase, ToTimer DEF Busy
  <2> QED BY <2>1, <2>6 DEF CmdWriteID, u, t, ids
<1>3. CASE s.phase = "tc" /\ Quiet(s)
  <2> DEFINE u == SetTimer([s EXCEPT !.accept_tc = FALSE], "timer")
  <2>1. Sound(u)
    BY <1>3, FieldsAre, OneTimer
       DEF Quiet, Shaped, SetTimer, Sound, Settled, Owning, Ends, Reporting, FieldNames
  <2> QED BY <1>3, <2>1 DEF CmdWriteID
<1>4. CASE Quiet(s) /\ "RQM" \notin s.status /\ s.phase = "execwrite"
  <2> DEFINE u == SetTimer([s EXCEPT !.accept_tc = FALSE], "timer")
  <2>1. Sound(u)
    BY <1>4, FieldsAre, OneTimer
       DEF Quiet, Shaped, SetTimer, Sound, Settled, Owning, Waits, Reporting, FieldNames
  <2> QED BY <1>4, <2>1 DEF CmdWriteID
<1>5. CASE Quiet(s) /\ s.phase = "timer"
  <2> DEFINE answer == WriteID(s.disk[s.us], Track(s), Flags(s), s.buffer, s.wid, Blank)
             a == Took(s, answer)
             b == [a EXCEPT !.id.n = s.wid]
  <2>1. SameLines(s, a)
    BY <1>5, TookLines DEF Quiet, Shaped
  <2> HIDE DEF a
  <2>2. SameLines(a, b)
    BY <2>1 DEF SameLines, FieldNames
  <2> HIDE DEF b
  <2>3. Quiet(b)
    BY <1>5, <2>1, <2>2, SameQuiet
  <2>4. Sound(Fails(s, CheckCondition(s))) /\ Sound(ShiftToResultPhase7(b))
    BY <1>5, <2>3, ToFailurePhase, ToResultPhase7
  <2>5. Sound(WriteIDNow(s))
    BY <2>4 DEF WriteIDNow, a, b
  <2> QED BY <1>5, <2>5 DEF CmdWriteID
<1> QED BY <1>1, <1>2, <1>3, <1>4, <1>5

\* ReadDiagnostic fails, or leaves the lines alone.
LEMMA DiagnosticLines ==
  ASSUME NEW s, Quiet(s)
  PROVE \/ \E r : ReadDiagnostic(s) = Fails(s, r)
        \/ \E u, r : SameLines(s, u) /\ ReadDiagnostic(s) = Fails(u, r)
        \/ SameLines(s, ReadDiagnostic(s))
<1>0. DOMAIN s = FieldNames
  BY DEF Quiet, Shaped
<1>1. ASSUME NEW u, DOMAIN u = FieldNames, NEW next PROVE SameLines(u, ReadDiag(u, next))
  <2> DEFINE r == IF next # 0 /\ u.diag[next].id = u.id THEN {} ELSE {"ND"}
  <2> HIDE DEF r
  <2>1. SameLines(u, [u EXCEPT !.diag_at = next, !.result = r])
    BY <1>1 DEF SameLines, FieldNames
  <2> QED BY <2>1 DEF ReadDiag, r
<1>2. ASSUME NEW u, DOMAIN u = FieldNames PROVE SameLines(u, NextInDiag(u))
  BY <1>1, <1>2 DEF NextInDiag
<1>3. CASE s.diag_at # 0
  BY <1>0, <1>2, <1>3 DEF ReadDiagnostic
<1>4. CASE s.diag_at = 0 /\ CheckCondition(s) # {}
  BY <1>4 DEF ReadDiagnostic
<1>5. CASE s.diag_at = 0 /\ CheckCondition(s) = {}
  <2> DEFINE u == [s EXCEPT !.disk[s.us] = Under(s)]
             d == SelectSeq(Here(u.disk[u.us]), LAMBDA e : Density(e.flags) = Flags(u))
             v == [u EXCEPT !.diag = d]
  <2>1. SameLines(s, u)
    <3> DEFINE under == Under(s)
    <3> HIDE DEF under
    <3>1. SameLines(s, [s EXCEPT !.disk[s.us] = under])
      BY <1>0 DEF SameLines, FieldNames
    <3> QED BY <3>1 DEF under
  <2>2. ReadDiagnostic(s) = MakeDiagData(u)
    BY <1>5 DEF ReadDiagnostic
  <2> HIDE DEF u
  <2>3. MakeDiagData(u) = Fails(u, {"AT", "ND"}) \/ MakeDiagData(u) = NextInDiag(v)
    BY DEF MakeDiagData
  <2>4. SameLines(u, v)
    <3> HIDE DEF d
    <3> QED BY <2>1 DEF SameLines, FieldNames
  <2> HIDE DEF v
  <2>5. SameLines(v, NextInDiag(v))
    BY <2>4, <1>2 DEF SameLines
  <2>6. SameLines(s, NextInDiag(v))
    BY <2>1, <2>4, <2>5, SameTwice
  <2> QED BY <2>1, <2>2, <2>3, <2>6
<1> QED BY <1>3, <1>4, <1>5

\* An assignment after a shift.
LEMMA RestCoherent ==
  ASSUME NEW s, Sound(s), NEW r
  PROVE Sound([s EXCEPT !.rest = r])
BY FieldsAre DEF Shaped, Sound, Settled, Owning, Waits, Ends, Listens, Transfers, Reporting, FieldNames

\* Another one.
LEMMA DiagAtCoherent ==
  ASSUME NEW s, Sound(s), NEW r
  PROVE Sound([s EXCEPT !.diag_at = r])
BY FieldsAre DEF Shaped, Sound, Settled, Owning, Waits, Ends, Listens, Transfers, Reporting, FieldNames

\* CmdReadDiagnostic, in every phase it is called in.
LEMMA ReadDiagnosticHandled ==
  ASSUME NEW s, s.command.op = "ReadDiagnostic",
         \/ Begins(s) \/ HasParameters(s) \/ TransferEnds(s)
         \/ Running(s) /\ s.phase \in {"execute", "timer", "execread"}
  PROVE Sound(CmdReadDiagnostic(s))
<1>0. s.command.op \in SectorCommands /\ s.command.op \in WithParameters /\ s.command.op \in Timed
  BY DEF SectorCommands, WithParameters, Timed
<1>1. CASE Begins(s)
  <2>1. Sound(ShiftToCommandPhase(s, 8))
    BY <1>1, <1>0, ToCommandPhase DEF Begins
  <2>2. Sound([ShiftToCommandPhase(s, 8) EXCEPT !.diag_at = 0])
    BY <2>1, DiagAtCoherent
  <2> QED BY <1>1, <2>2 DEF Begins, CmdReadDiagnostic
<1>2. CASE HasParameters(s)
  <2>1. Busy(s) /\ s.phase = "command" /\ DOMAIN s = FieldNames
    BY <1>2, <1>0 DEF HasParameters, Busy, Quiet, Shaped
  <2>2. Busy(GetSectorParameters(s)) /\ GetSectorParameters(s).command.op \in SectorCommands
    BY <2>1, <1>0, ParametersLines, SameBusy DEF SameLines
  <2>3. Sound(SetTimer(GetSectorParameters(s), "execute"))
    BY <2>2, SectorTimer
  <2> QED BY <2>1, <2>3 DEF CmdReadDiagnostic
<1>3. CASE TransferEnds(s)
  <2>1. Sound(ShiftToResultPhase7(DelTimer(s)))
    BY <1>3, DelTimerQuiet, ToResultPhase7 DEF TransferEnds
  <2> QED BY <1>3, <2>1 DEF CmdReadDiagnostic, TransferEnds
<1>4. CASE Running(s) /\ s.phase = "execute"
  <2> DEFINE d == ReadDiagnostic(s)
  <2>1. Quiet(d) /\ d.command = s.command /\ d.handle # "stale"
    <3>1. Quiet(s) /\ s.handle # "stale"
      BY <1>4 DEF Running, Busy
    <3>2. ASSUME NEW u, Quiet(u), u.command = s.command, u.handle # "stale", NEW r
          PROVE Quiet(Fails(u, r)) /\ Fails(u, r).command = s.command /\ Fails(u, r).handle # "stale"
      <4>1. Fails(u, r).command = u.command /\ Fails(u, r).handle = u.handle
        <5> DEFINE count == Least(7, Few)
        <5> HIDE DEF count
        <5> QED BY <3>2 DEF Quiet, Shaped, Fails, ShiftToResultPhase7, ShiftToResultPhase, Intr,
                            FieldNames, count
      <4> QED BY <4>1, <3>2, FailsQuiet
    <3>3. CASE \E r : d = Fails(s, r)
      BY <3>1, <3>2, <3>3
    <3>4. CASE \E u, r : SameLines(s, u) /\ d = Fails(u, r)
      <4>1. PICK u, r : SameLines(s, u) /\ d = Fails(u, r)
        BY <3>4
      <4>2. Quiet(u) /\ u.command = s.command /\ u.handle # "stale"
        BY <4>1, <3>1, SameQuiet DEF SameLines
      <4> QED BY <4>1, <4>2, <3>2
    <3>5. CASE SameLines(s, d)
      BY <3>1, <3>5, SameQuiet DEF SameLines
    <3> QED BY <3>1, <3>3, <3>4, <3>5, DiagnosticLines
  <2> HIDE DEF d
  <2>2. Sound(ShiftToResultPhase7(d)) /\ Sound(ShiftToExecReadPhase(d, Bytes(d.id.n)))
    BY <2>1, ToResultPhase7, ToReadPhase
  <2>3. Sound([ShiftToExecReadPhase(d, Bytes(d.id.n)) EXCEPT !.rest = Wraps(d)])
    BY <2>2, RestCoherent
  <2>4. Sound(DiagToRead(d))
    BY <2>2, <2>3 DEF DiagToRead
  <2> QED BY <1>4, <2>4 DEF CmdReadDiagnostic, d
<1>5. CASE Running(s) /\ s.phase = "timer"
  <2>1. Sound(Fails(s, {"AT", "EN"}))
    BY <1>5, ToFailurePhase DEF Running, Busy
  <2> QED BY <1>5, <2>1 DEF CmdReadDiagnostic
<1>6. CASE Running(s) /\ s.phase = "execread"
  <2>1. Sound(ShiftToExecReadPhase(s, Bytes(s.id.n))) /\ Sound(NextSector(s))
    BY <1>6, <1>0, ToReadPhase, NextAwaited DEF Running, Busy
  <2>2. Sound([ShiftToExecReadPhase(s, Bytes(s.id.n)) EXCEPT !.rest = FALSE])
    BY <2>1, RestCoherent
  <2> QED BY <1>6, <2>1, <2>2 DEF CmdReadDiagnostic
<1> QED BY <1>1, <1>2, <1>3, <1>4, <1>5, <1>6

\* A seek begins, or is answered at once for a drive that is not there.
LEMMA SeekLeads ==
  ASSUME NEW s, Quiet(s), NEW dr \in Addresses, NEW cy
  PROVE Sound(ShiftToIdlePhase(SeekTo(s, dr, cy)))
<1> DEFINE t == [s EXCEPT !.us = dr, !.dresult[dr] = {"SE", "NR", "AT"}, !.intr = TRUE, !.int_requested = TRUE]
           u == [s EXCEPT !.us = dr, !.cylinder[dr] = cy, !.seeks[dr] = @ + 1, !.seek_state = @ \union {dr}]
<1>1. Quiet(t)
  BY DEF Quiet, Shaped, Reporting, FieldNames
<1>2. SameLines(s, u)
  BY DEF Quiet, Shaped, SameLines, FieldNames
<1> HIDE DEF t, u
<1>3. Sound(ShiftToIdlePhase(t)) /\ Sound(ShiftToIdlePhase(u))
  BY <1>1, <1>2, SameQuiet, ToIdlePhase
<1>4. SeekTo(s, dr, cy) \in {t, u}
  BY DEF SeekTo, t, u
<1> QED BY <1>3, <1>4

\* CmdSeek and CmdRecalibrate.
LEMMA SeekHandled ==
  ASSUME NEW s, s.command.op \in {"Seek", "Recalibrate"},
         Begins(s) \/ (HasParameters(s) /\ s.buffer.us \in Addresses)
  PROVE Sound(CmdSeek(s)) /\ Sound(CmdRecalibrate(s))
<1>0. s.command.op \in WithParameters
  BY DEF WithParameters
<1>1. CASE Begins(s)
  BY <1>1, <1>0, ToCommandPhase DEF Begins, CmdSeek, CmdRecalibrate
<1>2. CASE HasParameters(s) /\ s.buffer.us \in Addresses
  BY <1>2, SeekLeads DEF HasParameters, CmdSeek, CmdRecalibrate
<1> QED BY <1>1, <1>2

\* CmdSpecify.
LEMMA SpecifyHandled ==
  ASSUME NEW s, s.command.op = "Specify", Begins(s) \/ HasParameters(s)
  PROVE Sound(CmdSpecify(s))
<1>0. s.command.op \in WithParameters
  BY DEF WithParameters
<1> QED BY <1>0, ToCommandPhase, ToIdlePhase DEF Begins, HasParameters, CmdSpecify

\* CmdSenceDeviceStatus.
LEMMA SenceDeviceHandled ==
  ASSUME NEW s, s.command.op = "SenceDeviceStatus", Begins(s) \/ HasParameters(s)
  PROVE Sound(CmdSenceDeviceStatus(s))
<1>0. s.command.op \in WithParameters
  BY DEF WithParameters
<1>1. CASE Begins(s)
  BY <1>0, <1>1, ToCommandPhase DEF Begins, CmdSenceDeviceStatus
<1>2. CASE HasParameters(s)
  <2> DEFINE t == [s EXCEPT !.us = s.buffer.us]
  <2>1. SameLines(s, t)
    BY <1>2 DEF HasParameters, Quiet, Shaped, SameLines, FieldNames
  <2> HIDE DEF t
  <2>2. Sound(ShiftToResultPhase(t, 1))
    BY <1>2, <2>1, SameQuiet, ToResultPhase DEF HasParameters
  <2> QED BY <1>2, <2>2 DEF HasParameters, CmdSenceDeviceStatus, t
<1> QED BY <1>1, <1>2

\* A set of numbers has a least one.
LEMMA LeastIs == ASSUME NEW T, T \subseteq Nat, T # {} PROVE Min(T) \in T
<1> DEFINE R == OpToRel(<, Nat)
<1>1. IsWellFoundedOn(R, Nat)
  BY NatLessThanWellFounded
<1>2. \A a, b \in Nat : a < b => <<a, b>> \in R
  BY DEF OpToRel
<1> HIDE DEF R
<1>3. PICK x \in T : \A y \in T : <<y, x>> \notin R
  BY <1>1, WFMin
<1>4. \A y \in T : ~(y < x)
  BY <1>2, <1>3
<1>5. \A y \in T : x <= y
  BY <1>4
<1> QED BY <1>5 DEF Min

\* CmdSenceIntStatus takes one drive's result, and a request stays for the others.
LEMMA SenceIntHandled ==
  ASSUME NEW s, Quiet(s)
  PROVE Sound(CmdSenceIntStatus(s))
<1> DEFINE reporting == {dr \in Addresses : s.dresult[dr] # {}}
           i == Min(reporting)
           more == reporting # {i}
           t == [s EXCEPT !.dresult[i] = {}, !.int_requested = more]
<1>1. CASE ~s.int_requested
  <2>1. Sound(ShiftToResultPhase(s, 1))
    BY ToResultPhase
  <2> QED BY <1>1, <2>1 DEF CmdSenceIntStatus
<1>2. CASE s.int_requested
  <2>1. reporting # {}
    BY <1>2 DEF Quiet, Reporting
  <2>2. i \in reporting
    <3>1. reporting \subseteq Nat
      BY DEF Addresses
    <3> HIDE DEF reporting
    <3> QED BY <2>1, <3>1, LeastIs
  <2> HIDE DEF i
  <2>3. more => \E dr \in Addresses : dr # i /\ s.dresult[dr] # {}
    BY <2>2
  <2>4. more \in BOOLEAN
    OBVIOUS
  <2> HIDE DEF more
  <2>5. Quiet(t)
    BY <2>2, <2>3 DEF Quiet, Shaped, Reporting, FieldNames
  <2>6. CmdSenceIntStatus(s) = ShiftToResultPhase(t, 2)
    BY <1>2, <2>1 DEF CmdSenceIntStatus, i, more
  <2> HIDE DEF t
  <2>7. Sound(ShiftToResultPhase(t, 2))
    BY <2>5, ToResultPhase
  <2> QED BY <2>6, <2>7
<1> QED BY <1>1, <1>2

-----------------------------------------------------------------------------
\* Any handler, called with its command.
LEMMA CommandBegins ==
  ASSUME NEW s, Begins(s)
  PROVE Sound(CommandTable(s))
<1>1. /\ s.command.op = "ReadData" => Sound(CmdReadData(s))
      /\ s.command.op = "WriteData" => Sound(CmdWriteData(s))
      /\ s.command.op = "Scan" => Sound(CmdScanEqual(s))
      /\ s.command.op = "ReadID" => Sound(CmdReadID(s))
      /\ s.command.op = "WriteID" => Sound(CmdWriteID(s))
      /\ s.command.op = "ReadDiagnostic" => Sound(CmdReadDiagnostic(s))
  BY ReadDataHandled, WriteDataHandled, ScanHandled, ReadIDHandled, WriteIDHandled,
     ReadDiagnosticHandled
<1>2. /\ s.command.op = "Seek" => Sound(CmdSeek(s))
      /\ s.command.op = "Recalibrate" => Sound(CmdRecalibrate(s))
      /\ s.command.op = "Specify" => Sound(CmdSpecify(s))
      /\ Sound(CmdSenceIntStatus(s))
      /\ s.command.op = "SenceDeviceStatus" => Sound(CmdSenceDeviceStatus(s))
      /\ Sound(CmdInvalid(s))
  BY SeekHandled, SpecifyHandled, SenceIntHandled, SenceDeviceHandled, ToResultPhase DEF Begins, CmdInvalid
<1> QED BY <1>1, <1>2 DEF CommandTable

\* Any handler, called with its parameters.
LEMMA CommandHasParameters ==
  ASSUME NEW s, HasParameters(s), s.command.op \in WithParameters, s.buffer.us \in Addresses
  PROVE Sound(CommandTable(s))
<1>1. /\ s.command.op = "ReadData" => Sound(CmdReadData(s))
      /\ s.command.op = "WriteData" => Sound(CmdWriteData(s))
      /\ s.command.op = "Scan" => Sound(CmdScanEqual(s))
      /\ s.command.op = "ReadID" => Sound(CmdReadID(s))
      /\ s.command.op = "WriteID" => Sound(CmdWriteID(s))
      /\ s.command.op = "ReadDiagnostic" => Sound(CmdReadDiagnostic(s))
  BY ReadDataHandled, WriteDataHandled, ScanHandled, ReadIDHandled, WriteIDHandled,
     ReadDiagnosticHandled
<1>2. /\ s.command.op = "Seek" => Sound(CmdSeek(s))
      /\ s.command.op = "Recalibrate" => Sound(CmdRecalibrate(s))
      /\ s.command.op = "Specify" => Sound(CmdSpecify(s))
      /\ s.command.op = "SenceDeviceStatus" => Sound(CmdSenceDeviceStatus(s))
  BY SeekHandled, SpecifyHandled, SenceDeviceHandled
<1> QED BY <1>1, <1>2 DEF CommandTable, WithParameters, SectorCommands

\* Handlers called by the timer or by the last byte of a transfer.
LEMMA CommandGoesOn ==
  ASSUME NEW s, Running(s),
         \/ s.phase = "execute" /\ s.command.op # "WriteID"
         \/ s.phase = "timer"
         \/ s.phase = "execread" /\ s.command.op \in {"ReadData", "ReadDiagnostic"}
         \/ s.phase = "execwrite" /\ s.command.op \in {"WriteData", "WriteID"}
         \/ s.phase = "execscan" /\ s.command.op = "Scan",
         s.command.op = "ReadID" => ~s.accept_tc
  PROVE Sound(CommandTable(s))
<1>1. /\ s.command.op = "ReadData" => Sound(CmdReadData(s))
      /\ s.command.op = "WriteData" => Sound(CmdWriteData(s))
      /\ s.command.op = "Scan" => Sound(CmdScanEqual(s))
      /\ s.command.op = "ReadID" => Sound(CmdReadID(s))
      /\ s.command.op = "WriteID" => Sound(CmdWriteID(s))
      /\ s.command.op = "ReadDiagnostic" => Sound(CmdReadDiagnostic(s))
  BY ReadDataHandled, WriteDataHandled, ScanHandled, ReadIDHandled, WriteIDHandled,
     ReadDiagnosticHandled DEF Running, Busy
<1>2. s.command.op \in {"ReadData", "WriteData", "Scan", "ReadID", "WriteID", "ReadDiagnostic"}
  BY DEF Running, Busy, Timed, SectorCommands
<1> QED BY <1>1, <1>2 DEF CommandTable

\* CmdWriteID after its parameters, by whatever it is called.
LEMMA WriteIDMoves ==
  ASSUME NEW s, s.command.op = "WriteID", Quiet(s),
         ("RQM" \notin s.status /\ s.phase = "execwrite") \/ s.phase \in {"tc", "timer"}
  PROVE Sound(CommandTable(s))
<1>1. Sound(CmdWriteID(s))
  BY WriteIDHandled
<1> QED BY <1>1 DEF CommandTable

\* Handlers of the commands on sectors, called by TC.
LEMMA TransferStops ==
  ASSUME NEW s, s.command.op \in SectorCommands, TransferEnds(s)
  PROVE Sound(CommandTable(s))
<1>1. /\ s.command.op = "ReadData" => Sound(CmdReadData(s))
      /\ s.command.op = "WriteData" => Sound(CmdWriteData(s))
      /\ s.command.op = "Scan" => Sound(CmdScanEqual(s))
      /\ s.command.op = "ReadDiagnostic" => Sound(CmdReadDiagnostic(s))
  BY ReadDataHandled, WriteDataHandled, ScanHandled, ReadDiagnosticHandled
<1> QED BY <1>1 DEF CommandTable, SectorCommands

\* A byte of a transfer has moved: the next is asked for, or the handler is called.
LEMMA MovedKeeps ==
  ASSUME NEW s, Quiet(s), "RQM" \notin s.status, Transfers(s), Owning(s)
  PROVE Sound(Moved(s))
<1> DEFINE t == [s EXCEPT !.count = @ - 1, !.status = @ \union {"RQM"}, !.intr = TRUE]
           u == [s EXCEPT !.count = 0, !.status = @ \ {"NDM"}]
<1>1. Sound(t)
  BY FieldsAre DEF Sound, Settled, Owning, Listens, Transfers, Quiet, Shaped, Reporting, FieldNames
<1>2. /\ Quiet(u) /\ "RQM" \notin u.status /\ u.phase = s.phase /\ u.command = s.command
      /\ u.handle = s.handle
  BY DEF Quiet, Shaped, Reporting, FieldNames
<1> HIDE DEF t, u
<1>3. CASE s.command.op = "WriteID"
  <2>1. Sound(CommandTable(u))
    BY <1>2, <1>3, WriteIDMoves DEF Transfers
  <2> QED BY <1>1, <2>1 DEF Moved, t, u
<1>4. CASE s.command.op # "WriteID"
  <2>1. s.command.op \in SectorCommands
    BY <1>4 DEF Transfers, SectorCommands
  <2>2. Running(u) /\ u.command.op # "ReadID"
    BY <2>1, <1>2 DEF Running, Busy, Timed, SectorCommands, Owning, Transfers
  <2>3. Sound(CommandTable(u))
    BY <2>2, <1>2, CommandGoesOn DEF Transfers
  <2> QED BY <1>1, <2>3 DEF Moved, t, u
<1> QED BY <1>3, <1>4

\* Access to the data register takes the request back.
LEMMA TakenIs ==
  ASSUME NEW s, DOMAIN s = FieldNames
  PROVE /\ DOMAIN Taken(s) = FieldNames /\ Taken(s).phase = s.phase /\ Taken(s).timers = s.timers
        /\ Taken(s).status = s.status \ {"RQM"} /\ Taken(s).handle = s.handle
        /\ Taken(s).accept_tc = s.accept_tc /\ Taken(s).command = s.command
        /\ Taken(s).int_requested = s.int_requested /\ Taken(s).dresult = s.dresult
        /\ Taken(s).buffer = s.buffer /\ Taken(s).t_phase = s.t_phase
BY DEF Taken, FieldNames

\* What Settled says for the handlers: no timer, and they are Quiet.
LEMMA CoherentIs ==
  ASSUME NEW s, Sound(s)
  PROVE /\ Shaped(s) /\ Reporting(s, Addresses)
        /\ s.timers \in {<<>>, <<"execute">>, <<"timer">>}
        /\ s.handle = "own" <=> s.timers # <<>>
        /\ s.timers = <<>> => Quiet(s)
BY FieldsAre DEF Sound, Settled, Owning, Shaped, Waits, Ends, Listens, Quiet

\* One lemma for each action: a command,
LEMMA CommandGiven ==
  ASSUME Sound(fdc), GiveCommand
  PROVE Sound(fdc')
<1>1. PICK c \in Commands : fdc.phase = "idle" /\ "RQM" \in fdc.status
                           /\ fdc' = [SetCommand(fdc, c) EXCEPT !.given = @ + 1]
  BY DEF GiveCommand, Accepts
<1>2. fdc.timers = <<>> /\ ~fdc.accept_tc
  BY <1>1 DEF Sound, Settled, Owning, Waits, Ends, Listens, Transfers
<1>3. Quiet(fdc) /\ DOMAIN fdc = FieldNames
  BY <1>2, CoherentIs DEF Shaped
<1> DEFINE t == [Taken(fdc) EXCEPT !.command = c]
<1>4. Begins(t)
  BY <1>1, <1>2, <1>3, TakenIs DEF Begins, Quiet, Shaped, Reporting, FieldNames
<1> HIDE DEF t
<1>5. Sound(SetCommand(fdc, c))
  BY <1>4, CommandBegins DEF SetCommand, t
<1> DEFINE u == SetCommand(fdc, c)
<1> HIDE DEF u
<1>6. Sound([u EXCEPT !.given = @ + 1])
  BY <1>5, FieldsAre DEF u, Shaped, Sound, Settled, Owning, Waits, Ends, Listens, Transfers, Reporting, FieldNames
<1> QED BY <1>1, <1>6 DEF u

\* a parameter,
LEMMA ParameterGiven ==
  ASSUME Sound(fdc), GiveParameter
  PROVE Sound(fdc')
<1>1. PICK p \in Parameters : /\ fdc.phase = "command" /\ "RQM" \in fdc.status
                              /\ "DIO" \notin fdc.status /\ fdc' = SetParameter(fdc, p)
  BY DEF GiveParameter, Accepts
<1>2. fdc.timers = <<>> /\ ~fdc.accept_tc /\ fdc.command.op \in WithParameters
  BY <1>1 DEF Sound, Settled, Owning, Waits, Ends, Listens, Transfers
<1>3. Quiet(fdc) /\ DOMAIN fdc = FieldNames
  BY <1>2, CoherentIs DEF Shaped
<1> DEFINE u == Taken(fdc)
           t == [u EXCEPT !.count = @ - 1, !.status = @ \union {"RQM"}]
           v == [u EXCEPT !.count = 0, !.buffer = p]
<1>4. /\ Quiet(u) /\ u.phase = "command" /\ u.command = fdc.command /\ ~u.accept_tc
      /\ "RQM" \notin u.status /\ "DIO" \notin u.status
  BY <1>1, <1>2, <1>3, TakenIs DEF Quiet, Shaped, Reporting
<1> HIDE DEF u
<1>5. Sound(t)
  BY <1>2, <1>4, FieldsAre DEF Sound, Settled, Owning, Listens, Quiet, Shaped, Reporting, FieldNames
<1>6. HasParameters(v) /\ v.command = fdc.command /\ v.buffer = p
  BY <1>4 DEF HasParameters, Quiet, Shaped, Reporting, FieldNames
<1>7. p.us \in Addresses
  BY FdcAssumption
<1> HIDE DEF t, v
<1>8. Sound(CommandTable(v))
  BY <1>2, <1>6, <1>7, CommandHasParameters
<1> QED BY <1>1, <1>5, <1>8 DEF SetParameter, t, u, v

\* a byte of data, late or not,
LEMMA DataGiven ==
  ASSUME Sound(fdc), GiveData
  PROVE Sound(fdc')
<1>1. PICK d : /\ fdc.phase \notin {"idle", "command"} /\ "RQM" \in fdc.status /\ "DIO" \notin fdc.status
               /\ fdc' = SetData(fdc, d)
  BY DEF GiveData, Accepts
<1> DEFINE u == Taken(fdc)
<1>0. DOMAIN fdc = FieldNames /\ Shaped(fdc)
  BY CoherentIs DEF Shaped
<1>2. CASE Ends(fdc)
  <2>1. fdc' = u
    BY <1>1, <1>2 DEF SetData, Ends
  <2>2. Sound(u)
    <3>1. Ends(u)
      BY <1>0, <1>2, TakenIs DEF Ends
    <3> QED BY <1>0, <3>1, TakenIs, FieldsAre DEF Sound, Settled, Owning, Shaped, Reporting, Ends
  <2> QED BY <2>1, <2>2
<1>3. CASE ~Ends(fdc)
  <2>1. fdc.timers = <<>> /\ Transfers(fdc) /\ fdc.phase # "tc"
    BY <1>1, <1>3 DEF Sound, Settled, Owning, Waits, Listens, Transfers
  <2>2. Quiet(fdc)
    BY <2>1, CoherentIs
  <2>3. Quiet(u) /\ "RQM" \notin u.status /\ Transfers(u) /\ Owning(u)
    BY <1>0, <1>1, <2>1, <2>2, TakenIs DEF Quiet, Shaped, Reporting, Transfers, Sound, Settled, Owning
  <2> HIDE DEF u
  <2> DEFINE a == [u EXCEPT !.buffer = Append(@, d)]
             b == [u EXCEPT !.result = @ \ {"SH"}]
  <2>4. /\ Quiet(a) /\ "RQM" \notin a.status /\ Transfers(a) /\ Owning(a)
        /\ Quiet(b) /\ "RQM" \notin b.status /\ Transfers(b) /\ Owning(b)
    <3> DEFINE q == Append(u.buffer, d)
               r == u.result \ {"SH"}
    <3> HIDE DEF q, r
    <3>1. /\ a = [u EXCEPT !.buffer = q] /\ b = [u EXCEPT !.result = r]
          /\ DOMAIN u = FieldNames
      BY <2>3 DEF Quiet, Shaped, FieldNames, q, r
    <3>2. SameLines(u, a) /\ a.phase = u.phase /\ SameLines(u, b) /\ b.phase = u.phase
      BY <3>1 DEF SameLines, FieldNames
    <3> QED BY <2>3, <3>2, SameQuiet DEF SameLines, Transfers, Owning
  <2> HIDE DEF a, b
  <2>5. Sound(Moved(a)) /\ Sound(Moved(b)) /\ Sound(Moved(u))
    BY <2>3, <2>4, MovedKeeps
  <2>6. fdc' \in {Moved(a), Moved(b), Moved(u)}
    BY <1>1, <2>1 DEF SetData, Compared, Transfers, a, b, u
  <2> QED BY <2>5, <2>6
<1> QED BY <1>2, <1>3

\* a byte of data or of the result taken,
LEMMA DataTaken ==
  ASSUME Sound(fdc), TakeData
  PROVE Sound(fdc')
<1>0. "RQM" \in fdc.status /\ "DIO" \in fdc.status /\ fdc' = GetData(fdc)
  BY DEF TakeData
<1> DEFINE u == Taken(fdc)
<1>1. CASE Ends(fdc)
  <2>1. Shaped(fdc) /\ DOMAIN fdc = FieldNames /\ fdc' = u
    BY <1>0, <1>1, CoherentIs DEF GetData, Ends, Shaped
  <2>2. Ends(u)
    BY <1>1, <2>1, TakenIs DEF Ends
  <2>3. Sound(u)
    BY <2>1, <2>2, TakenIs DEF Sound, Settled, Owning, Reporting, Shaped
  <2> QED BY <2>1, <2>3
<1>2. ASSUME ~Ends(fdc) PROVE Quiet(fdc) /\ DOMAIN fdc = FieldNames /\ fdc.phase \in {"execread", "result"}
  <2>1. Listens(fdc)
    BY <1>0, <1>2 DEF Sound, Settled, Waits
  <2>2. fdc.timers = <<>> /\ fdc.phase \in {"execread", "result"}
    BY <1>0, <2>1 DEF Listens, Transfers
  <2> QED BY <2>2, CoherentIs DEF Shaped
<1>4. ASSUME ~Ends(fdc) PROVE Quiet(u) /\ "RQM" \notin u.status /\ u.phase = fdc.phase
  BY <1>2, <1>4, TakenIs DEF Quiet, Shaped, Reporting
<1>5. CASE ~Ends(fdc) /\ fdc.phase = "execread"
  <2>1. Transfers(u) /\ Owning(u)
    BY <1>0, <1>2, <1>5, TakenIs DEF Sound, Settled, Owning, Waits, Listens, Transfers
  <2> HIDE DEF u
  <2>2. Sound(Moved(u))
    BY <1>4, <1>5, <2>1, MovedKeeps
  <2> QED BY <1>0, <1>5, <2>2 DEF GetData, u
<1>6. CASE ~Ends(fdc) /\ fdc.phase = "result"
  <2> DEFINE t == [u EXCEPT !.count = @ - 1, !.status = @ \union {"RQM"}]
             v == [u EXCEPT !.count = 0]
  <2>1. ~u.accept_tc /\ "DIO" \in u.status
    BY <1>0, <1>2, <1>6, TakenIs DEF Sound, Settled, Owning, Waits, Ends, Listens, Transfers
  <2> HIDE DEF u
  <2>2. Sound(t)
    BY <1>4, <1>6, <2>1, FieldsAre DEF Sound, Settled, Owning, Listens, Quiet, Shaped, Reporting, FieldNames
  <2>3. Quiet(v)
    BY <1>4, <1>6 DEF Quiet, Shaped, Reporting, FieldNames
  <2> HIDE DEF t, v
  <2>4. Sound(ShiftToIdlePhase(v))
    BY <2>3, ToIdlePhase
  <2> QED BY <1>0, <1>6, <2>2, <2>4 DEF GetData, GetResult, u, t, v
<1> QED BY <1>1, <1>2, <1>5, <1>6

\* TC, also while the drive is waited for,
LEMMA TransferEnded ==
  ASSUME Sound(fdc), EndTransfer
  PROVE Sound(fdc')
<1>a. PICK slot \in InSlot(fdc) :
        fdc.accept_tc /\ fdc' = [TC([fdc EXCEPT !.slot = slot]) EXCEPT !.slot = {}]
  BY DEF EndTransfer
<1> DEFINE t == [fdc EXCEPT !.slot = slot, !.prev_phase = fdc.phase, !.phase = "tc", !.accept_tc = FALSE]
           c == CommandTable(t)
<1>1. fdc.accept_tc /\ fdc' = [c EXCEPT !.slot = {}]
  <2>1. TC([fdc EXCEPT !.slot = slot]) = c
    BY CoherentIs DEF TC, Shaped, FieldNames
  <2> HIDE DEF c
  <2> QED BY <1>a, <2>1
<1>b. ASSUME Sound(c) PROVE Sound(fdc')
  <2> HIDE DEF c
  <2>1. SameLines(c, [c EXCEPT !.slot = {}])
    BY <1>b DEF SameLines, Sound, Shaped, FieldNames
  <2>2. [c EXCEPT !.slot = {}].phase = c.phase
    BY <1>b DEF Sound, Shaped, FieldNames
  <2> QED BY <1>1, <1>b, <2>1, <2>2, SameSound
<1>0. /\ Shaped(fdc) /\ Reporting(fdc, Addresses) /\ fdc.timers \in {<<>>, <<"execute">>, <<"timer">>}
      /\ fdc.timers = <<>> => Quiet(fdc)
  BY CoherentIs
<1>2. fdc.handle = "own" <=> fdc.timers # <<>>
  BY CoherentIs
<1>3. /\ t.phase = "tc" /\ Shaped(t) /\ Reporting(t, Addresses) /\ t.timers = fdc.timers
      /\ t.handle = fdc.handle /\ t.command = fdc.command
  BY <1>0 DEF Shaped, Reporting, FieldNames
<1> HIDE DEF t
<1>4. CASE fdc.command.op \in SectorCommands
  <2>1. TransferEnds(t)
    BY <1>0, <1>2, <1>3 DEF TransferEnds
  <2>2. Sound(CommandTable(t))
    BY <1>3, <1>4, <2>1, TransferStops
  <2> QED BY <1>b, <2>2
<1>5. CASE fdc.command.op \notin SectorCommands
  <2>1. fdc.command.op = "WriteID" /\ fdc.timers = <<>>
    BY <1>1, <1>5 DEF Sound, Settled, Owning, Waits, Ends, Listens, Transfers, SectorCommands
  <2>2. Quiet(t)
    BY <1>0, <1>3, <2>1 DEF Quiet
  <2>3. Sound(CommandTable(t))
    BY <1>3, <2>1, <2>2, WriteIDMoves
  <2> QED BY <1>b, <2>3
<1> QED BY <1>4, <1>5

\* Reset, which leaves the handle of a timer that is gone,
LEMMA ResetDone ==
  ASSUME Shaped(fdc), ResetFdc
  PROVE Sound(fdc')
<1> DEFINE h == IF fdc.handle = "own" THEN "stale" ELSE fdc.handle
           none == [dr \in Addresses |-> 0]
<1>1. fdc' = [DriveControl(ShiftToIdlePhase(fdc), {}) EXCEPT
     !.int_requested = FALSE, !.intr = FALSE, !.timers = <<>>, !.seeks = none, !.handle = h]
  BY DEF ResetFdc, Reset, DriveControl, ShiftToIdlePhase, Shaped, FieldNames
<1>2. h # "own"
  OBVIOUS
<1> HIDE DEF h, none
<1> QED BY <1>1, <1>2, FieldsAre
        DEF DriveControl, ShiftToIdlePhase, Sound, Settled, Owning, Listens, Shaped, Reporting, FieldNames

\* the timer,
LEMMA TimerFired ==
  ASSUME Sound(fdc), TimerFires
  PROVE Sound(fdc')
<1>1. PICK i \in DOMAIN fdc.timers, ids \in IDsLeft(fdc) :
        fdc' = PhaseTimer([fdc EXCEPT !.buffer = ids], i)
  BY DEF TimerFires
<1>2. fdc.timers \in {<<"execute">>, <<"timer">>}
  BY <1>1, CoherentIs
<1>3. i = 1
  BY <1>1, <1>2
<1> DEFINE t == [fdc EXCEPT !.buffer = ids, !.handle = "null", !.timers = RemoveAt(@, 1),
                   !.phase = fdc.timers[1]]
<1>4. fdc' = CommandTable(t)
  BY <1>1, <1>3, CoherentIs DEF PhaseTimer, Shaped, FieldNames
<1>5. Shaped(fdc) /\ Reporting(fdc, Addresses)
  BY CoherentIs
<1>6. RemoveAt(fdc.timers, 1) = <<>>
  BY <1>2, OneTimer
<1>7. /\ Quiet(t) /\ t.phase = fdc.timers[1] /\ t.command = fdc.command /\ t.status = fdc.status
      /\ t.accept_tc = fdc.accept_tc /\ t.handle = "null"
  BY <1>5, <1>6 DEF Quiet, Shaped, Reporting, FieldNames
<1> HIDE DEF t
<1>8. CASE fdc.command.op = "WriteID"
  <2>1. fdc.timers = <<"timer">>
    BY <1>2, <1>8 DEF Sound, Settled, Owning, Waits, Ends, Listens, SectorCommands
  <2>2. t.phase = "timer"
    BY <2>1, <1>7
  <2>3. Sound(CommandTable(t))
    BY <1>7, <1>8, <2>2, WriteIDMoves
  <2> QED BY <1>4, <2>3
<1>9. CASE fdc.command.op # "WriteID"
  <2>1. Waits(fdc)
    BY <1>2, <1>9 DEF Sound, Settled, Owning, Ends, Listens
  <2>2. Running(t)
    BY <1>7, <1>9, <2>1 DEF Running, Busy, Waits, Timed
  <2>3. t.phase \in {"execute", "timer"} /\ (t.command.op = "ReadID" => ~t.accept_tc)
    BY <1>2, <1>7, <2>1 DEF Waits, SectorCommands
  <2>4. Sound(CommandTable(t))
    BY <1>7, <1>9, <2>2, <2>3, CommandGoesOn
  <2> QED BY <1>4, <2>4
<1> QED BY <1>8, <1>9

\* the end of a seek,
LEMMA SeekEnded ==
  ASSUME Sound(fdc), SeekDone
  PROVE Sound(fdc')
<1>1. PICK dr \in Drives : fdc' = SeekEvent(fdc, dr)
  BY DEF SeekDone
<1>2. dr \in Addresses /\ Shaped(fdc)
  BY FdcAssumption, CoherentIs
<1> QED BY <1>1, <1>2, FieldsAre
        DEF SeekEvent, Sound, Settled, Owning, Waits, Ends, Listens, Transfers, Shaped, Reporting, FieldNames

\* and a snapshot that does not mislead the controller.
LEMMA SnapshotLoaded ==
  ASSUME Shaped(fdc), LoadSnapshot, ~misled'
  PROVE Sound(fdc')
<1>1. PICK p \in Paused : /\ fdc' = LoadStatus(fdc, SaveStatus(p.at))
                          /\ ~p.misled /\ ~Misleads(fdc, p.at)
  BY DEF LoadSnapshot
<1> DEFINE s == p.at
           saved == SaveStatus(s)
           t == LoadStatus(fdc, saved)
<1>2. Sound(s) /\ Reporting(s, Drives) /\ Owning(t) /\ (s.handle # "own" => saved.t_phase = "idle")
  BY <1>1, FdcAssumption, FieldsAre DEF Misleads, Placed, Sound, Shaped
<1> HIDE DEF s
<1>3. Shaped(s) /\ (s.handle = "own" <=> s.timers # <<>>)
  BY <1>2, CoherentIs
<1>4. /\ DOMAIN saved = FieldNames /\ saved.dresult = [dr \in Drives |-> s.dresult[dr]]
      /\ saved.phase = s.phase /\ saved.status = s.status /\ saved.command = s.command
      /\ saved.accept_tc = s.accept_tc /\ saved.int_requested = s.int_requested
      /\ saved.t_phase = IF s.handle = "null" THEN "idle" ELSE s.t_phase
  BY <1>3 DEF SaveStatus, Shaped, FieldNames
<1>5. /\ s.timers = <<>> => saved.t_phase = "idle"
      /\ s.timers # <<>> => saved.t_phase # "idle" /\ s.timers = <<saved.t_phase>>
  <2>1. s.timers # <<>> => s.timers \in {<<"execute">>, <<"timer">>} /\ s.timers = <<s.t_phase>>
    BY <1>2, CoherentIs DEF Sound, Settled
  <2> QED BY <1>2, <1>3, <1>4, <2>1, OneTimer
<1> HIDE DEF saved
<1> DEFINE timers == IF saved.t_phase = "idle" THEN <<>> ELSE <<saved.t_phase>>
           h == IF saved.t_phase # "idle" THEN "own" ELSE IF fdc.handle = "own" THEN "stale" ELSE fdc.handle
           seeks == [dr \in Addresses |-> IF dr \in saved.seek_state \cap Drives THEN 1 ELSE 0]
           both == [dr \in Addresses |-> IF dr \in Drives THEN saved.dresult[dr] ELSE fdc.dresult[dr]]
           unit == [dr \in Drives |-> saved.cylinder[dr]]
           u == [saved EXCEPT !.disk = fdc.disk, !.intr = fdc.intr, !.given = fdc.given + 1,
                   !.timers = timers, !.handle = h, !.seeks = seeks, !.dresult = both, !.unit = unit]
<1>6. t = u
  BY DEF LoadStatus
<1>7. DOMAIN both = Addresses /\ \A dr \in Drives : both[dr] = s.dresult[dr]
  <2>1. Drives \subseteq Addresses
    BY FdcAssumption
  <2> QED BY <2>1, <1>3, <1>4 DEF Shaped
<1>8. timers = s.timers /\ (h = "own" <=> s.timers # <<>>)
  BY <1>5
<1> HIDE DEF timers, h, seeks, both, unit
<1>9. /\ DOMAIN u = FieldNames /\ u.timers = timers /\ u.dresult = both /\ u.handle = h
      /\ u.phase = s.phase /\ u.status = s.status /\ u.command = s.command
      /\ u.accept_tc = s.accept_tc /\ u.int_requested = s.int_requested /\ u.t_phase = saved.t_phase
  BY <1>4 DEF FieldNames
<1> HIDE DEF t, u
<1>10. Waits(u) \/ Ends(u) \/ Listens(u)
  BY <1>2, <1>8, <1>9 DEF Sound, Settled, Waits, Ends, Listens, Transfers
<1>11. Reporting(u, Addresses)
  BY <1>2, <1>7, <1>9, FdcAssumption DEF Reporting
<1>12. u.timers \in {<<>>, <<u.t_phase>>}
  BY <1>5, <1>8, <1>9
<1>13. Owning(u)
  BY <1>2, <1>6
<1>14. fdc' = u
  BY <1>1, <1>6 DEF s, saved, t
<1> QED BY <1>7, <1>8, <1>9, <1>10, <1>11, <1>12, <1>13, <1>14 DEF Sound, Shaped, Settled

\* The controller begins coherent,
LEMMA PowerOnIsCoherent == FdcInit => Coherent
<1> SUFFICES ASSUME FdcInit PROVE Settled(PowerOn)
  BY DEF FdcInit, Coherent
<1>1. Listens(PowerOn)
  BY DEF PowerOn, Listens
<1>2. PowerOn.handle = "null" /\ PowerOn.timers = <<>> /\ ~PowerOn.int_requested /\ ~PowerOn.accept_tc
  BY DEF PowerOn
<1> QED BY <1>1, <1>2 DEF Settled, Owning, Reporting

\* and every step keeps it so.
LEMMA StepIsCoherent == Placed(fdc) /\ Coherent /\ [FdcNext]_fdcVars => Coherent'
<1> SUFFICES ASSUME Placed(fdc), Coherent, [FdcNext]_fdcVars, ~misled' PROVE Sound(fdc')
  BY DEF Coherent, Sound
<1>1. Shaped(fdc)
  BY FieldsAre DEF Placed, Shaped
<1>2. ASSUME ~misled PROVE Sound(fdc)
  BY <1>1, <1>2 DEF Coherent, Sound
<1>3. CASE SwitchDrives
  <2>1. PICK mode \in DriveModes : fdc' = DriveControl(fdc, mode)
    BY <1>3 DEF SwitchDrives
  <2>2. Sound(fdc)
    BY <1>2, <1>3 DEF SwitchDrives
  <2> QED BY <2>1, <2>2, FieldsAre
          DEF DriveControl, Sound, Shaped, Settled, Owning, Waits, Ends, Listens, Transfers, Reporting, FieldNames
<1>4. CASE ChangeDisk
  <2>1. PICK dr \in Drives, d \in Disks \union {NoDisk} : fdc' = [fdc EXCEPT !.disk[dr] = d]
    BY <1>4 DEF ChangeDisk
  <2>2. Sound(fdc)
    BY <1>2, <1>4 DEF ChangeDisk
  <2> QED BY <2>1, <2>2, FieldsAre
          DEF Sound, Shaped, Settled, Owning, Waits, Ends, Listens, Transfers, Reporting, FieldNames
<1>5. CASE UNCHANGED fdcVars
  BY <1>2, <1>5 DEF fdcVars
<1>6. CASE GiveCommand
  BY <1>2, <1>6, CommandGiven DEF GiveCommand
<1>7. CASE CpuServes
  BY <1>2, <1>7, ParameterGiven, DataGiven, DataTaken DEF CpuServes, GiveParameter, GiveData, TakeData
<1>8. CASE EndTransfer
  BY <1>2, <1>8, TransferEnded DEF EndTransfer
<1>9. CASE TimerFires
  BY <1>2, <1>9, TimerFired DEF TimerFires
<1>10. CASE SeekDone
  BY <1>2, <1>10, SeekEnded DEF SeekDone
<1> QED BY <1>1, <1>3, <1>4, <1>5, <1>6, <1>7, <1>8, <1>9, <1>10, ResetDone, SnapshotLoaded DEF FdcNext

\* What it was for.
LEMMA CoherentIsAlive == Placed(fdc) /\ Coherent => FdcAlive
<1> SUFFICES ASSUME Placed(fdc), Coherent, ~misled PROVE FdcAlive
  BY DEF FdcAlive
<1>0. Sound(fdc)
  BY FieldsAre DEF Placed, Coherent, Sound, Shaped
<1>1. Len(fdc.timers) <= 1
  <2>1. CASE fdc.timers = <<>>
    BY <2>1
  <2>2. CASE fdc.timers \in {<<"execute">>, <<"timer">>}
    <3>1. Len(fdc.timers) = 1
      BY <2>2
    <3> QED BY <3>1
  <2> QED BY <1>0, <2>1, <2>2, CoherentIs
<1>2. /\ "RQM" \in fdc.status \/ fdc.timers # <<>>
      /\ "RQM" \in fdc.status /\ fdc.timers # <<>> => fdc.phase = "tc"
  BY <1>0, OneTimer DEF Sound, Settled, Waits, Ends, Listens
<1>3. fdc.int_requested => \E dr \in Addresses : fdc.dresult[dr] # {}
  BY <1>0 DEF Sound, Settled, Reporting
<1>4. fdc.accept_tc /\ fdc.command.op \in SectorCommands => fdc.handle # "stale"
  BY <1>0 DEF Sound, Settled, Owning
<1> QED BY <1>1, <1>2, <1>3, <1>4 DEF FdcAlive

-----------------------------------------------------------------------------
(* The disks and the drives: the head stays on its track, and what changes is *)
(* marked.                                                                 *)

\* A sector has bytes.
LEMMA BytesIs == ASSUME NEW n \in Nat PROVE Bytes(n) \in Nat \ {0}
<1> DEFINE k == IF n > 8 THEN 8 ELSE n
<1>1. k \in 0..8
  OBVIOUS
<1> HIDE DEF k
<1>2. 2^k \in Nat \ {0}
  <2>1. CASE k = 0
    <3>1. 2^0 = 1
      OBVIOUS
    <3> QED BY <2>1, <3>1
  <2>2. CASE k = 1
    <3>1. 2^1 = 2
      OBVIOUS
    <3> QED BY <2>2, <3>1
  <2>3. CASE k = 2
    <3>1. 2^2 = 4
      OBVIOUS
    <3> QED BY <2>3, <3>1
  <2>4. CASE k = 3
    <3>1. 2^3 = 8
      OBVIOUS
    <3> QED BY <2>4, <3>1
  <2>5. CASE k = 4
    <3>1. 2^4 = 16
      OBVIOUS
    <3> QED BY <2>5, <3>1
  <2>6. CASE k = 5
    <3>1. 2^5 = 32
      OBVIOUS
    <3> QED BY <2>6, <3>1
  <2>7. CASE k = 6
    <3>1. 2^6 = 64
      OBVIOUS
    <3> QED BY <2>7, <3>1
  <2>8. CASE k = 7
    <3>1. 2^7 = 128
      OBVIOUS
    <3> QED BY <2>8, <3>1
  <2>9. CASE k = 8
    <3>1. 2^8 = 256
      OBVIOUS
    <3> QED BY <2>9, <3>1
  <2> QED BY <1>1, <2>1, <2>2, <2>3, <2>4, <2>5, <2>6, <2>7, <2>8, <2>9
<1>3. 128 * 2^k \in Nat \ {0}
  <2> DEFINE p == 2^k
  <2>1. p \in Nat \ {0}
    BY <1>2
  <2> HIDE DEF p
  <2>2. 128 * p \in Nat \ {0}
    BY <2>1
  <2> QED BY <2>2 DEF p
<1> QED BY <1>3 DEF Bytes, k

\* A sequence of anything is one of its own elements, and so is what one is made into.
LEMMA OwnElements == ASSUME NEW S, NEW t \in Seq(S) PROVE t \in Seq(Range(t))
BY DEF Range

\* A chain of sectors.
Chain(t) == t \in Seq(Range(t))

\* A sector of a chain can be replaced,
LEMMA ChainChanged ==
  ASSUME NEW t, Chain(t), NEW i \in 1..Len(t), NEW x
  PROVE  Chain([t EXCEPT ![i] = x]) /\ Len([t EXCEPT ![i] = x]) = Len(t)
<1> DEFINE S == Range(t) \union {x}
<1>1. t \in Seq(S)
  BY DEF Chain
<1> HIDE DEF S
<1>2. x \in S
  BY DEF S
<1>3. [t EXCEPT ![i] = x] \in Seq(S) /\ Len([t EXCEPT ![i] = x]) = Len(t)
  BY <1>1, <1>2
<1> QED BY <1>3, OwnElements DEF Chain

\* it can grow over some of those behind it,
LEMMA ChainGrown ==
  ASSUME NEW t, Chain(t), NEW i \in 1..Len(t), NEW x, NEW c \in Nat
  PROVE  LET u == SubSeq(t, 1, i - 1) \o <<x>> \o SubSeq(t, i + 1 + c, Len(t))
         IN Chain(u) /\ i <= Len(u)
<1> DEFINE S == Range(t) \union {x}
           a == SubSeq(t, 1, i - 1)
           b == SubSeq(t, i + 1 + c, Len(t))
           u == a \o <<x>> \o b
<1>1. t \in Seq(S)
  BY DEF Chain
<1>2. x \in S
  BY DEF S
<1> HIDE DEF S
<1>3. a \in Seq(S) /\ Len(a) = i - 1
  BY <1>1
<1>4. b \in Seq(S) /\ Len(b) \in Nat
  BY <1>1
<1> HIDE DEF a, b
<1>5. u \in Seq(S) /\ Len(u) = i - 1 + 1 + Len(b)
  BY <1>2, <1>3, <1>4
<1> HIDE DEF u
<1>6. Chain(u) /\ i <= Len(u)
  BY <1>4, <1>5, OwnElements DEF Chain
<1> QED BY <1>6 DEF u, a, b

\* and a new chain can be laid out.
LEMMA ChainMade ==
  ASSUME NEW n \in Nat, NEW t, DOMAIN t = 1..n, t = [i \in 1..n |-> t[i]]
  PROVE  Chain(t)
<1>1. t \in [1..n -> Range(t)]
  BY DEF Range
<1> QED BY <1>1 DEF Chain

\* The head on a track.
OnTrack(d) == Readable(d) /\ d.at # <<>>

\* What a drive unit that only reads leaves of a disk.
SameDisk(d, e) == e.tracks = d.tracks /\ e.readonly = d.readonly /\ e.marked = d.marked /\ e.at = d.at

\* Some sector of the track comes under the head, or none.
LEMMA CurMoved ==
  ASSUME NEW d, OnTrack(d), NEW c \in 0..GetNumSectors(d)
  PROVE  OnTrack([d EXCEPT !.cur = c]) /\ SameDisk(d, [d EXCEPT !.cur = c])
BY DEF OnTrack, SameDisk, Readable, GetNumSectors, Here

\* A track has a number of sectors.
LEMMA CountIs == ASSUME NEW d PROVE GetNumSectors(d) \in Nat
BY DEF GetNumSectors

\* The head goes to the sector after another,
LEMMA AtMoves ==
  ASSUME NEW d, OnTrack(d), NEW i \in 1..GetNumSectors(d)
  PROVE  OnTrack(At(d, i)) /\ SameDisk(d, At(d, i))
<1>1. After(d, i) \in 0..GetNumSectors(d)
  BY CountIs DEF After
<1> QED BY <1>1, CurMoved DEF At

\* or to the index hole.
LEMMA HoleMoves ==
  ASSUME NEW d, OnTrack(d)
  PROVE  OnTrack(IndexHole(d)) /\ SameDisk(d, IndexHole(d))
<1>1. 0 \in 0..GetNumSectors(d)
  BY CountIs
<1> QED BY <1>1, CurMoved DEF IndexHole

\* What a turn brings by is a sector of the track.
LEMMA TurnIs ==
  ASSUME NEW d, OnTrack(d), NEW k \in 1..GetNumSectors(d)
  PROVE  InTurn(d, k) \in 1..GetNumSectors(d)
<1> DEFINE n == GetNumSectors(d)
           x == UnderHead(d) + k - 2
<1>1. n \in Nat \ {0}
  BY CountIs
<1>2. UnderHead(d) \in Int
  BY CountIs DEF UnderHead, OnTrack, Readable
<1>3. x \in Int
  BY <1>1, <1>2
<1> HIDE DEF n, x
<1>4. x % n \in 0..n - 1
  BY <1>1, <1>3
<1> DEFINE m == x % n
<1> HIDE DEF m
<1>5. 1 + m \in 1..n
  BY <1>1, <1>4 DEF m
<1> QED BY <1>5 DEF InTurn, n, x, m

\* The least of some turns.
LEMMA FirstTurn ==
  ASSUME NEW n \in Nat, NEW T, T \subseteq 1..n, T # {}
  PROVE  Min(T) \in T /\ Min(T) \in 1..n
<1>1. T \subseteq Nat
  OBVIOUS
<1> QED BY <1>1, LeastIs

\* FDU::ReadID moves the head along the track, and changes nothing.
LEMMA ReadIDIs ==
  ASSUME NEW d, OnTrack(d), NEW density
  PROVE  OnTrack(ReadID(d, density).disk) /\ SameDisk(d, ReadID(d, density).disk)
<1> DEFINE met == Met(d, density)
           next == InTurn(d, Min(met))
<1>1. CASE met = {}
  BY <1>1, HoleMoves DEF ReadID
<1>2. CASE met # {}
  <2>1. met \subseteq 1..GetNumSectors(d)
    BY DEF Met
  <2> HIDE DEF met
  <2>2. Min(met) \in 1..GetNumSectors(d)
    BY <1>2, <2>1, CountIs, FirstTurn
  <2>3. next \in 1..GetNumSectors(d)
    BY <2>2, TurnIs
  <2> HIDE DEF next
  <2>4. ReadID(d, density).disk = At(d, next)
    BY <1>2 DEF ReadID, met, next
  <2> QED BY <2>3, <2>4, AtMoves
<1> QED BY <1>1, <1>2

\* A search finds a sector of the track with the ID, or none.
LEMMA SearchIs ==
  ASSUME NEW d, OnTrack(d), NEW density, NEW id
  PROVE  LET s == Search(d, density, id)
         IN /\ OnTrack(s.disk) /\ SameDisk(d, s.disk)
            /\ s.hit # 0 => s.hit \in 1..GetNumSectors(d) /\ Here(d)[s.hit].id = id
<1> DEFINE met == Met(d, density)
           hits == {k \in met : Here(d)[InTurn(d, k)].id = id}
           hit == InTurn(d, Min(hits))
           s == SearchMet(d, id, met)
<1>1. CASE hits = {}
  <2>1. s.disk = IndexHole(d) /\ s.hit = 0
    BY <1>1 DEF SearchMet
  <2> QED BY <2>1, HoleMoves DEF Search
<1>2. CASE hits # {}
  <2>1. hits \subseteq 1..GetNumSectors(d)
    BY DEF Met
  <2>2. Min(hits) \in hits /\ Min(hits) \in 1..GetNumSectors(d)
    <3> HIDE DEF hits
    <3> QED BY <1>2, <2>1, CountIs, FirstTurn
  <2>3. hit \in 1..GetNumSectors(d) /\ Here(d)[hit].id = id
    BY <2>2, TurnIs
  <2>4. s = [hit |-> hit, disk |-> At(d, hit), cy |-> id.c]
    BY <1>2 DEF SearchMet
  <2>5. s.hit = hit /\ s.disk = At(d, hit)
    BY <2>4
  <2> HIDE DEF hit, s
  <2> QED BY <2>3, <2>5, AtMoves DEF Search, s, met
<1> QED BY <1>1, <1>2

\* FDU::ReadSector changes nothing, found or not.
LEMMA ReadSectorIs ==
  ASSUME NEW d, OnTrack(d), NEW density, NEW id
  PROVE  OnTrack(ReadSector(d, density, id).disk) /\ SameDisk(d, ReadSector(d, density, id).disk)
<1> DEFINE s == Search(d, density, id)
           a == Answer(Missing(s.cy, id), s.disk)
           b == [result |-> Marks(Here(d)[s.hit].flags), disk |-> s.disk, data |-> Here(d)[s.hit].data]
<1>1. OnTrack(s.disk) /\ SameDisk(d, s.disk)
  BY SearchIs
<1>2. a.disk = s.disk /\ b.disk = s.disk
  BY DEF Answer
<1>3. OnTrack(d) /\ SameDisk(d, d) /\ Answer({"AT", "MA"}, d).disk = d
  BY DEF SameDisk, Answer
<1> HIDE DEF s, a, b
<1> QED BY <1>1, <1>2, <1>3 DEF ReadSector, ReadFound, s, a, b

\* FloppyDisk::FindID changes nothing.
LEMMA FindIDIs ==
  ASSUME NEW d, OnTrack(d), NEW density, NEW id
  PROVE  OnTrack(FindID(d, density, id).disk) /\ SameDisk(d, FindID(d, density, id).disk)
<1> DEFINE n == GetNumSectors(d)
           Place(k) == (d.cur + k) % (n + 1)
           Fits(i) == i # 0 /\ Here(d)[i].id = id /\ Density(Here(d)[i].flags) = density
           ks == {k \in 0..n : Fits(Place(k))}
           place == Place(Min(ks))
           i == UnderHead(d)
<1>0. n \in Nat /\ d.cur \in 0..n
  BY CountIs DEF OnTrack, Readable
<1>1. CASE ks # {}
  <2>1. ks \subseteq Nat
    BY <1>0
  <2>2. Min(ks) \in Nat
    <3> HIDE DEF ks
    <3> QED BY <1>1, <2>1, LeastIs
  <2> DEFINE k == Min(ks)
  <2> HIDE DEF k
  <2>3. Place(k) \in 0..n
    <3> DEFINE x == d.cur + k
               y == n + 1
    <3>1. x \in Nat /\ y \in Nat \ {0}
      BY <1>0, <2>2 DEF k
    <3> HIDE DEF x, y
    <3>2. x % y \in 0..y - 1
      BY <3>1
    <3> QED BY <1>0, <3>2 DEF x, y
  <2>4. FindID(d, density, id).disk = [d EXCEPT !.cur = Place(k)]
    BY <1>1 DEF FindID, Answer, k
  <2> QED BY <2>3, <2>4, CurMoved
<1>2. CASE ks = {} /\ i # 0 /\ Here(d)[i].id.c # id.c
  <2>1. i \in 1..n
    BY <1>0, <1>2 DEF UnderHead, GetNumSectors, OnTrack, Readable, Chain
  <2>2. FindID(d, density, id).disk = At(d, i)
    BY <1>2 DEF FindID, Answer
  <2> QED BY <2>1, <2>2, AtMoves
<1>3. CASE ks = {} /\ ~(i # 0 /\ Here(d)[i].id.c # id.c)
  <2>1. FindID(d, density, id).disk = IndexHole(d)
    BY <1>3 DEF FindID, Answer
  <2> QED BY <2>1, HoleMoves
<1> QED BY <1>1, <1>2, <1>3

\* A sector grows over a number of those behind it (FloppyDisk::Resize).
LEMMA EatenIs == ASSUME NEW d, NEW i, NEW extend PROVE Eaten(d, i, extend).count \in Nat
<1> DEFINE behind == SubSeq(Here(d), i + 1, GetNumSectors(d))
           Room(k) == Total([j \in 1..k |-> behind[j].size + 192])
           enough == {k \in 0..Len(behind) : Room(k) >= extend}
           k == IF enough = {} THEN Len(behind) ELSE Min(enough)
<1>1. Len(behind) \in Nat
  <2> HIDE DEF behind
  <2> QED OBVIOUS
<1>2. enough \subseteq Nat
  BY <1>1
<1>3. k \in Nat
  <2> HIDE DEF enough
  <2> QED BY <1>1, <1>2, LeastIs
<1>4. Eaten(d, i, extend).count = k
  BY DEF Eaten
<1> QED BY <1>3, <1>4

\* The track under the head.
LEMMA HereIs ==
  ASSUME NEW d, OnTrack(d)
  PROVE  /\ Chain(Here(d)) /\ d.at \in DOMAIN d.tracks /\ GetNumSectors(d) = Len(Here(d))
         /\ DOMAIN Here(d) = 1..Len(Here(d))
BY DEF OnTrack, Readable, Here, GetNumSectors, Chain

\* e is d with another chain for the track under the head.
Relaid(d, t, c, e) ==
  /\ DOMAIN e = {"tracks", "at", "cur", "readonly", "marked"}
  /\ e.at = d.at /\ e.readonly = d.readonly /\ e.cur = c
  /\ e.tracks = [d.tracks EXCEPT ![d.at] = t]

\* e has the head where d has it, and the chains of d but for the track under it.
Elsewhere(d, e) ==
  /\ e.at = d.at /\ DOMAIN e.tracks = DOMAIN d.tracks
  /\ \A tr \in DOMAIN d.tracks : tr # d.at => e.tracks[tr] = d.tracks[tr]

\* The tracks that change from d to e are declared, but for the last ones and what is over.
Noted(d, e, over) == \A tr \in DOMAIN d.tracks : e.tracks[tr] # d.tracks[tr] =>
  ~d.readonly /\ (Number(tr) < MarkedTracks => e.marked \/ over)

\* A new track under the head, and the sector that comes by next, make such a disk.
LEMMA TrackChanged ==
  ASSUME NEW d, OnTrack(d), NEW t, Chain(t), NEW c \in 0..Len(t), NEW e, Relaid(d, t, c, e)
  PROVE  OnTrack(e) /\ Here(e) = t /\ Elsewhere(d, e) /\ e.readonly = d.readonly
<1>2. e.tracks[e.at] = t /\ DOMAIN e.tracks = DOMAIN d.tracks
  BY HereIs DEF Relaid
<1>3. \A tr \in DOMAIN e.tracks : e.tracks[tr] \in Seq(Range(e.tracks[tr]))
  BY <1>2 DEF Relaid, OnTrack, Readable, Chain
<1> QED BY <1>2, <1>3 DEF Relaid, OnTrack, Readable, Here, GetNumSectors, Elsewhere

\* FloppyDisk::Resize leaves the head on the track, and the sector that has grown there.
LEMMA ResizeIs ==
  ASSUME NEW d, OnTrack(d), NEW i \in 1..GetNumSectors(d), NEW newsize
  PROVE  LET room == Resize(d, i, newsize)
         IN /\ OnTrack(room.disk) /\ room.disk.readonly = d.readonly /\ Elsewhere(d, room.disk)
            /\ i \in 1..GetNumSectors(room.disk)
<1> DEFINE eaten == Eaten(d, i, newsize - Here(d)[i].size - 64)
           grown == [Here(d)[i] EXCEPT !.size = newsize, !.data = Blank]
           track == SubSeq(Here(d), 1, i - 1) \o <<grown>>
                      \o SubSeq(Here(d), i + 1 + eaten.count, GetNumSectors(d))
           c == IF i < Len(track) THEN i + 1 ELSE 0
           e == [d EXCEPT !.tracks[d.at] = track, !.cur = c]
<1>1. eaten.count \in Nat
  BY EatenIs
<1>2. Resize(d, i, newsize).disk = e
  BY DEF Resize, ResizeEating
<1> HIDE DEF eaten, grown
<1>3. Chain(track) /\ i <= Len(track)
  BY <1>1, HereIs, ChainGrown
<1> HIDE DEF track
<1>4. c \in 0..Len(track) /\ i \in 1..Len(track)
  BY <1>3, HereIs, CountIs
<1> HIDE DEF c
<1>5. Relaid(d, track, c, e)
  BY DEF Relaid, OnTrack, Readable
<1> HIDE DEF e
<1>6. OnTrack(e) /\ Here(e) = track /\ e.readonly = d.readonly /\ Elsewhere(d, e)
  BY <1>3, <1>4, <1>5, TrackChanged
<1> QED BY <1>2, <1>4, <1>6 DEF GetNumSectors

\* A write that is declared.
LEMMA ModifiedIs ==
  ASSUME NEW d, OnTrack(d)
  PROVE  /\ OnTrack(Modified(d)) /\ Modified(d).tracks = d.tracks /\ Modified(d).at = d.at
         /\ Number(d.at) < MarkedTracks /\ ~d.readonly => Modified(d).marked
<1>1. /\ DOMAIN Modified(d) = DOMAIN d /\ Modified(d).tracks = d.tracks /\ Modified(d).at = d.at
      /\ Modified(d).cur = d.cur
  BY DEF Modified, OnTrack, Readable
<1> DEFINE first == Number(d.at) < MarkedTracks
<1>2. Modified(d).marked = (d.marked \/ (first /\ ~d.readonly))
  BY DEF Modified, OnTrack, Readable
<1> HIDE DEF first
<1>3. first /\ ~d.readonly => Modified(d).marked
  BY <1>2
<1>4. Readable(Modified(d))
  BY <1>1 DEF OnTrack, Readable, GetNumSectors, Here
<1> QED BY <1>1, <1>3, <1>4 DEF OnTrack, first

\* What a write does to a sector it has room for.
LEMMA WriteIntoIs ==
  ASSUME NEW room, OnTrack(room.disk), NEW i \in 1..GetNumSectors(room.disk), NEW sector
  PROVE  LET e == WriteInto(room, i, sector).disk
         IN /\ OnTrack(e) /\ Elsewhere(room.disk, e)
            /\ room.ok /\ ~room.disk.readonly /\ Number(room.disk.at) < MarkedTracks => e.marked
<1> DEFINE d == room.disk
           t == [Here(d) EXCEPT ![i] = sector]
           e == [d EXCEPT !.tracks[d.at] = t, !.cur = d.cur]
<1>1. CASE ~room.ok
  <2>1. WriteInto(room, i, sector).disk = d
    BY <1>1 DEF WriteInto, Answer
  <2> QED BY <1>1, <2>1 DEF Elsewhere
<1>2. CASE room.ok
  <2>1. Chain(t) /\ Len(t) = Len(Here(d)) /\ d.cur \in 0..Len(Here(d))
    <3>1. Chain(Here(d)) /\ i \in 1..Len(Here(d)) /\ d.cur \in 0..Len(Here(d))
      BY HereIs DEF OnTrack, Readable
    <3> QED BY <3>1, ChainChanged
  <2>2. OnTrack(e) /\ e.readonly = d.readonly /\ Elsewhere(d, e)
    <3>1. d.cur \in 0..Len(t)
      BY <2>1
    <3>2. Relaid(d, t, d.cur, e) /\ OnTrack(d)
      <4> HIDE DEF t
      <4> QED BY DEF Relaid, OnTrack, Readable
    <3> HIDE DEF t, d, e
    <3> QED BY <2>1, <3>1, <3>2, TrackChanged
  <2>3. [d EXCEPT !.tracks[d.at][i] = sector] = e
    <3>1. DOMAIN d = {"tracks", "at", "cur", "readonly", "marked"} /\ d.at \in DOMAIN d.tracks
      BY HereIs DEF OnTrack, Readable
    <3> QED BY <3>1 DEF Here
  <2>4. WriteInto(room, i, sector).disk = Modified(e)
    BY <1>2, <2>3 DEF WriteInto, Answer
  <2> HIDE DEF e
  <2> QED BY <2>2, <2>4, ModifiedIs DEF Elsewhere
<1> QED BY <1>1, <1>2

\* A write of a sector, found or not: on a disk with its tab set nothing, else marked but
\* when the sector was too small for it.
LEMMA WriteSectorIs ==
  ASSUME NEW d, OnTrack(d), NEW density, NEW id, NEW data, NEW deleted
  PROVE  LET e == WriteSector(d, density, id, data, deleted).disk
         IN /\ OnTrack(e)
            /\ Noted(d, e, \E x \in Range(Here(d)) : x.id = id /\ x.size < Bytes(id.n))
<1> DEFINE flags == density \union (IF deleted THEN {"Deleted"} ELSE {})
           sector == [id |-> id, size |-> Bytes(id.n), flags |-> flags, data |-> data]
           s == Search(d, density, id)
           size == Here(d)[s.hit].size
           room == IF sector.size > size THEN Resize(s.disk, s.hit, sector.size)
                   ELSE [ok |-> TRUE, disk |-> s.disk]
           w == WriteSector(d, density, id, data, deleted)
<1>1. CASE d.readonly \/ Here(d) = <<>>
  <2>1. w.disk = d
    BY <1>1 DEF WriteSector, Answer
  <2> HIDE DEF w
  <2> QED BY <2>1 DEF w, Noted
<1>2. CASE ~d.readonly /\ Here(d) # <<>> /\ s.hit = 0
  <2>1. w.disk = s.disk
    BY <1>2 DEF WriteSector, WriteFound, Answer
  <2> HIDE DEF w, s
  <2> QED BY <2>1, SearchIs DEF SameDisk, Noted, s, w
<1>3. CASE ~d.readonly /\ Here(d) # <<>> /\ s.hit # 0
  <2>1. /\ OnTrack(s.disk) /\ SameDisk(d, s.disk)
        /\ s.hit \in 1..GetNumSectors(d) /\ Here(d)[s.hit].id = id
    BY <1>3, SearchIs
  <2>2. w = WriteInto(room, s.hit, sector)
    BY <1>3 DEF WriteSector, WriteFound
  <2>3. Here(s.disk) = Here(d) /\ GetNumSectors(s.disk) = GetNumSectors(d) /\ s.disk.readonly = d.readonly
    BY <2>1 DEF SameDisk, Here, GetNumSectors
  <2>4. sector.id = id /\ sector.size = Bytes(id.n)
    OBVIOUS
  <2> HIDE DEF w, s, sector
  <2>5. /\ OnTrack(room.disk) /\ room.disk.readonly = d.readonly /\ s.hit \in 1..GetNumSectors(room.disk)
        /\ ~(sector.size > size) => room.ok
        /\ Elsewhere(d, room.disk)
    <3>1. CASE sector.size > size
      BY <2>1, <2>3, <3>1, ResizeIs DEF Elsewhere, SameDisk
    <3>2. CASE ~(sector.size > size)
      BY <2>1, <2>3, <3>2 DEF Elsewhere, SameDisk
    <3> QED BY <3>1, <3>2
  <2>6. sector.size > size => \E x \in Range(Here(d)) : x.id = id /\ x.size < Bytes(id.n)
    <3> SUFFICES ASSUME sector.size > size
                 PROVE  \E x \in Range(Here(d)) : x.id = id /\ x.size < Bytes(id.n)
      OBVIOUS
    <3>1. Here(d)[s.hit] \in Range(Here(d))
      BY <2>1, HereIs DEF Range
    <3>2. size < Bytes(id.n)
      BY <2>4
    <3> QED BY <2>1, <3>1, <3>2
  <2> HIDE DEF size, room
  <2>7. /\ OnTrack(w.disk) /\ Elsewhere(d, w.disk)
        /\ room.ok /\ Number(d.at) < MarkedTracks => w.disk.marked
    BY <1>3, <2>2, <2>5, WriteIntoIs DEF Elsewhere
  <2> QED BY <1>3, <2>5, <2>6, <2>7 DEF w, Elsewhere, Noted
<1> QED BY <1>1, <1>2, <1>3

\* A disk is sought on.
LEMMA SeekIs ==
  ASSUME NEW d, Readable(d), NEW tr \in Cylinders \X Heads
  PROVE  /\ OnTrack(Seek(d, tr)) /\ Seek(d, tr).at = tr /\ Seek(d, tr).tracks = d.tracks
         /\ Seek(d, tr).readonly = d.readonly /\ Seek(d, tr).marked = d.marked
<1>1. tr # <<>> /\ tr \in DOMAIN d.tracks
  BY DEF Readable
<1>2. CASE tr = d.at
  BY <1>1, <1>2 DEF Seek, OnTrack
<1>3. CASE tr # d.at
  <2> DEFINE e == [d EXCEPT !.at = tr, !.cur = 0]
  <2>1. /\ DOMAIN e = {"tracks", "at", "cur", "readonly", "marked"} /\ e.at = tr /\ e.cur = 0
        /\ e.tracks = d.tracks /\ e.readonly = d.readonly /\ e.marked = d.marked
    BY DEF Readable
  <2>2. Seek(d, tr) = e
    BY <1>3 DEF Seek
  <2> HIDE DEF e
  <2>3. 0 \in 0..GetNumSectors(e)
    BY CountIs
  <2> QED BY <1>1, <2>1, <2>2, <2>3 DEF OnTrack, Readable
<1> QED BY <1>2, <1>3

\* A track formatted is a chain, of as many sectors as fit.
LEMMA WriteIDIs ==
  ASSUME NEW d, Readable(d), NEW tr \in Cylinders \X Heads, NEW density, NEW ids, NEW n \in Nat, NEW data
  PROVE  LET e == WriteID(d, tr, density, ids, n, data).disk
         IN Readable(e) /\ Noted(d, e, FALSE)
<1> DEFINE fit == TrackCapacity \div (Bytes(n) + 64)
           sc == IF Len(ids) > fit THEN fit ELSE Len(ids)
           Laid(i) == [id |-> ids[Len(ids) - sc + i], size |-> Bytes(n), flags |-> density, data |-> data]
           t == [i \in 1..sc |-> Laid(i)]
           s == Seek(d, tr)
           e == [s EXCEPT !.tracks[s.at] = t, !.cur = 0]
           w == WriteID(d, tr, density, ids, n, data).disk
<1> SUFFICES Readable(w) /\ Noted(d, w, FALSE)
  OBVIOUS
<1>1. CASE d.readonly
  <2>1. w = d
    BY <1>1 DEF WriteID, Answer
  <2> HIDE DEF w
  <2> QED BY <2>1 DEF w, Noted
<1>2. CASE ~d.readonly
  <2>1. sc \in Nat
    <3>1. Bytes(n) + 64 \in Nat \ {0}
      BY BytesIs
    <3> DEFINE m == Bytes(n) + 64
    <3> HIDE DEF m
    <3>2. TrackCapacity \div m \in Nat
      BY <3>1, FdcAssumption DEF m
    <3>3. fit \in Nat /\ Len(ids) \in Nat
      BY <3>2 DEF m
    <3> HIDE DEF fit
    <3> QED BY <3>3
  <2> HIDE DEF sc
  <2>2. Chain(t)
    <3>1. DOMAIN t = 1..sc /\ t = [i \in 1..sc |-> t[i]]
      OBVIOUS
    <3> HIDE DEF t
    <3> QED BY <2>1, <3>1, ChainMade
  <2>3. OnTrack(s) /\ s.at = tr /\ s.readonly = d.readonly /\ s.tracks = d.tracks
    BY SeekIs
  <2>4. WriteID(d, tr, density, ids, n, data).disk = Modified(IndexHole([s EXCEPT !.tracks[tr] = t]))
    BY <1>2 DEF WriteID, Answer, sc
  <2> HIDE DEF s, t
  <2>5. IndexHole([s EXCEPT !.tracks[tr] = t]) = e
    BY <2>3 DEF IndexHole, OnTrack, Readable
  <2>6. 0 \in 0..Len(t)
    BY <2>2 DEF Chain
  <2>7. OnTrack(e) /\ e.readonly = d.readonly /\ Elsewhere(s, e)
    <3>1. Relaid(s, t, 0, e)
      BY <2>3 DEF Relaid, OnTrack, Readable
    <3> HIDE DEF e
    <3> QED BY <2>2, <2>3, <2>6, <3>1, TrackChanged
  <2> HIDE DEF e, w
  <2>8. w = Modified(e)
    BY <2>4, <2>5 DEF w
  <2> QED BY <1>2, <2>3, <2>7, <2>8, ModifiedIs DEF OnTrack, Elsewhere, Noted
<1> QED BY <1>1, <1>2

-----------------------------------------------------------------------------
(* The drives of the controller.                                           *)

\* The drives stand on tracks that are there, in the controller's record.
Stands(s) == DOMAIN s = FieldNames /\ Placed(s)

\* The timers that are set, and t_phase_.
Timing(timers, t_phase) ==
  timers \in Seq({"execute", "timer"}) /\ t_phase \in {"idle", "execute", "timer"}

\* t has the heads where s has them, whatever becomes of the disks;
Keeps(s, t) ==
  /\ DOMAIN t = FieldNames /\ t.us = s.us /\ t.hd = s.hd /\ t.wid = s.wid
  /\ t.unit = s.unit /\ t.cylinder = s.cylinder /\ t.diag = s.diag /\ t.diag_at = s.diag_at
  /\ DOMAIN t.dresult = DOMAIN s.dresult
  /\ Timing(s.timers, s.t_phase) => Timing(t.timers, t.t_phase)

\* and the disks too;
Still(s, t) == Keeps(s, t) /\ t.disk = s.disk

\* and what is to be written.
Alike(s, t) == Still(s, t) /\ t.id = s.id /\ t.command = s.command

\* Disks that change from s to t are marked, as ChangesMarked has it.
Marked(s, t) == \A dr \in Drives :
  s.disk[dr] # NoDisk /\ t.disk[dr] # NoDisk => Noted(s.disk[dr], t.disk[dr], Overruns(s))

\* What a handler makes of s.
Handled(s, t) == Stands(t) /\ Marked(s, t)

\* A handler that leaves the disks alone is as it should be if the heads stay on tracks.
LEMMA RestDone == ASSUME NEW s, NEW t, Stands(t), t.disk = s.disk PROVE Handled(s, t)
BY DEF Handled, Marked, Noted

\* They do when nothing moves,
LEMMA StillStands == ASSUME NEW s, NEW t, Stands(s), Still(s, t) PROVE Stands(t)
BY DEF Stands, Placed, Still, Keeps, Timing

\* and then nothing changes either.
LEMMA StillDone == ASSUME NEW s, NEW t, Stands(s), Still(s, t) PROVE Handled(s, t)
BY StillStands, RestDone DEF Still

\* What leaves the disks alone can follow on what changes them,
LEMMA RestAfter ==
  ASSUME NEW s, NEW t, NEW u, Handled(s, t), Stands(u), u.disk = t.disk PROVE Handled(s, u)
BY DEF Handled, Marked

\* so can what moves nothing,
LEMMA StillAfter == ASSUME NEW s, NEW t, NEW u, Handled(s, t), Still(t, u) PROVE Handled(s, u)
BY StillStands, RestAfter DEF Handled, Still

\* and what leaves the sector to be written can come before.
LEMMA AlikeBefore == ASSUME NEW s, NEW t, NEW u, Alike(s, t), Handled(t, u) PROVE Handled(s, u)
BY DEF Alike, Still, Keeps, Handled, Marked, Overruns, Under, Track

\* Two steps in which nothing moves.
LEMMA StillTwice == ASSUME NEW s, NEW t, NEW u, Still(s, t), Still(t, u) PROVE Still(s, u)
BY DEF Still, Keeps

\* Shifts between phases, and timers.
LEMMA ShiftsAreStill ==
  ASSUME NEW s, DOMAIN s = FieldNames
  PROVE  /\ Still(s, ShiftToIdlePhase(s))
         /\ \A n : /\ Still(s, ShiftToCommandPhase(s, n))
                   /\ Still(s, ShiftToExecReadPhase(s, n))
                   /\ Still(s, ShiftToExecWritePhase(s, n))
                   /\ Still(s, ShiftToResultPhase(s, n))
         /\ Still(s, ShiftToResultPhase7(s))
<1>1. Still(s, ShiftToIdlePhase(s))
  BY DEF Still, Keeps, ShiftToIdlePhase, FieldNames
<1>2. ASSUME NEW n
      PROVE /\ Still(s, ShiftToCommandPhase(s, n)) /\ Still(s, ShiftToExecReadPhase(s, n))
            /\ Still(s, ShiftToExecWritePhase(s, n)) /\ Still(s, ShiftToResultPhase(s, n))
  <2> DEFINE m == Least(n, Few)
  <2> HIDE DEF m
  <2>1. Still(s, ShiftToCommandPhase(s, n))
    BY DEF Still, Keeps, ShiftToCommandPhase, FieldNames, m
  <2>2. Still(s, ShiftToExecReadPhase(s, n)) /\ Still(s, ShiftToExecWritePhase(s, n))
    BY DEF Still, Keeps, ShiftToExecReadPhase, ShiftToExecWritePhase, ShiftToExecPhase, FieldNames
  <2>3. Still(s, ShiftToResultPhase(s, n))
    BY DEF Still, Keeps, ShiftToResultPhase, FieldNames
  <2> QED BY <2>1, <2>2, <2>3
<1>3. Still(s, ShiftToResultPhase7(s))
  <2> DEFINE t == ShiftToResultPhase(s, 7)
  <2>1. Still(s, t)
    BY <1>2
  <2> HIDE DEF t
  <2>2. Still(t, Intr(t, TRUE))
    BY <2>1 DEF Still, Keeps, Intr, FieldNames
  <2> QED BY <2>1, <2>2, StillTwice DEF ShiftToResultPhase7, t
<1> QED BY <1>1, <1>2, <1>3

\* The shift into the scan,
LEMMA ScanIsStill ==
  ASSUME NEW s, DOMAIN s = FieldNames, NEW n, NEW data
  PROVE  Still(s, ShiftToExecScanPhase(s, n, data))
BY DEF Still, Keeps, ShiftToExecScanPhase, ShiftToExecPhase, FieldNames

\* a failure,
LEMMA FailsIsStill == ASSUME NEW s, DOMAIN s = FieldNames, NEW r PROVE Still(s, Fails(s, r))
<1> DEFINE t == [s EXCEPT !.result = r]
<1>1. Still(s, t)
  BY DEF Still, Keeps, FieldNames
<1> HIDE DEF t
<1>2. Still(t, ShiftToResultPhase7(t))
  BY <1>1, ShiftsAreStill DEF Still, Keeps
<1> QED BY <1>1, <1>2, StillTwice DEF Fails, t

\* and the timer of the controller: none of them moves a head.
LEMMA TimerIsStill ==
  ASSUME NEW s, DOMAIN s = FieldNames, NEW x \in {"execute", "timer"}
  PROVE  Still(s, SetTimer(s, x)) /\ Alike(s, DelTimer(s))
<1>1. Still(s, SetTimer(s, x))
  <2> DEFINE q == Append(s.timers, x)
  <2>1. Timing(s.timers, s.t_phase) => Timing(q, x)
    BY DEF Timing
  <2> HIDE DEF q
  <2> QED BY <2>1 DEF Still, Keeps, SetTimer, FieldNames, q
<1>2. Alike(s, DelTimer(s))
  <2> DEFINE q == IF s.handle = "own" THEN Front(s.timers) ELSE s.timers
             seeks == [dr \in Addresses |-> IF dr \in s.slot THEN s.seeks[dr] - 1 ELSE s.seeks[dr]]
  <2>1. DelTimer(s) = [s EXCEPT !.timers = q, !.handle = "null", !.seeks = seeks, !.slot = {}]
    BY DEF DelTimer, FieldNames
  <2>2. Timing(s.timers, s.t_phase) => Timing(q, s.t_phase)
    BY DEF Timing, Front
  <2> HIDE DEF q, seeks
  <2> QED BY <2>1, <2>2 DEF Alike, Still, Keeps, FieldNames
<1> QED BY <1>1, <1>2

\* The next sector may be on the other side.
LEMMA NextStands == ASSUME NEW s, Stands(s) PROVE Stands(NextSector(s)) /\ NextSector(s).disk = s.disk
<1> DEFINE r == IF s.command.op = "Scan" /\ s.stp = 2 THEN NextRecord(s.id.r) ELSE s.id.r
           i == IDAfter(s, r)
           h == IF s.command.mt THEN 1 - s.id.h ELSE s.id.h
           hd == IF s.command.mt THEN 1 - s.hd ELSE s.hd
           n == NextRecord(r)
           a == [s EXCEPT !.id.r = n]
           b == [s EXCEPT !.id.r = 1, !.id.h = h, !.hd = hd]
           c == [s EXCEPT !.id.r = 1, !.id.h = h, !.hd = hd, !.id.c = @ + 1]
<1>1. i.s \in {a, b, c}
  BY DEF IDAfter
<1>2. hd \in Heads
  BY DEF Stands, Placed, Heads
<1> HIDE DEF h
<1> HIDE DEF hd
<1> HIDE DEF n
<1>3. /\ Stands(a) /\ a.disk = s.disk
      /\ Stands(b) /\ b.disk = s.disk
      /\ Stands(c) /\ c.disk = s.disk
  BY <1>2 DEF Stands, Placed, FieldNames
<1> HIDE DEF a, b, c
<1>4. NextSector(s) = SetTimer(i.s, IF i.more THEN "execute" ELSE "timer")
  BY DEF NextSector, Onward, IDIncrement
<1> DEFINE x == IF i.more THEN "execute" ELSE "timer"
<1>a. x \in {"execute", "timer"}
  OBVIOUS
<1> HIDE DEF x
<1>5. Stands(i.s) /\ i.s.disk = s.disk
  BY <1>1, <1>3
<1> HIDE DEF i
<1>6. Still(i.s, SetTimer(i.s, x))
  BY <1>5, <1>a, TimerIsStill DEF Stands
<1> QED BY <1>4, <1>5, <1>6, StillStands DEF x, Still

\* Parameters name tracks and sectors a program may seek.
LEMMA ParametersStand ==
  ASSUME NEW s, Stands(s), s.buffer \in Parameters
  PROVE  Stands(GetSectorParameters(s)) /\ GetSectorParameters(s).disk = s.disk
BY FdcAssumption DEF GetSectorParameters, Stands, Placed, FieldNames

\* The track under the head of a drive that is ready.
LEMMA UnderIs ==
  ASSUME NEW s, Stands(s), CheckCondition(s) = {}
  PROVE  LET d == s.disk[s.us]
         IN /\ s.us \in Drives /\ d # NoDisk /\ Readable(d) /\ Track(s) \in Cylinders \X Heads
            /\ OnTrack(Under(s)) /\ Under(s).tracks = d.tracks
            /\ Under(s).readonly = d.readonly /\ Under(s).marked = d.marked
<1>1. s.us \in Drives /\ s.disk[s.us] # NoDisk
  BY DEF CheckCondition
<1>2. Readable(s.disk[s.us]) /\ Track(s) \in Cylinders \X Heads
  BY <1>1 DEF Stands, Placed, Track
<1> QED BY <1>1, <1>2, SeekIs DEF Under

\* An answer of the drive.
Answered(s, e) ==
  s.us \in Drives /\ Readable(e) /\ Noted(s.disk[s.us], e, Overruns(s))

\* When an answer is taken over, the heads stay and the disk is marked if it changed,
LEMMA DiskDone ==
  ASSUME NEW s, Stands(s), NEW e, Answered(s, e),
         NEW t, Keeps(s, t), t.disk = [s.disk EXCEPT ![s.us] = e]
  PROVE  Handled(s, t)
<1>1. DOMAIN t.disk = Drives /\ t.disk[s.us] = e
  BY DEF Stands, Placed, Answered
<1>2. \A dr \in Drives : dr # s.us => t.disk[dr] = s.disk[dr]
  BY DEF Stands, Placed
<1>3. Stands(t)
  BY <1>1, <1>2 DEF Stands, Placed, Keeps, Timing, Answered
<1>4. Marked(s, t)
  BY <1>1, <1>2 DEF Marked, Answered, Noted
<1> QED BY <1>3, <1>4 DEF Handled

\* as Took does it.
LEMMA TookDone ==
  ASSUME NEW s, Stands(s), NEW a, Answered(s, a.disk)
  PROVE  Handled(s, Took(s, a))
<1> DEFINE e == a.disk
           r == a.result
<1>1. Took(s, a) = [s EXCEPT !.result = r, !.disk[s.us] = e]
  BY DEF Took
<1>2. Answered(s, e)
  OBVIOUS
<1> HIDE DEF e, r
<1>3. Keeps(s, Took(s, a)) /\ Took(s, a).disk = [s.disk EXCEPT ![s.us] = e]
  BY <1>1 DEF Keeps, FieldNames, Stands
<1> QED BY <1>2, <1>3, DiskDone

\* A drive that reads.
LEMMA ReadsAnswered ==
  ASSUME NEW s, Stands(s), CheckCondition(s) = {}, NEW e, OnTrack(e), SameDisk(Under(s), e)
  PROVE  Answered(s, e)
BY UnderIs DEF Answered, SameDisk, OnTrack, Noted

\* A sector read, or not.
LEMMA SectorReadDone ==
  ASSUME NEW s, DOMAIN s = FieldNames, NEW sector, NEW scan
  PROVE  Still(s, SectorRead(s, sector, scan))
<1> DEFINE n == Bytes(s.id.n)
<1>1. SectorRead(s, sector, scan) \in
        {ShiftToResultPhase7(s), SetTimer(s, "timer"), ShiftToExecScanPhase(s, n, sector.data),
         ShiftToExecReadPhase(s, n)}
  BY DEF SectorRead
<1> HIDE DEF n
<1> QED BY <1>1, ShiftsAreStill, TimerIsStill, ScanIsStill

\* A mark turned over moves nothing.
LEMMA InvertedIsStill ==
  ASSUME NEW s, DOMAIN s = FieldNames, NEW d
  PROVE  Still(s, Inverted(s, d))
<1> DEFINE r == Toggle(s.result, "CM")
<1> HIDE DEF r
<1>1. Still(s, [s EXCEPT !.result = r]) /\ Still(s, s)
  BY DEF Still, Keeps, FieldNames
<1> QED BY <1>1 DEF Inverted, r

\* FDC::ReadData on whatever drive and disk.
LEMMA ReadDone ==
  ASSUME NEW s, Stands(s), NEW deleted, NEW scan
  PROVE  Handled(s, ReadData(s, deleted, scan))
<1> DEFINE check == CheckCondition(s)
           a == ReadSector(Under(s), Flags(s), s.id)
           t == Took(s, a)
           u == Inverted(t, deleted)
<1>0. DOMAIN s = FieldNames
  BY DEF Stands
<1>1. CASE "MA" \in check
  <2> DEFINE v == [s EXCEPT !.result = check]
  <2>1. ReadData(s, deleted, scan) = SetTimer(v, "execute")
    BY <1>1 DEF ReadData
  <2> HIDE DEF check
  <2>2. Still(s, v)
    BY <1>0 DEF Still, Keeps, FieldNames
  <2> HIDE DEF v
  <2>3. Still(v, SetTimer(v, "execute"))
    BY <2>2, TimerIsStill DEF Still, Keeps
  <2> QED BY <2>1, <2>2, <2>3, StillTwice, StillDone
<1>2. CASE "MA" \notin check /\ check # {}
  <2>1. ReadData(s, deleted, scan) = Fails(s, check)
    BY <1>2 DEF ReadData
  <2> QED BY <1>0, <2>1, FailsIsStill, StillDone
<1>3. CASE check = {}
  <2>1. ReadData(s, deleted, scan) = SectorRead(u, a, scan)
    BY <1>3 DEF ReadData, ReadThen
  <2>2. OnTrack(a.disk) /\ SameDisk(Under(s), a.disk)
    BY <1>3, UnderIs, ReadSectorIs
  <2> HIDE DEF a
  <2>3. Handled(s, t)
    BY <1>3, <2>2, ReadsAnswered, TookDone
  <2> HIDE DEF t
  <2>4. Still(t, u) /\ DOMAIN u = FieldNames
    BY <2>3, InvertedIsStill DEF Handled, Stands, Still, Keeps
  <2> HIDE DEF u
  <2>5. Still(t, SectorRead(u, a, scan))
    BY <2>4, SectorReadDone, StillTwice
  <2> QED BY <2>1, <2>3, <2>5, StillAfter
<1> QED BY <1>1, <1>2, <1>3

\* What all commands on sectors do with their parameters and when they end.
LEMMA SectorCommandBegins ==
  ASSUME NEW s, Stands(s), s.buffer \in Parameters
  PROVE  Handled(s, SetTimer(GetSectorParameters(s), "execute"))
<1> DEFINE t == GetSectorParameters(s)
<1>1. Stands(t) /\ t.disk = s.disk
  BY ParametersStand
<1> HIDE DEF t
<1>2. Still(t, SetTimer(t, "execute"))
  BY <1>1, TimerIsStill DEF Stands
<1> QED BY <1>1, <1>2, RestDone, StillAfter DEF t

\* TC ends them, and so do their results.
LEMMA SectorCommandEnds ==
  ASSUME NEW s, Stands(s)
  PROVE  Handled(s, ShiftToResultPhase7(DelTimer(s))) /\ Handled(s, ShiftToResultPhase7(s))
<1>0. DOMAIN s = FieldNames
  BY DEF Stands
<1> DEFINE t == DelTimer(s)
<1>1. Still(s, t)
  BY <1>0, TimerIsStill DEF Alike
<1> HIDE DEF t
<1>2. Still(t, ShiftToResultPhase7(t)) /\ Still(s, ShiftToResultPhase7(s))
  BY <1>0, <1>1, ShiftsAreStill DEF Still, Keeps
<1> QED BY <1>1, <1>2, StillTwice, StillDone DEF t

\* A handler is called for its parameters when they are there; it leaves all as it is in
\* a phase it does not know.
Called(s) == s.phase = "command" => s.buffer \in Parameters

\* That is as it should be.
LEMMA NothingDone == ASSUME NEW s, Stands(s) PROVE Handled(s, s)
BY RestDone

\* CmdReadData in each of its phases.
LEMMA ReadDataMoves ==
  ASSUME NEW s, Stands(s), Called(s)
  PROVE  Handled(s, CmdReadData(s))
<1>0. DOMAIN s = FieldNames
  BY DEF Stands
<1>1. CASE s.phase = "idle"
  BY <1>0, <1>1, ShiftsAreStill, StillDone DEF CmdReadData
<1>2. CASE s.phase = "command"
  BY <1>2, SectorCommandBegins DEF CmdReadData, Called
<1>3. CASE s.phase = "execute"
  BY <1>3, ReadDone DEF CmdReadData
<1>4. CASE s.phase = "execread"
  <2>1. CmdReadData(s) \in {ShiftToResultPhase7(s), NextSector(s)}
    BY <1>4 DEF CmdReadData
  <2> QED BY <2>1, SectorCommandEnds, NextStands, RestDone
<1>5. CASE s.phase = "tc"
  BY <1>5, SectorCommandEnds DEF CmdReadData
<1>6. CASE s.phase = "timer"
  <2>1. CmdReadData(s) = Fails(s, {"AT", "EN"})
    BY <1>6 DEF CmdReadData
  <2> QED BY <1>0, <2>1, FailsIsStill, StillDone
<1>7. CASE s.phase \notin {"idle", "command", "execute", "execread", "tc", "timer"}
  BY <1>7, NothingDone DEF CmdReadData
<1> QED BY <1>1, <1>2, <1>3, <1>4, <1>5, <1>6, <1>7

\* The next sector of a command whose phase is set first.
LEMMA OnwardDone ==
  ASSUME NEW s, Stands(s)
  PROVE  Handled(s, NextSector([s EXCEPT !.phase = "execute"]))
<1> DEFINE t == [s EXCEPT !.phase = "execute"]
<1>1. Still(s, t)
  BY DEF Still, Keeps, FieldNames, Stands
<1> HIDE DEF t
<1>2. Stands(t)
  BY <1>1, StillStands
<1>3. Stands(NextSector(t)) /\ NextSector(t).disk = t.disk
  BY <1>2, NextStands
<1> QED BY <1>1, <1>3, RestDone DEF t, Still

\* CmdScanEqual in each of its phases.
LEMMA ScanMoves ==
  ASSUME NEW s, Stands(s), Called(s)
  PROVE  Handled(s, CmdScanEqual(s))
<1>0. DOMAIN s = FieldNames
  BY DEF Stands
<1>1. CASE s.phase = "idle"
  BY <1>0, <1>1, ShiftsAreStill, StillDone DEF CmdScanEqual
<1>2. CASE s.phase = "command"
  BY <1>2, SectorCommandBegins DEF CmdScanEqual, Called
<1>3. CASE s.phase = "execute"
  BY <1>3, ReadDone DEF CmdScanEqual
<1>4. CASE s.phase = "execscan"
  <2>1. CmdScanEqual(s) \in {ShiftToResultPhase7(s), NextSector([s EXCEPT !.phase = "execute"])}
    BY <1>4 DEF CmdScanEqual
  <2> QED BY <2>1, SectorCommandEnds, OnwardDone
<1>5. CASE s.phase = "tc"
  BY <1>5, SectorCommandEnds DEF CmdScanEqual
<1>6. CASE s.phase = "timer"
  <2>1. CmdScanEqual(s) = Fails(s, {"EN", "SN"})
    BY <1>6 DEF CmdScanEqual
  <2> QED BY <1>0, <2>1, FailsIsStill, StillDone
<1>7. CASE s.phase \notin {"idle", "command", "execute", "execscan", "tc", "timer"}
  BY <1>7, NothingDone DEF CmdScanEqual
<1> QED BY <1>1, <1>2, <1>3, <1>4, <1>5, <1>6, <1>7

\* A sector written.
LEMMA WriteDone ==
  ASSUME NEW s, Stands(s), s.command.op = "WriteData"
  PROVE  Handled(s, WriteData(s))
<1> DEFINE check == CheckCondition(s)
           content == IF s.buffer = <<>> THEN Blank ELSE Last(s.buffer)
           a == WriteSector(Under(s), Flags(s), s.id, content, s.command.deleted)
<1>1. CASE check # {}
  <2>1. WriteData(s) = Fails(s, check)
    BY <1>1 DEF WriteData
  <2> QED BY <2>1, FailsIsStill, StillDone DEF Stands
<1>2. CASE check = {}
  <2>1. WriteData(s) = Took(s, a)
    BY <1>2 DEF WriteData
  <2> HIDE DEF content
  <2>2. /\ OnTrack(a.disk)
        /\ Noted(Under(s), a.disk, \E x \in Range(Here(Under(s))) : x.id = s.id /\ x.size < Bytes(s.id.n))
    BY <1>2, UnderIs, WriteSectorIs
  <2> HIDE DEF a
  <2>3. Answered(s, a.disk)
    BY <1>2, <2>2, UnderIs DEF Answered, Overruns, OnTrack, Noted
  <2> QED BY <2>1, <2>3, TookDone
<1> QED BY <1>1, <1>2

\* What is missing of a transfer is filled up: the sector to write stays the same.
LEMMA FlushedIsAlike ==
  ASSUME NEW s, DOMAIN s = FieldNames
  PROVE  Alike(s, Flushed(DelTimer(s)))
<1> DEFINE t == DelTimer(s)
<1>1. Alike(s, t)
  BY TimerIsStill
<1> HIDE DEF t
<1> DEFINE b == t.buffer \o [i \in 1..t.count |-> Blank]
<1>2. Flushed(t) = [t EXCEPT !.buffer = b]
  BY DEF Flushed
<1> HIDE DEF b
<1>3. Alike(t, Flushed(t))
  BY <1>1, <1>2 DEF Alike, Still, Keeps, FieldNames
<1> QED BY <1>1, <1>3 DEF t, Alike, Still, Keeps

\* CmdWriteData in each of its phases.
LEMMA WriteDataMoves ==
  ASSUME NEW s, Stands(s), s.command.op = "WriteData",
         Called(s)
  PROVE  Handled(s, CmdWriteData(s))
<1>0. DOMAIN s = FieldNames
  BY DEF Stands
<1>1. CASE s.phase = "idle"
  BY <1>0, <1>1, ShiftsAreStill, StillDone DEF CmdWriteData
<1>2. CASE s.phase = "command"
  BY <1>2, SectorCommandBegins DEF CmdWriteData, Called
<1>3. CASE s.phase = "execute"
  <2> DEFINE check == CheckCondition(s)
             v == [s EXCEPT !.result = check]
             a == FindID(Under(s), Flags(s), s.id)
             t == Took(s, a)
  <2>1. CASE "MA" \in check
    <3>1. CmdWriteData(s) = SetTimer(v, "execute")
      BY <1>3, <2>1 DEF CmdWriteData
    <3> HIDE DEF check
    <3>2. Still(s, v)
      BY <1>0 DEF Still, Keeps, FieldNames
    <3> HIDE DEF v
    <3>3. Still(v, SetTimer(v, "execute"))
      BY <3>2, TimerIsStill DEF Still, Keeps
    <3> QED BY <3>1, <3>2, <3>3, StillTwice, StillDone
  <2>2. CASE "MA" \notin check /\ check # {}
    <3>1. CmdWriteData(s) = Fails(s, check)
      BY <1>3, <2>2 DEF CmdWriteData
    <3> QED BY <1>0, <3>1, FailsIsStill, StillDone
  <2>3. CASE check = {}
    <3>1. CmdWriteData(s) = SectorToWrite(t)
      BY <1>3, <2>3 DEF CmdWriteData
    <3>2. OnTrack(a.disk) /\ SameDisk(Under(s), a.disk)
      BY <2>3, UnderIs, FindIDIs
    <3> HIDE DEF a
    <3>3. Handled(s, t)
      BY <2>3, <3>2, ReadsAnswered, TookDone
    <3> HIDE DEF t
    <3>4. SectorToWrite(t) \in {ShiftToResultPhase7(t), ShiftToExecWritePhase(t, Bytes(t.id.n))}
      BY DEF SectorToWrite
    <3>5. Still(t, SectorToWrite(t))
      BY <3>3, <3>4, ShiftsAreStill DEF Handled, Stands
    <3> QED BY <3>1, <3>3, <3>5, StillAfter
  <2> QED BY <2>1, <2>2, <2>3
<1>4. CASE s.phase = "execwrite"
  <2> DEFINE t == WriteData(s)
  <2>1. Handled(s, t)
    BY WriteDone
  <2>2. CmdWriteData(s) = SectorWritten(t)
    BY <1>4 DEF CmdWriteData
  <2> HIDE DEF t
  <2>3. SectorWritten(t) \in {ShiftToResultPhase7(t), NextSector([t EXCEPT !.phase = "execute"])}
    BY DEF SectorWritten
  <2>4. Still(t, ShiftToResultPhase7(t))
    BY <2>1, ShiftsAreStill DEF Handled, Stands
  <2>5. Handled(s, NextSector([t EXCEPT !.phase = "execute"]))
    <3> DEFINE u == [t EXCEPT !.phase = "execute"]
    <3>1. Still(t, u)
      BY <2>1 DEF Still, Keeps, FieldNames, Stands, Handled
    <3> HIDE DEF u
    <3>2. Stands(u)
      BY <2>1, <3>1, StillStands DEF Handled
    <3>3. Stands(NextSector(u)) /\ NextSector(u).disk = u.disk
      BY <3>2, NextStands
    <3> QED BY <2>1, <3>1, <3>3, RestAfter DEF u, Still
  <2> QED BY <2>1, <2>2, <2>3, <2>4, <2>5, StillAfter
<1>5. CASE s.phase = "tc" /\ s.prev_phase = "execwrite"
  <2> DEFINE t == Flushed(DelTimer(s))
             u == WriteData(t)
  <2>1. Alike(s, t)
    BY <1>0, FlushedIsAlike
  <2>2. CmdWriteData(s) = ShiftToResultPhase7(u)
    BY <1>5 DEF CmdWriteData
  <2> HIDE DEF t
  <2>3. Handled(t, u)
    BY <2>1, StillStands, WriteDone DEF Alike
  <2> HIDE DEF u
  <2>4. Handled(s, u) /\ Still(u, ShiftToResultPhase7(u))
    BY <2>1, <2>3, AlikeBefore, ShiftsAreStill DEF Handled, Stands
  <2> QED BY <2>2, <2>4, StillAfter
<1>6. CASE s.phase = "tc" /\ s.prev_phase # "execwrite"
  BY <1>6, SectorCommandEnds DEF CmdWriteData
<1>7. CASE s.phase = "timer"
  <2>1. CmdWriteData(s) = Fails(s, {"AT", "EN"})
    BY <1>7 DEF CmdWriteData
  <2> QED BY <1>0, <2>1, FailsIsStill, StillDone
<1>8. CASE s.phase \notin {"idle", "command", "execute", "execwrite", "tc", "timer"}
  BY <1>8, NothingDone DEF CmdWriteData
<1> QED BY <1>1, <1>2, <1>3, <1>4, <1>5, <1>6, <1>7, <1>8

\* A failure, or any result.
LEMMA FailsDone == ASSUME NEW s, Stands(s), NEW r PROVE Handled(s, Fails(s, r))
BY FailsIsStill, StillDone DEF Stands

\* So does a timer that is set.
LEMMA TimerDone ==
  ASSUME NEW s, Stands(s), NEW x \in {"execute", "timer"} PROVE Handled(s, SetTimer(s, x))
BY TimerIsStill, StillDone DEF Stands

\* FDC::ReadID, the ID found or not.
LEMMA ReadIDDone == ASSUME NEW s, Stands(s) PROVE Handled(s, ReadIDNow(s))
<1> DEFINE found == ReadID(Under(s), Flags(s))
           e == found.disk
           id == Here(e)[found.sector].id
           t == [s EXCEPT !.disk[s.us] = e]
           u == [s EXCEPT !.disk[s.us] = e, !.id = id]
<1>1. CASE CheckCondition(s) # {}
  <2>1. ReadIDNow(s) = Fails(s, CheckCondition(s))
    BY <1>1 DEF ReadIDNow
  <2> QED BY <2>1, FailsDone
<1>2. CASE CheckCondition(s) = {}
  <2>1. ReadIDNow(s) \in {Fails(t, {"AT", "MA"}), Fails(u, {})}
    BY <1>2 DEF ReadIDNow, IDRead
  <2>2. OnTrack(e) /\ SameDisk(Under(s), e)
    BY <1>2, UnderIs, ReadIDIs
  <2> HIDE DEF id
  <2> HIDE DEF e
  <2>3. Answered(s, e)
    BY <1>2, <2>2, ReadsAnswered
  <2>4. /\ Keeps(s, t) /\ t.disk = [s.disk EXCEPT ![s.us] = e]
        /\ Keeps(s, u) /\ u.disk = [s.disk EXCEPT ![s.us] = e]
    BY DEF Keeps, FieldNames, Stands
  <2> HIDE DEF t, u
  <2>5. Handled(s, t) /\ Handled(s, u)
    BY <2>3, <2>4, DiskDone
  <2>6. Still(t, Fails(t, {"AT", "MA"})) /\ Still(u, Fails(u, {}))
    BY <2>5, FailsIsStill DEF Handled, Stands
  <2> QED BY <2>1, <2>5, <2>6, StillAfter
<1> QED BY <1>1, <1>2

\* The drive is waited for.
LEMMA IDWantedDone == ASSUME NEW s, Stands(s) PROVE Handled(s, IDWanted(s))
BY TimerDone DEF IDWanted

\* CmdReadID in each of its phases.
LEMMA ReadIDMoves ==
  ASSUME NEW s, Stands(s), Called(s)
  PROVE  Handled(s, CmdReadID(s))
<1>1. CASE s.phase = "idle"
  BY <1>1, ShiftsAreStill, StillDone DEF CmdReadID, Stands
<1>2. CASE s.phase = "command"
  <2> DEFINE t == [s EXCEPT !.us = s.buffer.us, !.hd = s.buffer.hd]
  <2>1. CmdReadID(s) = IDWanted(t)
    BY <1>2 DEF CmdReadID
  <2>2. s.buffer.us \in Addresses /\ s.buffer.hd \in Heads
    BY <1>2, FdcAssumption DEF Called
  <2>3. Stands(t) /\ t.disk = s.disk
    BY <2>2 DEF Stands, Placed, FieldNames
  <2> HIDE DEF t
  <2>4. IDWanted(t) = SetTimer(t, "execute") \/ IDWanted(t) = SetTimer(t, "timer")
    BY DEF IDWanted
  <2>5. Still(t, IDWanted(t))
    BY <2>3, <2>4, TimerIsStill DEF Stands
  <2> QED BY <2>1, <2>3, <2>5, RestDone, StillAfter
<1>3. CASE s.phase = "execute"
  BY <1>3, IDWantedDone DEF CmdReadID
<1>4. CASE s.phase = "timer"
  BY <1>4, ReadIDDone DEF CmdReadID
<1>5. CASE s.phase \notin {"idle", "command", "execute", "timer"}
  BY <1>5, NothingDone DEF CmdReadID
<1> QED BY <1>1, <1>2, <1>3, <1>4, <1>5

\* A track formatted.
LEMMA FormatDone == ASSUME NEW s, Stands(s) PROVE Handled(s, WriteIDNow(s))
<1> DEFINE a == WriteID(s.disk[s.us], Track(s), Flags(s), s.buffer, s.wid, Blank)
           t == Took(s, a)
           u == [t EXCEPT !.id.n = s.wid]
<1>1. CASE CheckCondition(s) # {}
  <2>1. WriteIDNow(s) = Fails(s, CheckCondition(s))
    BY <1>1 DEF WriteIDNow
  <2> QED BY <2>1, FailsDone
<1>2. CASE CheckCondition(s) = {}
  <2>1. WriteIDNow(s) = ShiftToResultPhase7(u)
    BY <1>2 DEF WriteIDNow
  <2>2. /\ s.us \in Drives /\ Readable(s.disk[s.us]) /\ Track(s) \in Cylinders \X Heads /\ s.wid \in Nat
    BY <1>2, UnderIs DEF Stands, Placed
  <2>3. Readable(a.disk) /\ Noted(s.disk[s.us], a.disk, FALSE)
    BY <2>2, WriteIDIs
  <2> HIDE DEF a
  <2>4. Answered(s, a.disk)
    BY <2>2, <2>3 DEF Answered, Noted
  <2>5. Handled(s, t)
    BY <2>4, TookDone
  <2> HIDE DEF t
  <2>6. Still(t, u)
    BY <2>5 DEF Handled, Stands, Still, Keeps, FieldNames
  <2> HIDE DEF u
  <2>7. Still(u, ShiftToResultPhase7(u))
    BY <2>6, ShiftsAreStill DEF Still, Keeps
  <2> QED BY <2>1, <2>5, <2>6, <2>7, StillTwice, StillAfter
<1> QED BY <1>1, <1>2

\* CmdWriteID in each of its phases.
LEMMA WriteIDPlaced ==
  ASSUME NEW s, Stands(s), Called(s)
  PROVE  Handled(s, CmdWriteID(s))
<1>1. CASE s.phase = "idle"
  BY <1>1, ShiftsAreStill, StillDone DEF CmdWriteID, Stands
<1>2. CASE s.phase = "command"
  <2> DEFINE p == s.buffer
             ids == <<[c |-> p.us, h |-> p.id.n, r |-> 0, n |-> 0]>>
             t == [s EXCEPT !.us = p.us, !.hd = p.hd, !.wid = p.id.n, !.eot = p.eot]
             u == [t EXCEPT !.buffer = ids]
  <2>1. CmdWriteID(s) \in {ShiftToExecWritePhase(t, p.eot), SetTimer(u, "timer")}
    BY <1>2 DEF CmdWriteID
  <2>2. p.us \in Addresses /\ p.hd \in Heads /\ p.id.n \in Nat
    BY <1>2, FdcAssumption DEF Called
  <2> HIDE DEF ids
  <2>3. Stands(t) /\ t.disk = s.disk
    BY <2>2 DEF Stands, Placed, FieldNames
  <2> HIDE DEF t
  <2>4. Still(t, u)
    BY <2>3 DEF Still, Keeps, FieldNames, Stands
  <2> HIDE DEF u
  <2>5. Still(t, ShiftToExecWritePhase(t, p.eot)) /\ Still(u, SetTimer(u, "timer"))
    BY <2>3, <2>4, ShiftsAreStill, TimerIsStill DEF Stands, Still, Keeps
  <2> QED BY <2>1, <2>3, <2>4, <2>5, StillTwice, RestDone, StillAfter
<1>3. CASE s.phase \in {"tc", "execwrite"}
  <2> DEFINE t == [s EXCEPT !.accept_tc = FALSE]
  <2>1. CmdWriteID(s) = SetTimer(t, "timer")
    BY <1>3 DEF CmdWriteID
  <2>2. Still(s, t)
    BY DEF Still, Keeps, FieldNames, Stands
  <2> HIDE DEF t
  <2>3. Still(t, SetTimer(t, "timer"))
    BY <2>2, TimerIsStill DEF Still, Keeps
  <2> QED BY <2>1, <2>2, <2>3, StillTwice, StillDone
<1>4. CASE s.phase = "timer"
  BY <1>4, FormatDone DEF CmdWriteID
<1>5. CASE s.phase \notin {"idle", "command", "execwrite", "tc", "timer"}
  BY <1>5, NothingDone DEF CmdWriteID
<1> QED BY <1>1, <1>2, <1>3, <1>4, <1>5

\* The copy of a track.
LEMMA NextInDiagStands ==
  ASSUME NEW s, Stands(s)
  PROVE  Stands(NextInDiag(s)) /\ NextInDiag(s).disk = s.disk
<1> DEFINE next == IF s.diag_at < Len(s.diag) THEN s.diag_at + 1 ELSE Least(1, Len(s.diag))
           r == IF next # 0 /\ s.diag[next].id = s.id THEN {} ELSE {"ND"}
           n == Len(s.diag)
<1>1. n \in Nat /\ s.diag_at \in 0..n
  BY DEF Stands, Placed
<1>2. next \in 0..n
  <2> HIDE DEF n
  <2>1. CASE s.diag_at < n
    <3>1. next = s.diag_at + 1
      BY <2>1 DEF n
    <3> HIDE DEF next
    <3> QED BY <1>1, <2>1, <3>1
  <2>2. CASE ~(s.diag_at < n)
    <3>1. next = Least(1, n)
      BY <2>2 DEF n
    <3> HIDE DEF next
    <3> QED BY <1>1, <2>2, <3>1 DEF Least
  <2> QED BY <2>1, <2>2
<1>3. NextInDiag(s) = [s EXCEPT !.diag_at = next, !.result = r]
  BY DEF NextInDiag, ReadDiag
<1> HIDE DEF r
<1> HIDE DEF next
<1>4. next \in 0..Len(s.diag)
  BY <1>2
<1> HIDE DEF n
<1> QED BY <1>3, <1>4 DEF Stands, Placed, FieldNames

\* FDC::ReadDiagnostic, at the first sector and at those after it.
LEMMA DiagDone == ASSUME NEW s, Stands(s) PROVE Handled(s, ReadDiagnostic(s))
<1> DEFINE e == Under(s)
           t == [s EXCEPT !.disk[s.us] = e]
           diag == SelectSeq(Here(t.disk[t.us]), LAMBDA x : Density(x.flags) = Flags(t))
           u == [t EXCEPT !.diag = diag]
<1>1. CASE s.diag_at # 0
  <2>1. ReadDiagnostic(s) = NextInDiag(s)
    BY <1>1 DEF ReadDiagnostic
  <2> QED BY <2>1, NextInDiagStands, RestDone
<1>2. CASE s.diag_at = 0 /\ CheckCondition(s) # {}
  <2>1. ReadDiagnostic(s) = Fails(s, CheckCondition(s))
    BY <1>2 DEF ReadDiagnostic
  <2> QED BY <2>1, FailsDone
<1>3. CASE s.diag_at = 0 /\ CheckCondition(s) = {}
  <2>1. ReadDiagnostic(s) = MakeDiagData(t)
    BY <1>3 DEF ReadDiagnostic
  <2>2. Answered(s, e)
    BY <1>3, UnderIs DEF Answered, OnTrack, Noted
  <2> HIDE DEF e
  <2>3. Keeps(s, t) /\ t.disk = [s.disk EXCEPT ![s.us] = e]
    BY DEF Keeps, FieldNames, Stands
  <2>4. MakeDiagData(t) \in {Fails(t, {"AT", "ND"}), NextInDiag(u)}
    BY DEF MakeDiagData
  <2> HIDE DEF t
  <2>5. Handled(s, t) /\ t.diag_at = 0
    BY <1>3, <2>2, <2>3, DiskDone DEF Keeps
  <2>6. Still(t, Fails(t, {"AT", "ND"}))
    BY <2>5, FailsIsStill DEF Handled, Stands
  <2>7. Stands(u) /\ u.disk = t.disk
    <3> HIDE DEF diag
    <3>1. 0 \in 0..Len(diag)
      OBVIOUS
    <3> QED BY <2>5, <3>1 DEF Handled, Stands, Placed, FieldNames
  <2> HIDE DEF u
  <2>8. Handled(s, NextInDiag(u))
    BY <2>5, <2>7, NextInDiagStands, RestAfter
  <2> QED BY <2>1, <2>4, <2>5, <2>6, <2>8, StillAfter
<1> QED BY <1>1, <1>2, <1>3

\* CmdReadDiagnostic in each of its phases.
LEMMA ReadDiagnosticMoves ==
  ASSUME NEW s, Stands(s), Called(s)
  PROVE  Handled(s, CmdReadDiagnostic(s))
<1>0. DOMAIN s = FieldNames
  BY DEF Stands
<1>1. CASE s.phase = "idle"
  <2> DEFINE t == ShiftToCommandPhase(s, 8)
             u == [t EXCEPT !.diag_at = 0]
  <2>1. CmdReadDiagnostic(s) = u
    BY <1>1 DEF CmdReadDiagnostic
  <2>2. Still(s, t)
    BY <1>0, ShiftsAreStill
  <2> HIDE DEF t
  <2>3. Stands(t)
    BY <2>2, StillStands
  <2>4. 0 \in 0..Len(t.diag)
    OBVIOUS
  <2>5. Stands(u) /\ u.disk = t.disk
    BY <2>3, <2>4 DEF Stands, Placed, FieldNames
  <2> QED BY <2>1, <2>2, <2>5, RestDone DEF Still
<1>2. CASE s.phase = "command"
  BY <1>2, SectorCommandBegins DEF CmdReadDiagnostic, Called
<1>3. CASE s.phase = "execute"
  <2> DEFINE t == ReadDiagnostic(s)
             w == Wraps(t)
             u == ShiftToExecReadPhase(t, Bytes(t.id.n))
             v == [u EXCEPT !.rest = w]
  <2>1. CmdReadDiagnostic(s) = DiagToRead(t)
    BY <1>3 DEF CmdReadDiagnostic
  <2>2. Handled(s, t)
    BY DiagDone
  <2> HIDE DEF t
  <2>3. DiagToRead(t) \in {ShiftToResultPhase7(t), v}
    BY DEF DiagToRead
  <2>4. Still(t, ShiftToResultPhase7(t)) /\ Still(t, u)
    BY <2>2, ShiftsAreStill DEF Handled, Stands
  <2> HIDE DEF u, w
  <2>5. Still(u, v)
    BY <2>4 DEF Still, Keeps, FieldNames
  <2> QED BY <2>1, <2>2, <2>3, <2>4, <2>5, StillTwice, StillAfter
<1>4. CASE s.phase = "execread"
  <2> DEFINE t == ShiftToExecReadPhase(s, Bytes(s.id.n))
             u == [t EXCEPT !.rest = FALSE]
  <2>1. CmdReadDiagnostic(s) \in {u, NextSector(s)}
    BY <1>4 DEF CmdReadDiagnostic
  <2>2. Still(s, t)
    BY <1>0, ShiftsAreStill
  <2> HIDE DEF t
  <2>3. Still(t, u)
    BY <2>2 DEF Still, Keeps, FieldNames
  <2> QED BY <2>1, <2>2, <2>3, StillTwice, StillDone, NextStands, RestDone
<1>5. CASE s.phase = "tc"
  BY <1>5, SectorCommandEnds DEF CmdReadDiagnostic
<1>6. CASE s.phase = "timer"
  <2>1. CmdReadDiagnostic(s) = Fails(s, {"AT", "EN"})
    BY <1>6 DEF CmdReadDiagnostic
  <2> QED BY <2>1, FailsDone
<1>7. CASE s.phase \notin {"idle", "command", "execute", "execread", "tc", "timer"}
  BY <1>7, NothingDone DEF CmdReadDiagnostic
<1> QED BY <1>1, <1>2, <1>3, <1>4, <1>5, <1>6, <1>7

\* A seek goes to a track of a disk.
LEMMA SeekToStands ==
  ASSUME NEW s, Stands(s), NEW dr \in Addresses, NEW cy \in Cylinders
  PROVE  Stands(SeekTo(s, dr, cy)) /\ SeekTo(s, dr, cy).disk = s.disk
<1>1. CASE dr \notin Drives
  <2> DEFINE results == [s.dresult EXCEPT ![dr] = {"SE", "NR", "AT"}]
  <2>1. SeekTo(s, dr, cy) = [s EXCEPT !.us = dr, !.dresult = results, !.intr = TRUE, !.int_requested = TRUE]
    BY <1>1 DEF SeekTo, Stands, FieldNames
  <2>2. DOMAIN results = Addresses
    BY DEF Stands, Placed
  <2> HIDE DEF results
  <2> QED BY <2>1, <2>2 DEF Stands, Placed, FieldNames
<1>2. CASE dr \in Drives
  <2> DEFINE cs == [s.cylinder EXCEPT ![dr] = cy]
             n == s.seeks[dr] + 1
             busy == s.seek_state \union {dr}
  <2>1. SeekTo(s, dr, cy) = [s EXCEPT !.us = dr, !.cylinder = cs, !.seeks[dr] = n, !.seek_state = busy]
    BY <1>2 DEF SeekTo, Stands, FieldNames
  <2>2. cs \in [Addresses -> Cylinders]
    BY DEF Stands, Placed
  <2> HIDE DEF cs, n, busy
  <2> QED BY <2>1, <2>2 DEF Stands, Placed, FieldNames
<1> QED BY <1>1, <1>2

\* CmdSeek and CmdRecalibrate; the head itself moves when the seek ends.
LEMMA SeekMoves ==
  ASSUME NEW s, Stands(s), Called(s)
  PROVE  Handled(s, CmdSeek(s)) /\ Handled(s, CmdRecalibrate(s))
<1>1. CASE s.phase = "idle"
  BY <1>1, ShiftsAreStill, StillDone DEF CmdSeek, CmdRecalibrate, Stands
<1>2. CASE s.phase = "command"
  <2>1. s.buffer \in Parameters
    BY <1>2 DEF Called
  <2>2. s.buffer.us \in Addresses /\ s.buffer.id.c \in Cylinders /\ 0 \in Cylinders
    BY <2>1, FdcAssumption DEF Cylinders
  <2> DEFINE t == SeekTo(s, s.buffer.us, s.buffer.id.c)
             u == SeekTo(s, s.buffer.us, 0)
  <2>3. Stands(t) /\ t.disk = s.disk /\ Stands(u) /\ u.disk = s.disk
    BY <2>2, SeekToStands
  <2>4. CmdSeek(s) = ShiftToIdlePhase(t) /\ CmdRecalibrate(s) = ShiftToIdlePhase(u)
    BY <1>2 DEF CmdSeek, CmdRecalibrate
  <2> HIDE DEF t, u
  <2>5. Still(t, ShiftToIdlePhase(t)) /\ Still(u, ShiftToIdlePhase(u))
    BY <2>3, ShiftsAreStill DEF Stands
  <2> QED BY <2>3, <2>4, <2>5, RestDone, StillAfter
<1>3. CASE s.phase \notin {"idle", "command"}
  BY <1>3, NothingDone DEF CmdSeek, CmdRecalibrate
<1> QED BY <1>1, <1>2, <1>3

\* The commands that touch no disk.
LEMMA OthersMove ==
  ASSUME NEW s, Stands(s)
  PROVE  /\ Handled(s, CmdSpecify(s)) /\ Handled(s, CmdInvalid(s))
         /\ Called(s) => Handled(s, CmdSenceDeviceStatus(s))
<1>0. DOMAIN s = FieldNames
  BY DEF Stands
<1>1. Handled(s, CmdSpecify(s))
  BY <1>0, ShiftsAreStill, StillDone, NothingDone DEF CmdSpecify
<1>2. Handled(s, CmdInvalid(s))
  BY <1>0, ShiftsAreStill, StillDone DEF CmdInvalid
<1>3. ASSUME Called(s) PROVE Handled(s, CmdSenceDeviceStatus(s))
  <2>1. CASE s.phase = "idle"
    BY <1>0, <2>1, ShiftsAreStill, StillDone DEF CmdSenceDeviceStatus
  <2>2. CASE s.phase = "command"
    <3> DEFINE t == [s EXCEPT !.us = s.buffer.us]
    <3>1. CmdSenceDeviceStatus(s) = ShiftToResultPhase(t, 1)
      BY <2>2 DEF CmdSenceDeviceStatus
    <3>2. s.buffer.us \in Addresses
      BY <1>3, <2>2, FdcAssumption DEF Called
    <3>3. Stands(t) /\ t.disk = s.disk
      BY <3>2 DEF Stands, Placed, FieldNames
    <3> HIDE DEF t
    <3>4. Still(t, ShiftToResultPhase(t, 1))
      BY <3>3, ShiftsAreStill DEF Stands
    <3> QED BY <3>1, <3>3, <3>4, RestDone, StillAfter
  <2>3. CASE s.phase \notin {"idle", "command"}
    BY <2>3, NothingDone DEF CmdSenceDeviceStatus
  <2> QED BY <2>1, <2>2, <2>3
<1> QED BY <1>1, <1>2, <1>3

\* CmdSenceIntStatus moves nothing.
LEMMA SenceIntStill ==
  ASSUME NEW s, DOMAIN s = FieldNames
  PROVE  Still(s, CmdSenceIntStatus(s))
<1> DEFINE reporting == {dr \in Addresses : s.dresult[dr] # {}}
           i == Min(reporting)
           more == reporting # {i}
           results == [s.dresult EXCEPT ![i] = {}]
           t == [s EXCEPT !.dresult = results, !.int_requested = more]
           u == [s EXCEPT !.int_requested = FALSE]
<1>1. CmdSenceIntStatus(s) \in {ShiftToResultPhase(s, 1), u, ShiftToResultPhase(t, 2)}
  BY DEF CmdSenceIntStatus, FieldNames
<1>a. DOMAIN results = DOMAIN s.dresult
  OBVIOUS
<1> HIDE DEF more
<1> HIDE DEF i, results
<1>2. Still(s, u) /\ Still(s, t)
  BY <1>a DEF Still, Keeps, FieldNames
<1> HIDE DEF t, u
<1>3. Still(s, ShiftToResultPhase(s, 1))
  BY ShiftsAreStill
<1>4. Still(t, ShiftToResultPhase(t, 2))
  <2>1. DOMAIN t = FieldNames
    BY <1>2 DEF Still, Keeps
  <2> QED BY <2>1, ShiftsAreStill
<1> QED BY <1>1, <1>2, <1>3, <1>4, StillTwice

\* Every handler keeps the heads on their tracks, and marks the disk it changes.
LEMMA TableDone == ASSUME NEW s, Stands(s), Called(s) PROVE Handled(s, CommandTable(s))
<1>1. /\ Handled(s, CmdReadData(s)) /\ Handled(s, CmdScanEqual(s)) /\ Handled(s, CmdReadDiagnostic(s))
      /\ s.command.op = "WriteData" => Handled(s, CmdWriteData(s))
  BY ReadDataMoves, WriteDataMoves, ScanMoves, ReadDiagnosticMoves
<1>2. Handled(s, CmdReadID(s)) /\ Handled(s, CmdWriteID(s))
  BY ReadIDMoves, WriteIDPlaced
<1>3. /\ Handled(s, CmdSeek(s)) /\ Handled(s, CmdRecalibrate(s)) /\ Handled(s, CmdSenceDeviceStatus(s))
      /\ Handled(s, CmdSpecify(s)) /\ Handled(s, CmdInvalid(s))
  BY SeekMoves, OthersMove
<1>4. Handled(s, CmdSenceIntStatus(s))
  BY SenceIntStill, StillDone DEF Stands
<1> QED BY <1>1, <1>2, <1>3, <1>4 DEF CommandTable

\* A byte of a transfer.
LEMMA MovedDone ==
  ASSUME NEW s, Stands(s), s.phase # "command"
  PROVE  Handled(s, Moved(s))
<1> DEFINE n == s.count - 1
           status == s.status \union {"RQM"}
           rest == s.status \ {"NDM"}
           t == [s EXCEPT !.count = n, !.status = status, !.intr = TRUE]
           u == [s EXCEPT !.count = 0, !.status = rest]
<1>1. Moved(s) \in {t, CommandTable(u)}
  BY DEF Moved, Stands, FieldNames
<1> HIDE DEF n, status, rest
<1>2. Alike(s, t) /\ Alike(s, u) /\ u.phase = s.phase
  BY DEF Alike, Still, Keeps, FieldNames, Stands
<1> HIDE DEF t, u
<1>3. Stands(u)
  BY <1>2, StillStands DEF Alike
<1>4. Called(u)
  BY <1>2 DEF Called
<1>5. Handled(s, CommandTable(u)) /\ Handled(s, t)
  BY <1>2, <1>3, <1>4, TableDone, AlikeBefore, StillDone DEF Alike
<1> QED BY <1>1, <1>5

\* Access to the data register moves no head.
LEMMA TakenIsAlike == ASSUME NEW s, DOMAIN s = FieldNames PROVE Alike(s, Taken(s))
<1> DEFINE rest == s.status \ {"RQM"}
<1> HIDE DEF rest
<1> QED BY DEF Taken, Alike, Still, Keeps, FieldNames, rest

\* Nothing is written when a command is given.
LEMMA CommandRests == ASSUME NEW s, Stands(s), s.phase = "idle" PROVE CommandTable(s).disk = s.disk
<1>0. DOMAIN s = FieldNames
  BY DEF Stands
<1>1. \A n : ShiftToCommandPhase(s, n).disk = s.disk /\ ShiftToResultPhase(s, n).disk = s.disk
  BY <1>0, ShiftsAreStill DEF Still
<1>2. /\ CmdReadData(s).disk = s.disk /\ CmdWriteData(s).disk = s.disk /\ CmdScanEqual(s).disk = s.disk
      /\ CmdReadID(s).disk = s.disk /\ CmdWriteID(s).disk = s.disk
  BY <1>1 DEF CmdReadData, CmdWriteData, CmdScanEqual, CmdReadID, CmdWriteID
<1>3. CmdReadDiagnostic(s).disk = s.disk
  <2> DEFINE t == ShiftToCommandPhase(s, 8)
  <2>1. CmdReadDiagnostic(s) = [t EXCEPT !.diag_at = 0]
    BY DEF CmdReadDiagnostic
  <2>2. Still(s, t)
    BY <1>0, ShiftsAreStill
  <2> HIDE DEF t
  <2> QED BY <2>1, <2>2 DEF Still, Keeps, FieldNames
<1>4. /\ CmdSeek(s).disk = s.disk /\ CmdRecalibrate(s).disk = s.disk /\ CmdSpecify(s).disk = s.disk
      /\ CmdSenceDeviceStatus(s).disk = s.disk /\ CmdInvalid(s).disk = s.disk
  BY <1>1 DEF CmdSeek, CmdRecalibrate, CmdSpecify, CmdSenceDeviceStatus, CmdInvalid
<1>5. CmdSenceIntStatus(s).disk = s.disk
  BY <1>0, SenceIntStill DEF Still
<1> QED BY <1>2, <1>3, <1>4, <1>5 DEF CommandTable

\* One lemma for each action that calls a handler: a command,
LEMMA CommandPlaces ==
  ASSUME Stands(fdc), GiveCommand
  PROVE  Handled(fdc, fdc')
<1>0. DOMAIN fdc = FieldNames
  BY DEF Stands
<1>1. PICK c \in Commands : fdc.phase = "idle" /\ fdc' = [SetCommand(fdc, c) EXCEPT !.given = @ + 1]
  BY DEF GiveCommand
<1> DEFINE u == Taken(fdc)
           t == [u EXCEPT !.command = c]
           v == CommandTable(t)
           n == v.given + 1
           w == [v EXCEPT !.given = n]
<1>2. fdc' = w
  BY <1>1 DEF SetCommand
<1>3. Still(fdc, u) /\ u.phase = "idle"
  BY <1>0, <1>1, TakenIsAlike, TakenIs DEF Alike
<1> HIDE DEF u
<1>4. Still(fdc, t) /\ t.phase = "idle"
  BY <1>3 DEF Still, Keeps, FieldNames
<1> HIDE DEF t
<1>5. Stands(t) /\ Called(t)
  BY <1>4, StillStands DEF Called
<1>6. Stands(v) /\ v.disk = t.disk
  BY <1>4, <1>5, TableDone, CommandRests DEF Handled
<1> HIDE DEF v, n
<1>7. Still(v, w)
  BY <1>6 DEF Still, Keeps, FieldNames, Stands
<1> QED BY <1>2, <1>4, <1>6, <1>7, RestDone, StillAfter DEF Still

\* a parameter,
LEMMA ParameterPlaces ==
  ASSUME Stands(fdc), GiveParameter
  PROVE  Handled(fdc, fdc')
<1>0. DOMAIN fdc = FieldNames
  BY DEF Stands
<1>1. PICK p \in Parameters : fdc.phase = "command" /\ "RQM" \in fdc.status /\ fdc' = SetParameter(fdc, p)
  BY DEF GiveParameter, Accepts
<1> DEFINE u == Taken(fdc)
           n == u.count - 1
           status == u.status \union {"RQM"}
           t == [u EXCEPT !.count = n, !.status = status]
           v == [u EXCEPT !.count = 0, !.buffer = p]
<1>3. Alike(fdc, u) /\ u.phase = "command"
  BY <1>0, <1>1, TakenIsAlike, TakenIs
<1>4. fdc' \in {t, CommandTable(v)}
  BY <1>0, <1>1, <1>3 DEF SetParameter, Alike, Still, Keeps, FieldNames
<1> HIDE DEF u, n, status
<1>5. Alike(fdc, t) /\ Alike(fdc, v) /\ v.phase = "command" /\ v.buffer = p
  BY <1>3 DEF Alike, Still, Keeps, FieldNames
<1> HIDE DEF t, v
<1>6. Stands(v) /\ Called(v)
  BY <1>5, StillStands DEF Called, Alike
<1> QED BY <1>0, <1>4, <1>5, <1>6, TableDone, AlikeBefore, StillDone DEF Alike

\* a byte of data,
LEMMA DataPlaces ==
  ASSUME Stands(fdc), GiveData
  PROVE  Handled(fdc, fdc')
<1>0. DOMAIN fdc = FieldNames
  BY DEF Stands
<1>1. PICK d : /\ fdc.phase \notin {"idle", "command"} /\ "RQM" \in fdc.status /\ "DIO" \notin fdc.status
               /\ fdc' = SetData(fdc, d)
  BY DEF GiveData, Accepts
<1> DEFINE u == Taken(fdc)
           b == Append(u.buffer, d)
           r == u.result \ {"SH"}
           v == [u EXCEPT !.buffer = b]
           w == [u EXCEPT !.result = r]
<1>2. Alike(fdc, u) /\ u.phase = fdc.phase
  BY <1>0, TakenIsAlike, TakenIs
<1>3. fdc' \in {u, Moved(u), Moved(v), Moved(w)}
  BY <1>1 DEF SetData, Compared
<1> HIDE DEF u, b, r
<1>4. Alike(fdc, v) /\ Alike(fdc, w) /\ v.phase = u.phase /\ w.phase = u.phase
  BY <1>2 DEF Alike, Still, Keeps, FieldNames
<1> HIDE DEF v, w
<1>5. Stands(u) /\ Stands(v) /\ Stands(w) /\ u.phase # "command"
  BY <1>1, <1>2, <1>4, StillStands DEF Alike
<1>6. Handled(fdc, Moved(u)) /\ Handled(fdc, Moved(v)) /\ Handled(fdc, Moved(w))
  BY <1>2, <1>4, <1>5, MovedDone, AlikeBefore
<1> QED BY <1>2, <1>3, <1>6, StillDone DEF Alike

\* a byte taken,
LEMMA TakingPlaces ==
  ASSUME Stands(fdc), TakeData
  PROVE  Handled(fdc, fdc')
<1>0. DOMAIN fdc = FieldNames
  BY DEF Stands
<1>1. fdc' = GetData(fdc)
  BY DEF TakeData
<1> DEFINE u == Taken(fdc)
<1>2. Alike(fdc, u) /\ u.phase = fdc.phase
  BY <1>0, TakenIsAlike, TakenIs
<1>3. CASE fdc.phase = "execread"
  <2>1. fdc' = Moved(u)
    BY <1>1, <1>3 DEF GetData
  <2> HIDE DEF u
  <2>2. Stands(u) /\ u.phase # "command"
    BY <1>2, <1>3, StillStands DEF Alike
  <2> QED BY <1>2, <2>1, <2>2, MovedDone, AlikeBefore
<1>4. CASE fdc.phase = "result"
  <2> DEFINE n == u.count - 1
             status == u.status \union {"RQM"}
             t == [u EXCEPT !.count = n, !.status = status]
             v == [u EXCEPT !.count = 0]
  <2>1. fdc' \in {t, ShiftToIdlePhase(v)}
    BY <1>1, <1>2, <1>4 DEF GetData, GetResult, Alike, Still, Keeps, FieldNames
  <2> HIDE DEF u, n, status
  <2>2. Still(fdc, t) /\ Still(fdc, v)
    BY <1>2 DEF Alike, Still, Keeps, FieldNames
  <2> HIDE DEF t, v
  <2>3. Still(fdc, ShiftToIdlePhase(v))
    BY <2>2, ShiftsAreStill, StillTwice DEF Still, Keeps
  <2> QED BY <2>1, <2>2, <2>3, StillDone
<1>5. CASE fdc.phase \notin {"execread", "result"}
  <2>1. fdc' = u
    BY <1>1, <1>5 DEF GetData
  <2> QED BY <1>2, <2>1, StillDone DEF Alike
<1> QED BY <1>3, <1>4, <1>5

\* TC,
LEMMA EndPlaces ==
  ASSUME Stands(fdc), EndTransfer
  PROVE  Handled(fdc, fdc')
<1>1. PICK slot \in InSlot(fdc) :
        fdc' = [TC([fdc EXCEPT !.slot = slot]) EXCEPT !.slot = {}]
  BY DEF EndTransfer
<1> DEFINE t == [fdc EXCEPT !.slot = slot, !.prev_phase = fdc.phase, !.phase = "tc", !.accept_tc = FALSE]
           u == CommandTable(t)
<1>2. fdc' = [u EXCEPT !.slot = {}]
  <2>1. TC([fdc EXCEPT !.slot = slot]) = u
    BY DEF TC, Stands, FieldNames
  <2> HIDE DEF u
  <2> QED BY <1>1, <2>1
<1>3. Alike(fdc, t) /\ t.phase = "tc"
  BY DEF Alike, Still, Keeps, FieldNames, Stands
<1> HIDE DEF t
<1>4. Stands(t) /\ Called(t)
  BY <1>3, StillStands DEF Called, Alike
<1>5. Handled(fdc, u)
  BY <1>3, <1>4, TableDone, AlikeBefore
<1> HIDE DEF u
<1>6. Still(u, fdc')
  BY <1>2, <1>5 DEF Still, Keeps, FieldNames, Handled, Stands
<1> QED BY <1>5, <1>6, StillAfter

\* and the timer.
LEMMA TimerPlaces ==
  ASSUME Stands(fdc), TimerFires
  PROVE  Handled(fdc, fdc')
<1>1. PICK i \in DOMAIN fdc.timers, ids \in IDsLeft(fdc) :
        fdc' = PhaseTimer([fdc EXCEPT !.buffer = ids], i)
  BY DEF TimerFires
<1> DEFINE q == RemoveAt(fdc.timers, i)
           p == fdc.timers[i]
           t == [fdc EXCEPT !.buffer = ids, !.handle = "null", !.timers = q, !.phase = p]
<1>2. fdc' = CommandTable(t)
  BY <1>1 DEF PhaseTimer, Stands, FieldNames
<1>3. fdc.timers \in Seq({"execute", "timer"}) /\ i \in 1..Len(fdc.timers)
  BY <1>1 DEF Stands, Placed
<1>4. p # "command" /\ (Timing(fdc.timers, fdc.t_phase) => Timing(q, fdc.t_phase))
  <2>1. p \in {"execute", "timer"}
    BY <1>3
  <2>2. q \in Seq({"execute", "timer"})
    BY <1>3 DEF RemoveAt
  <2> QED BY <2>1, <2>2 DEF Timing
<1> HIDE DEF q, p
<1>5. Alike(fdc, t) /\ t.phase = p
  BY <1>4 DEF Alike, Still, Keeps, FieldNames, Stands
<1> HIDE DEF t
<1>6. Stands(t) /\ Called(t)
  BY <1>4, <1>5, StillStands DEF Called, Alike
<1> QED BY <1>2, <1>5, <1>6, TableDone, AlikeBefore

\* The steps that call none: resets, seeks, disks put in and taken out, snapshots.
LEMMA ResetPlaces ==
  ASSUME Stands(fdc), ResetFdc \/ SwitchDrives \/ UNCHANGED fdcVars
  PROVE  Handled(fdc, fdc')
<1>1. CASE ResetFdc
  <2> DEFINE h == IF fdc.handle = "own" THEN "stale" ELSE fdc.handle
             none == [dr \in Addresses |-> 0]
  <2>1. fdc' = [DriveControl(ShiftToIdlePhase(fdc), {}) EXCEPT
       !.int_requested = FALSE, !.intr = FALSE, !.timers = <<>>, !.seeks = none, !.handle = h]
    BY <1>1 DEF ResetFdc, Reset, DriveControl, ShiftToIdlePhase, Stands, FieldNames
  <2> HIDE DEF h, none
  <2>2. Timing(<<>>, fdc.t_phase)
    BY DEF Stands, Placed, Timing
  <2>3. Still(fdc, fdc')
    BY <2>1, <2>2 DEF DriveControl, ShiftToIdlePhase, Still, Keeps, FieldNames, Stands
  <2> QED BY <2>3, StillDone
<1>2. CASE SwitchDrives
  <2>1. PICK mode \in DriveModes : fdc' = DriveControl(fdc, mode)
    BY <1>2 DEF SwitchDrives
  <2>2. Still(fdc, fdc')
    BY <2>1 DEF DriveControl, Still, Keeps, FieldNames, Stands
  <2> QED BY <2>2, StillDone
<1>3. CASE UNCHANGED fdcVars
  BY <1>3, NothingDone DEF fdcVars
<1> QED BY <1>1, <1>2, <1>3

\* A seek ends on the cylinder it was for;
LEMMA SeekPlaces ==
  ASSUME Stands(fdc), SeekDone
  PROVE  Handled(fdc, fdc')
<1>1. PICK dr \in Drives : fdc' = SeekEvent(fdc, dr)
  BY DEF SeekDone
<1> DEFINE n == fdc.seeks[dr] - 1
           cy == fdc.cylinder[dr]
           unit == [fdc.unit EXCEPT ![dr] = cy]
           busy == fdc.seek_state \ {dr}
           results == [fdc.dresult EXCEPT ![dr] = {"SE"}]
           seeks == [fdc.seeks EXCEPT ![dr] = n]
<1>2. fdc' = [fdc EXCEPT !.seeks = seeks, !.unit = unit, !.dresult = results,
                !.intr = TRUE, !.int_requested = TRUE, !.seek_state = busy]
  BY <1>1 DEF SeekEvent, Stands, FieldNames
<1>3. unit \in [Drives -> Cylinders] /\ DOMAIN results = Addresses
  BY FdcAssumption DEF Stands, Placed
<1> HIDE DEF unit, seeks, results, busy
<1>4. Stands(fdc') /\ fdc'.disk = fdc.disk
  BY <1>2, <1>3 DEF Stands, Placed, FieldNames
<1> QED BY <1>4, RestDone

\* a disk put in can be read, and none that is exchanged was written to by the drive;
LEMMA ChangePlaces ==
  ASSUME Stands(fdc), ChangeDisk
  PROVE  Handled(fdc, fdc')
<1>1. PICK dr \in Drives : \E d \in Disks \union {NoDisk} :
        (fdc.disk[dr] = NoDisk) # (d = NoDisk) /\ fdc' = [fdc EXCEPT !.disk[dr] = d]
  BY DEF ChangeDisk
<1>2. PICK d \in Disks \union {NoDisk} :
        (fdc.disk[dr] = NoDisk) # (d = NoDisk) /\ fdc' = [fdc EXCEPT !.disk[dr] = d]
  BY <1>1
<1>3. fdc'.disk = [fdc.disk EXCEPT ![dr] = d] /\ Keeps(fdc, fdc')
  BY <1>2 DEF Stands, FieldNames, Keeps
<1>4. d # NoDisk => Readable(d)
  BY FdcAssumption
<1>5. Placed(fdc')
  BY <1>3, <1>4 DEF Stands, Placed, Keeps, Timing
<1>6. \A e \in Drives : fdc'.disk[e] = IF e = dr THEN d ELSE fdc.disk[e]
  BY <1>3 DEF Stands, Placed
<1>7. Marked(fdc, fdc')
  BY <1>2, <1>6 DEF Marked, Noted
<1> QED BY <1>3, <1>5, <1>7 DEF Handled, Stands, Keeps

\* and a snapshot was taken with the heads on their tracks.
LEMMA LoadPlaces ==
  ASSUME Stands(fdc), LoadSnapshot
  PROVE  Handled(fdc, fdc')
<1>1. PICK p \in Paused : fdc' = LoadStatus(fdc, SaveStatus(p.at))
  BY DEF LoadSnapshot
<1> DEFINE s == p.at
<1>2. Stands(s) /\ Drives \subseteq Addresses
  BY FdcAssumption, FieldsAre DEF Stands, Placed
<1> HIDE DEF s
<1> DEFINE result == s.result \intersect {"AT", "NR", "SE", "EC"}
           phase == IF s.handle = "null" THEN "idle" ELSE s.t_phase
           dresult == [dr \in Drives |-> s.dresult[dr]]
           saved == [s EXCEPT !.result = result, !.t_phase = phase, !.dresult = dresult]
<1>3. SaveStatus(s) = saved
  BY <1>2 DEF SaveStatus, Stands, FieldNames
<1>4. phase \in {"idle", "execute", "timer"}
  BY <1>2 DEF Stands, Placed
<1> HIDE DEF phase
<1> HIDE DEF result
<1> HIDE DEF dresult
<1>5. /\ DOMAIN saved = FieldNames /\ saved.us = s.us /\ saved.hd = s.hd /\ saved.wid = s.wid
      /\ saved.cylinder = s.cylinder /\ saved.diag = s.diag /\ saved.diag_at = s.diag_at
      /\ saved.t_phase = phase
  BY <1>2 DEF FieldNames, Stands
<1> HIDE DEF saved
<1> DEFINE timers == IF saved.t_phase = "idle" THEN <<>> ELSE <<saved.t_phase>>
           h == IF saved.t_phase # "idle" THEN "own" ELSE IF fdc.handle = "own" THEN "stale" ELSE fdc.handle
           seeks == [dr \in Addresses |-> IF dr \in saved.seek_state \cap Drives THEN 1 ELSE 0]
           both == [dr \in Addresses |-> IF dr \in Drives THEN saved.dresult[dr] ELSE fdc.dresult[dr]]
           unit == [dr \in Drives |-> saved.cylinder[dr]]
           n == fdc.given + 1
           t == [saved EXCEPT !.disk = fdc.disk, !.intr = fdc.intr, !.given = n,
                   !.timers = timers, !.handle = h, !.seeks = seeks, !.dresult = both, !.unit = unit]
<1>6. fdc' = t
  BY <1>1, <1>3 DEF LoadStatus, s
<1>7. unit \in [Drives -> Cylinders] /\ DOMAIN both = Addresses
  BY <1>2, <1>5 DEF Stands, Placed
<1>8. timers \in Seq({"execute", "timer"})
  <2>1. CASE saved.t_phase = "idle"
    BY <2>1
  <2>2. CASE saved.t_phase # "idle"
    BY <1>4, <1>5, <2>2
  <2> QED BY <2>1, <2>2
<1> HIDE DEF timers, h, seeks, both, unit, n
<1>9. /\ DOMAIN t = FieldNames /\ t.disk = fdc.disk /\ t.us = s.us /\ t.hd = s.hd /\ t.wid = s.wid
      /\ t.unit = unit /\ t.cylinder = s.cylinder /\ t.diag = s.diag /\ t.diag_at = s.diag_at
      /\ t.timers = timers /\ t.t_phase = phase /\ t.dresult = both
  BY <1>5 DEF FieldNames
<1> HIDE DEF t
<1>10. Stands(t) /\ t.disk = fdc.disk
  BY <1>2, <1>4, <1>7, <1>8, <1>9, FieldsAre DEF Stands, Placed
<1> QED BY <1>6, <1>10, RestDone

\* The controller begins with the heads on the outermost track and no disk,
LEMMA PowerOnIsPlaced == FdcInit => Placed(fdc)
<1> SUFFICES ASSUME FdcInit PROVE Placed(PowerOn)
  BY DEF FdcInit
<1>1. 0 \in Addresses /\ 0 \in Heads /\ 0 \in Cylinders /\ 0 \in Nat /\ 0 \in 0..Len(<<>>)
  BY DEF Addresses, Heads, Cylinders
<1> QED BY <1>1 DEF PowerOn, Placed

\* and every step keeps them on a track, and marks the disk it changes, also when a
\* snapshot was loaded that the code cannot resume.
LEMMA StepPlaces ==
  ASSUME Placed(fdc), [FdcNext]_fdcVars
  PROVE  Handled(fdc, fdc')
<1>1. Stands(fdc)
  BY FieldsAre DEF Stands, Placed
<1> QED BY <1>1, CommandPlaces, ParameterPlaces, DataPlaces, TakingPlaces, EndPlaces, TimerPlaces,
           ResetPlaces, SeekPlaces, ChangePlaces, LoadPlaces DEF FdcNext, CpuServes

\* Whatever the CPU does, and whatever disks are put in, formatted and written to, a search,
\* a format or a sector that grows over those behind it leaves the head of a drive on a
\* sector of the track under it, or before the first (FloppyDisk::Resize, FormatTrack,
\* GetSector), and ReadDiagnostic on a sector of its copy.
THEOREM HeadStaysOnTrack == FdcSpec => []HeadOnTrack
<1>1. FdcInit => Placed(fdc)
  BY PowerOnIsPlaced
<1>2. Placed(fdc) /\ [FdcNext]_fdcVars => Placed(fdc)'
  BY StepPlaces DEF Handled, Stands
<1>3. Placed(fdc) => HeadOnTrack
  BY DEF Placed, Readable, HeadOnTrack
<1> QED BY <1>1, <1>2, <1>3, PTL DEF FdcSpec

\* A disk whose tab is set never changes, and a change of one of the tracks that Modified
\* takes notice of is marked for the disk to be written back (FDU::WriteSector, WriteID), but
\* for the sectors a write runs over when it needs more room than the track has.
THEOREM ChangesAreMarked == FdcSpec => ChangesMarked
<1> DEFINE Declared == \A dr \in Drives :
             fdc.disk[dr] # NoDisk /\ fdc'.disk[dr] # NoDisk =>
               \A tr \in DOMAIN fdc.disk[dr].tracks :
                 fdc'.disk[dr].tracks[tr] # fdc.disk[dr].tracks[tr] =>
                   /\ ~fdc.disk[dr].readonly
                   /\ Number(tr) < MarkedTracks => fdc'.disk[dr].marked \/ Overruns(fdc)
<1>1. FdcInit => Placed(fdc)
  BY PowerOnIsPlaced
<1>2. Placed(fdc) /\ [FdcNext]_fdcVars => Placed(fdc)' /\ [Declared]_fdc
  BY StepPlaces DEF Handled, Stands, Marked, Noted
<1>3. FdcSpec => [][Declared]_fdc
  BY <1>1, <1>2, PTL DEF FdcSpec
<1> QED BY <1>3 DEF ChangesMarked

\* Between two handlers the controller waits for the drive with exactly one timer and no
\* request for a byte, or for the CPU with a request and no timer, or runs out a transfer TC
\* has ended; its handle names the timer that is there, or is not to be deleted by; a request
\* to be asked for an interrupt has a drive's result behind it.  A snapshot that the load
\* cannot restore (Misleads) ends this, until the next Reset.
THEOREM ControllerIsCoherent == FdcSpec => []Coherent
<1>1. FdcInit => Placed(fdc) /\ Coherent
  BY PowerOnIsPlaced, PowerOnIsCoherent
<1>2. Placed(fdc) /\ Coherent /\ [FdcNext]_fdcVars => (Placed(fdc) /\ Coherent)'
  BY StepPlaces, StepIsCoherent DEF Handled, Stands
<1> QED BY <1>1, <1>2, PTL DEF FdcSpec

\* So it is never left with nobody to act: there is always a request or a timer, never more
\* than one, an interrupt that was signalled has something to report, and TC deletes no
\* event but the controller's own (FDC::DelTimer); only from the load of a snapshot that
\* misleads the controller to the next Reset is it otherwise.
THEOREM ControllerIsNeverMute == FdcSpec => []FdcAlive
<1>1. FdcInit => Placed(fdc) /\ Coherent
  BY PowerOnIsPlaced, PowerOnIsCoherent
<1>2. Placed(fdc) /\ Coherent /\ [FdcNext]_fdcVars => (Placed(fdc) /\ Coherent)'
  BY StepPlaces, StepIsCoherent DEF Handled, Stands
<1>3. Placed(fdc) /\ Coherent => FdcAlive
  BY CoherentIsAlive
<1> QED BY <1>1, <1>2, <1>3, PTL DEF FdcSpec
-----------------------------------------------------------------------------
(* The ports between the two CPUs: what a snapshot brings back.             *)

\* The fields of the ports.
LEMMA PortFields ==
  /\ DOMAIN SubPowerOn = {"main", "sub", "idle"}
  /\ DOMAIN PowerOnPio = {"port", "mask", "cw"}
BY DEF SubPowerOn, PowerOnPio

\* A side as it should be.
Together(p) == DOMAIN p = DOMAIN PowerOnPio /\ p.cw = p.mask

\* What is done to a side leaves the directions and the control word together.
LEMMA SideKept ==
  ASSUME NEW p, Together(p), NEW adr, NEW v
  PROVE  /\ Together(PioSetData(p, adr, v)) /\ Together(Control(p, v))
         /\ Together(SetBit(p, adr, v)) /\ Together(PioReset(p))
BY PortFields DEF Together, PioSetData, Control, SetCW, SetBit, PioReset

\* A side loaded has what was saved on it.
LEMMA SideLoaded ==
  ASSUME NEW p, DOMAIN p = DOMAIN PowerOnPio, NEW saved, saved.cw = saved.mask
  PROVE  LET q == LoadSide(p, saved)
         IN /\ DOMAIN q = DOMAIN PowerOnPio /\ q.cw = q.mask /\ q.mask = saved.mask
            /\ q.port[1] = saved.port[1] /\ q.port[2] = saved.port[2] /\ q.port[3] = saved.port[3]
<1> DEFINE c == Control(p, saved.cw)
           a == PioSetData(c, 0, saved.port[1])
           b == PioSetData(a, 1, saved.port[2])
           q == PioSetData(b, 2, saved.port[3])
<1>1. DOMAIN c = {"port", "mask", "cw"} /\ c.port = <<0, 0, {}>> /\ c.cw = saved.cw /\ c.mask = saved.cw
  BY PortFields DEF Control, SetCW
<1> HIDE DEF c
<1>2. /\ DOMAIN a = {"port", "mask", "cw"} /\ a.cw = saved.cw /\ a.mask = saved.cw
      /\ DOMAIN a.port = 1..3 /\ a.port[1] = saved.port[1]
  BY <1>1 DEF PioSetData
<1> HIDE DEF a
<1>3. /\ DOMAIN b = {"port", "mask", "cw"} /\ b.cw = saved.cw /\ b.mask = saved.cw
      /\ DOMAIN b.port = 1..3 /\ b.port[1] = saved.port[1] /\ b.port[2] = saved.port[2]
  BY <1>2 DEF PioSetData
<1> HIDE DEF b
<1>4. /\ DOMAIN q = {"port", "mask", "cw"} /\ q.cw = saved.cw /\ q.mask = saved.cw
      /\ q.port[1] = saved.port[1] /\ q.port[2] = saved.port[2] /\ q.port[3] = saved.port[3]
  BY <1>3 DEF PioSetData
<1>5. LoadSide(p, saved) = q
  BY DEF LoadSide, q, b, a, c
<1> QED BY <1>4, <1>5, PortFields

\* So have both.
LEMMA BothLoaded ==
  ASSUME WordsKept(sub), NEW saved \in SavedSub, LoadSubSnapshot(saved)
  PROVE  /\ WordsKept(sub') /\ sub'.idle = saved.idle
         /\ \A x \in Sides : /\ sub'[x].mask = saved[x].mask
                             /\ \A i \in 1..3 : sub'[x].port[i] = saved[x].port[i]
<1>1. /\ DOMAIN sub.main = DOMAIN PowerOnPio /\ DOMAIN sub.sub = DOMAIN PowerOnPio
      /\ saved.main.cw = saved.main.mask /\ saved.sub.cw = saved.sub.mask
  BY SubAssumption DEF WordsKept, Sides
<1> DEFINE m == LoadSide(sub.main, saved.main)
           s == LoadSide(sub.sub, saved.sub)
<1>2. /\ DOMAIN m = DOMAIN PowerOnPio /\ m.cw = m.mask /\ m.mask = saved.main.mask
      /\ m.port[1] = saved.main.port[1] /\ m.port[2] = saved.main.port[2] /\ m.port[3] = saved.main.port[3]
  BY <1>1, SideLoaded
<1>3. /\ DOMAIN s = DOMAIN PowerOnPio /\ s.cw = s.mask /\ s.mask = saved.sub.mask
      /\ s.port[1] = saved.sub.port[1] /\ s.port[2] = saved.sub.port[2] /\ s.port[3] = saved.sub.port[3]
  BY <1>1, SideLoaded
<1>4. sub' = [main |-> m, sub |-> s, idle |-> saved.idle]
  BY DEF LoadSubSnapshot, LoadSub
<1> HIDE DEF m, s
<1>5. \A i \in 1..3 : i = 1 \/ i = 2 \/ i = 3
  OBVIOUS
<1> QED BY <1>2, <1>3, <1>4, <1>5, PortFields DEF WordsKept, Sides

\* Every step keeps the words.
LEMMA StepKeepsWords == WordsKept(sub) /\ [SubNext]_sub => WordsKept(sub)'
<1> SUFFICES ASSUME WordsKept(sub), [SubNext]_sub PROVE WordsKept(sub')
  OBVIOUS
<1>1. \A x \in Sides : Together(sub[x])
  BY DEF WordsKept, Together
<1>2. ASSUME NEW x \in Sides, NEW p, Access(x, p), Together(p)
      PROVE WordsKept(sub')
  BY <1>2, PortFields DEF Access, WordsKept, Sides, Together
<1>3. CASE SetPort
  <2>1. PICK x \in Sides, adr \in {0, 1, 2}, v \in Values \union BitSets : Access(x, PioSetData(sub[x], adr, v))
    BY <1>3 DEF SetPort
  <2> QED BY <1>1, <1>2, <2>1, SideKept
<1>4. CASE SetMode
  <2>1. PICK x \in Sides, mode \in Modes : Access(x, Control(sub[x], mode))
    BY <1>4 DEF SetMode
  <2> QED BY <1>1, <1>2, <2>1, SideKept
<1>5. CASE SetOneBit
  <2>1. PICK x \in Sides, bit \in Bits, up \in BOOLEAN : Access(x, SetBit(sub[x], bit, up))
    BY <1>5 DEF SetOneBit
  <2> QED BY <1>1, <1>2, <2>1, SideKept
<1>6. CASE ReadPort
  BY <1>1, <1>2, <1>6 DEF ReadPort
<1>7. CASE PollPort2 \/ AskBusy
  BY <1>7, PortFields DEF PollPort2, AskBusy, WordsKept, Sides
<1>8. CASE ResetSub
  <2> DEFINE m == SetBit(PioReset(sub.main), 0, FALSE)
             s == SetBit(PioReset(sub.sub), 0, FALSE)
  <2>1. Together(m) /\ Together(s)
    BY <1>1, SideKept DEF Sides
  <2>2. sub' = [main |-> m, sub |-> s, idle |-> 0]
    BY <1>8 DEF ResetSub
  <2> HIDE DEF m, s
  <2> QED BY <2>1, <2>2, PortFields DEF WordsKept, Sides, Together
<1>9. CASE \E saved \in SavedSub : LoadSubSnapshot(saved)
  BY <1>9, BothLoaded
<1>10. CASE UNCHANGED sub
  BY <1>10
<1> QED BY <1>3, <1>4, <1>5, <1>6, <1>7, <1>8, <1>9, <1>10 DEF SubNext

\* A snapshot of the ports brings back all that the two CPUs read, from whatever state and
\* in whatever directions they were when it is loaded.
THEOREM PortsComeBack == SubSpec => SameAfterLoad
<1>1. SubInit => WordsKept(sub)
  BY DEF SubInit, WordsKept, SubPowerOn, PowerOnPio, Sides
<1>2. WordsKept(sub) /\ [SubNext]_sub => WordsKept(sub)'
  BY StepKeepsWords
<1>3. WordsKept(sub) =>
        [\A saved \in SavedSub : LoadSubSnapshot(saved) => Observed(sub') = Observed(saved)]_sub
  <2> SUFFICES ASSUME WordsKept(sub), NEW saved \in SavedSub, LoadSubSnapshot(saved)
               PROVE  Observed(sub') = Observed(saved)
    OBVIOUS
  <2>1. /\ sub'.idle = saved.idle
        /\ \A x \in Sides : /\ sub'[x].mask = saved[x].mask
                            /\ \A i \in 1..3 : sub'[x].port[i] = saved[x].port[i]
    BY BothLoaded
  <2>2. \A x \in Sides : Partner(x) \in Sides
    BY DEF Partner, Sides
  <2>3. ASSUME NEW x \in Sides
        PROVE  /\ Read0(sub', x) = Read0(saved, x) /\ Read1(sub', x) = Read1(saved, x)
               /\ Read2(sub', x) = Read2(saved, x)
    <3>1. /\ sub'[x].mask = saved[x].mask
          /\ \A i \in 1..3 : sub'[x].port[i] = saved[x].port[i]
          /\ \A i \in 1..3 : sub'[Partner(x)].port[i] = saved[Partner(x)].port[i]
      BY <2>1, <2>2
    <3>2. InputBits(sub'[x]) = InputBits(saved[x])
      BY <3>1 DEF InputBits
    <3>3. /\ sub'[x].port[1] = saved[x].port[1] /\ sub'[x].port[2] = saved[x].port[2]
          /\ sub'[x].port[3] = saved[x].port[3]
          /\ sub'[Partner(x)].port[1] = saved[Partner(x)].port[1]
          /\ sub'[Partner(x)].port[2] = saved[Partner(x)].port[2]
          /\ sub'[Partner(x)].port[3] = saved[Partner(x)].port[3]
      BY <3>1
    <3> QED BY <3>1, <3>2, <3>3 DEF Read0, Read1, Read2
  <2>4. IsBusy(sub') = IsBusy(saved)
    BY <2>1 DEF IsBusy
  <2> QED BY <2>3, <2>4 DEF Observed
<1> QED BY <1>1, <1>2, <1>3, PTL DEF SubSpec, SameAfterLoad
====

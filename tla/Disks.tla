---- MODULE Disks ----
(***************************************************************************)
(* The disk manager with its image files (DiskImageHolder), the two drives *)
(* and the menus of the user interface that put disks in and take them     *)
(* out, while the emulation thread writes to the disks.                    *)
(*                                                                         *)
(* An image file is a sequence of cells, so that positions and sizes in it *)
(* are real: a disk of size n takes n of them and the first is its header. *)
(* The content of a disk is one value.  Each function of the manager that  *)
(* runs under its mutex is one operator from state to state; a command of  *)
(* the user is a sequence of calls, and the emulation thread gets in       *)
(* between any two of them.                                                *)
(***************************************************************************)
EXTENDS Integers, SequencesExt, FiniteSets

CONSTANTS
  Files,       \* names of image files
  Absent,      \* the content of a file that does not exist
  Images,      \* what is on the host at first: a function from Files
  AskedReadOnly, \* files the user may ask to open for reading only
  Locked,      \* files that can only be opened for reading
  NewData,     \* what programs write to a disk
  Formatted,   \* the content of a formatted disk
  Garbled,     \* what a failed write may leave
  SavedDisks,  \* disks in the two drives of a snapshot, -1 for none
  MaxChanges,  \* bound on the writes of programs
  MaxLost      \* bound on the disks a write may fail for

\* A file has a name; a snapshot names disks by their index, or -1.
ASSUME DisksAssumption ==
  /\ "" \notin Files
  /\ SavedDisks \subseteq Int \X Int

Drive == {0, 1}
Holder == {1, 2}

Header(size, data) == [size |-> size, data |-> data]
Body(data) == [size |-> 0, data |-> data]

\* WriteDiskImage: the cells a disk is written as.
Cells(size, data) == [c \in 1..size |-> IF c = 1 THEN Header(size, data) ELSE Body(data)]

VARIABLE dm

-----------------------------------------------------------------------------
(* DiskImageHolder.                                                        *)

Closed == [name |-> "", ref |-> 0, readonly |-> FALSE, disks |-> <<>>]

IsOpen(h) == h.ref > 0

\* ReadHeaders: a disk begins where the one before it ends, until something is
\* not a header, which has no size.
HeadersFrom(cells) ==
  LET end[k \in 0..Len(cells)] ==
        IF k = 0 THEN 0
        ELSE IF end[k - 1] < Len(cells) THEN end[k - 1] + cells[end[k - 1] + 1].size ELSE end[k - 1]
      n == Cardinality({k \in 1..Len(cells) : end[k] # end[k - 1]})
  IN [k \in 1..n |-> [pos |-> end[k - 1], size |-> end[k] - end[k - 1]]]

Opens(s, h, f, ro, create) ==
  /\ ~IsOpen(s.holder[h])
  /\ s.file[f] # Absent \/ create
  /\ s.file[f] \notin {Absent, <<>>} => HeadersFrom(s.file[f]) # <<>>

Open(s, h, f, ro) ==
  LET cells == IF s.file[f] = Absent THEN <<>> ELSE s.file[f]
  IN [s EXCEPT !.file[f] = cells,
        !.holder[h] = [name |-> f, ref |-> 1, readonly |-> ro \/ f \in Locked,
                       disks |-> HeadersFrom(cells)]]

Connect(s, h) == [s EXCEPT !.holder[h].ref = @ + 1]

Disconnect(s, h) ==
  IF s.holder[h].ref <= 1 THEN [s EXCEPT !.holder[h] = Closed]
  ELSE [s EXCEPT !.holder[h].ref = @ - 1]

\* SetDiskSize: the disks behind are moved in the file, but their positions by
\* the size of what is moved.
Shifted(h, index, newsize) ==
  LET diff == newsize - h.disks[index + 1].size
      behind == index + 2..Len(h.disks)
      sizemove == FoldLeft(LAMBDA sum, i : sum + h.disks[i].size, 0, SetToSeq(behind))
  IN [i \in DOMAIN h.disks |->
        IF i = index + 1 THEN [h.disks[i] EXCEPT !.size = newsize]
        ELSE IF i \in behind /\ diff # 0 THEN [h.disks[i] EXCEPT !.pos = @ + sizemove]
        ELSE h.disks[i]]

\* Writing cells at a position, which makes the file longer when it is short.
Overwritten(cells, pos, image) ==
  [c \in 1..(IF pos + Len(image) > Len(cells) THEN pos + Len(image) ELSE Len(cells)) |->
     IF c \in pos + 1..pos + Len(image) THEN image[c - pos]
     ELSE IF c <= Len(cells) THEN cells[c] ELSE Body(Garbled)]

\* Cells of a file, and a file of a length; what is not there is garbage.
Slice(cells, pos, n) ==
  [c \in 1..n |-> IF pos + c <= Len(cells) THEN cells[pos + c] ELSE Body(Garbled)]

\* The file after the disks behind have been moved.
Resized(cells, h, index, newsize) ==
  LET behind == SubSeq(h.disks, index + 2, Len(h.disks))
      sizemove == FoldLeft(LAMBDA sum, d : sum + d.size, 0, behind)
      to == behind[1].pos + newsize - h.disks[index + 1].size
  IN IF behind = <<>> THEN Slice(cells, 0, h.disks[index + 1].pos + newsize)
     ELSE Slice(Overwritten(cells, to, Slice(cells, behind[1].pos, sizemove)), 0, to + sizemove)

SetDiskSize(s, h, index, newsize) ==
  LET holder == s.holder[h]
  IN IF holder.disks[index + 1].size = newsize THEN s
     ELSE [s EXCEPT !.file[holder.name] = Resized(@, holder, index, newsize),
                    !.holder[h].disks = Shifted(holder, index, newsize)]


WriteDiskImage(s, h, index, size, data) ==
  [s EXCEPT !.file[s.holder[h].name] =
     Overwritten(@, s.holder[h].disks[index + 1].pos, Cells(size, data))]

AddDisk(s, h) ==
  LET disks == s.holder[h].disks
      pos == IF disks = <<>> THEN 0 ELSE Last(disks).pos + Last(disks).size
  IN [s EXCEPT !.holder[h].disks = Append(@, [pos |-> pos, size |-> 1]),
               !.file[s.holder[h].name] = Overwritten(@, pos, Cells(1, Formatted))]

-----------------------------------------------------------------------------
(* DiskManager.                                                            *)

EmptyDrive == [holder |-> 0, index |-> -1, size |-> 0, data |-> Garbled,
           readonly |-> FALSE, modified |-> FALSE, fdu |-> FALSE]

NumDisks(s, dr) ==
  IF s.drive[dr].holder = 0 THEN 0 ELSE Len(s.holder[s.drive[dr].holder].disks)

InDrive(s, dr) == [file |-> s.holder[s.drive[dr].holder].name, index |-> s.drive[dr].index]

ToWrite(s, dr) ==
  s.drive[dr].holder # 0 /\ s.drive[dr].index >= 0 /\ s.drive[dr].modified

\* After a wrong move the holder does not have a disk where it is in the file.  To
\* write it back, or to move it, then spoils the file.
PlaceOf(h, i) == FoldLeft(LAMBDA sum, d : sum + d.size, 0, SubSeq(h.disks, 1, i - 1))
Misses(h, index, newsize) ==
  \E i \in index + 1..(IF newsize = h.disks[index + 1].size THEN index + 1 ELSE Len(h.disks)) :
    h.disks[i].pos # PlaceOf(h, i)

WrittenBack(s, dr) ==
  LET d == s.drive[dr]
      t == WriteDiskImage(SetDiskSize(s, d.holder, d.index, d.size), d.holder, d.index, d.size, d.data)
  IN IF Misses(s.holder[d.holder], d.index, d.size)
     THEN [t EXCEPT !.spoiled = @ \union {InDrive(s, dr).file}] ELSE t

\* A write that fails leaves the image as it was or half written, and is reported.
Outcomes(s, dr) ==
  IF ~ToWrite(s, dr) THEN {s}
  ELSE LET failed == [s EXCEPT !.lost = @ \union {InDrive(s, dr)}]
           torn == [failed EXCEPT !.drive[dr].data = Garbled, !.drive[dr].size =
                      s.holder[s.drive[dr].holder].disks[s.drive[dr].index + 1].size]
       IN IF s.holder[s.drive[dr].holder].readonly THEN {failed}
          ELSE {WrittenBack(s, dr)} \union
               IF Cardinality(s.lost) < MaxLost THEN {failed, WrittenBack(torn, dr)} ELSE {}

Removed(s, dr) ==
  [(IF s.drive[dr].holder = 0 THEN s ELSE Disconnect(s, s.drive[dr].holder))
     EXCEPT !.drive[dr] = EmptyDrive]

Unmount(s, dr) == {Removed(t, dr) : t \in Outcomes(s, dr)}

\* The disk at an index of a holder.
ReadDiskImage(s, h, index) ==
  LET disk == s.holder[h].disks[index + 1]
      file == s.file[s.holder[h].name]
      cells == SubSeq(file, disk.pos + 1, Min({disk.pos + disk.size, Len(file)}))
  IN [header |-> cells # <<>> /\ cells[1].size # 0,
      data |-> IF cells # <<>> /\ \A c \in DOMAIN cells : cells[c].data = cells[1].data
               THEN cells[1].data ELSE Garbled]

\* What is read instead of a header, if anything, may by chance pass for one.
Insert(s, dr, h, index, passes) ==
  LET disks == s.holder[h].disks
      bare == [s EXCEPT !.drive[dr] = [EmptyDrive EXCEPT !.holder = h]]
  IN IF disks = <<>> \/ index < 0 THEN [ok |-> TRUE, s |-> bare]
     ELSE IF index + 1 \notin DOMAIN disks THEN [ok |-> FALSE, s |-> Disconnect(s, h)]
     ELSE IF ~ReadDiskImage(s, h, index).header /\ ~passes THEN [ok |-> FALSE, s |-> Disconnect(s, h)]
     ELSE [ok |-> TRUE,
           s |-> [s EXCEPT !.drive[dr] =
             [holder |-> h, index |-> index, size |-> disks[index + 1].size,
              data |-> ReadDiskImage(s, h, index).data, readonly |-> s.holder[h].readonly,
              modified |-> FALSE, fdu |-> TRUE]]]

\* Mutant: a disk in the other drive is not looked for.
UsedByNone(s, dr, h, index) == FALSE

UsedBy(s, dr, h, index) == s.drive[dr].holder = h /\ s.drive[dr].index = index

\* Mount, after its call of Unmount: the file is taken from the holder that has
\* it open, or by a free one.
MountFrom(s, dr, f, ro, index, create, passes) ==
  LET held == {h \in Holder : s.holder[h].name = f}
      free == {h \in Holder : ~IsOpen(s.holder[h])}
      h == CHOOSE x \in free : \A y \in free : x <= y
  IN IF held # {}
     THEN LET k == CHOOSE x \in held : TRUE
          IN Insert(Connect(s, k), dr, k, IF UsedBy(s, 1 - dr, k, index) THEN -1 ELSE index, passes)
     ELSE IF free = {} \/ ~Opens(s, h, f, ro, create) THEN [ok |-> FALSE, s |-> s]
     ELSE Insert(Open(s, h, f, ro), dr, h, index, passes)

\* FormatDisk declares the disk of drive 0 modified, whichever it formats.
FormatDisk(s, dr) ==
  IF s.drive[dr].holder = 0 \/ ~s.drive[dr].fdu THEN s
  ELSE [s EXCEPT !.drive[dr].data = Formatted, !.drive[dr].size = 2,
                 !.drive[0].modified = TRUE,
                 !.newest[InDrive(s, dr).file][InDrive(s, dr).index] = Formatted,
                 !.lost = IF dr = 0 \/ s.drive[dr].modified THEN @ ELSE @ \union {InDrive(s, dr)}]

-----------------------------------------------------------------------------
(* The commands of the user, as calls that follow each other.              *)

Call(op, dr) == [op |-> op, dr |-> dr]

MountCalls(dr, f, ro, index, create, ui) ==
  << Call("unmount", dr),
     [op |-> "mount", dr |-> dr, file |-> f, readonly |-> ro, index |-> index,
      create |-> create, ui |-> ui] >>

\* WinUI::OpenDiskImage of a drive keeps the name for the menu.
OpenCalls(dr, f, ro, index, create) == MountCalls(dr, f, ro, index, create, TRUE)

Second(f, ro, dropped) ==
  [op |-> "second", dr |-> 1, file |-> f, readonly |-> ro, dropped |-> dropped]

\* ChangeDiskImage: the disk is taken out before the dialog names a file.
ChangeDiskImage(dr, f, ro, createnew) ==
  <<Call("unmount", dr)>> \o OpenCalls(dr, f, ro, 0, createnew)
    \o (IF createnew THEN <<Call("add", dr)>> \o OpenCalls(dr, f, FALSE, 0, FALSE)
                          \o <<Call("format", dr)>> ELSE <<>>)
    \o (IF dr = 0 THEN <<Second(f, ro, FALSE)>> ELSE <<>>)

Closing(dr) == <<Call("unmount", dr), Call("clear", dr)>>

\* A disk for drive 1, when what was opened in drive 0 has a second disk.
OpenSecond(s, c) ==
  IF NumDisks(s, 0) > 1 /\ (c.dropped \/ s.name[1] = "")
  THEN OpenCalls(1, c.file, c.readonly, 1, FALSE)
  ELSE IF c.dropped THEN Closing(1) ELSE <<>>

Mount(s, c, passes) ==
  LET m == MountFrom(s, c.dr, c.file, c.readonly, c.index, c.create, passes)
  IN IF c.ui THEN [m.s EXCEPT !.name[c.dr] = IF m.ok THEN c.file ELSE "",
                              !.asked[c.dr] = m.ok /\ c.readonly]
     ELSE m.s

Done(s) == [s EXCEPT !.todo = Tail(@)]

-----------------------------------------------------------------------------
(* The specification.                                                      *)

Indices == 0..1

NoSuchDisk == 2   \* the menu item without a disk, 63 in the code

DisksInit == dm =
  [file |-> Images, holder |-> [h \in Holder |-> Closed], drive |-> [dr \in Drive |-> EmptyDrive],
   name |-> [dr \in Drive |-> ""], asked |-> [dr \in Drive |-> FALSE],
   todo |-> <<>>, changes |-> 0, lost |-> {}, spoiled |-> {},
   newest |-> [f \in Files |-> [i \in Indices |->
     IF Images[f] # Absent /\ i < Len(HeadersFrom(Images[f]))
     THEN Images[f][HeadersFrom(Images[f])[i + 1].pos + 1].data ELSE Formatted]]]

Commanded(calls) == dm.todo = <<>> /\ dm' = [dm EXCEPT !.todo = calls]

ChangeImage == \E dr \in Drive, f \in Files, ro \in BOOLEAN :
  /\ ro => f \in AskedReadOnly
  /\ Commanded(ChangeDiskImage(dr, f, ro, dm.file[f] = Absent))

\* The dialog is cancelled.
Eject == \E dr \in Drive : Commanded(Closing(dr))

BothDrives == \E f \in Files :
  Commanded(Closing(1) \o ChangeDiskImage(0, f, FALSE, dm.file[f] = Absent))

DropFile == \E f \in Files :
  /\ dm.file[f] # Absent
  /\ Commanded(OpenCalls(0, f, FALSE, 0, FALSE) \o <<Second(f, FALSE, TRUE)>>)

SelectDisk == \E dr \in Drive, index \in Indices \union {NoSuchDisk} :
  /\ dm.name[dr] # ""
  /\ Commanded(MountCalls(dr, dm.name[dr], dm.asked[dr], index, FALSE, FALSE))

\* LoadSnapshot, of WinUI and of WinCore, with the disks the snapshot names.
LoadSnapshotDisks == \E pair \in SavedDisks :
  /\ dm.name[0] # "" /\ NumDisks(dm, 0) >= 2
  /\ Commanded(OpenCalls(1, dm.name[0], dm.asked[0], 1, FALSE)
       \o MountCalls(0, dm.name[0], FALSE, pair[1], FALSE, FALSE)
       \o MountCalls(1, dm.name[0], FALSE, pair[2], FALSE, FALSE))

UnmountCall == /\ dm.todo # <<>> /\ Head(dm.todo).op = "unmount"
               /\ \E s \in Unmount(dm, Head(dm.todo).dr) : dm' = Done(s)

MountCall == /\ dm.todo # <<>> /\ Head(dm.todo).op = "mount"
             /\ \E passes \in BOOLEAN : dm' = Done(Mount(dm, Head(dm.todo), passes))

AddDiskCall == /\ dm.todo # <<>> /\ Head(dm.todo).op = "add"
               /\ LET h == dm.drive[Head(dm.todo).dr].holder
                  IN dm' = Done(IF h # 0 /\ dm.holder[h].disks = <<>> THEN AddDisk(dm, h) ELSE dm)

\* The user may have asked for a new disk that is not formatted.
FormatCall == /\ dm.todo # <<>> /\ Head(dm.todo).op = "format"
              /\ \/ dm' = Done(FormatDisk(dm, Head(dm.todo).dr))
                 \/ dm' = Done(dm)

SecondCall == /\ dm.todo # <<>> /\ Head(dm.todo).op = "second"
              /\ dm' = [dm EXCEPT !.todo = OpenSecond(dm, Head(@)) \o Tail(@)]

ClearCall == /\ dm.todo # <<>> /\ Head(dm.todo).op = "clear"
             /\ dm' = Done([dm EXCEPT !.name[Head(dm.todo).dr] = "", !.asked[Head(dm.todo).dr] = FALSE])

\* A disk none of whose first tracks was written since it was put in is not marked,
\* and what was written to its last ones is lost.
TrackWritten(s, dr, data, size, first) ==
  [s EXCEPT !.drive[dr].data = data, !.drive[dr].size = size, !.drive[dr].modified = @ \/ first,
            !.changes = @ + 1,
            !.lost = IF s.drive[dr].modified \/ first THEN @ \ {InDrive(s, dr)}
                     ELSE @ \union {InDrive(s, dr)},
            !.newest[InDrive(s, dr).file][InDrive(s, dr).index] = data]

\* The controller writes to a track under its head, one of the first or of the last,
\* and calls Modified.
WriteTrack == \E dr \in Drive, data \in NewData, size \in 1..2, first \in BOOLEAN :
  /\ dm.drive[dr].fdu /\ ~dm.drive[dr].readonly /\ dm.changes < MaxChanges
  /\ dm' = TrackWritten(dm, dr, data, size, first)

DisksNext ==
  \/ ChangeImage \/ Eject \/ BothDrives \/ DropFile \/ SelectDisk \/ LoadSnapshotDisks
  \/ UnmountCall \/ MountCall \/ AddDiskCall \/ FormatCall \/ SecondCall
  \/ ClearCall \/ WriteTrack

DisksSpec == DisksInit /\ [][DisksNext]_dm

-----------------------------------------------------------------------------
(* Properties.                                                             *)

\* Holders and drives agree between any two calls: a holder is open as long as a
\* drive uses it and counts the drives that do, two holders never have the same
\* file, no disk is in both drives, and what the controller is told is in a drive
\* is a disk of the drive's holder.
HoldersMatchDrives ==
  /\ \A h \in Holder : dm.holder[h].ref = Cardinality({dr \in Drive : dm.drive[dr].holder = h})
  /\ dm.holder[1].name = dm.holder[2].name => dm.holder[1].name = ""
  /\ \A dr \in Drive : dm.drive[dr].fdu =>
       /\ dm.drive[dr].holder # 0
       /\ dm.drive[dr].index + 1 \in DOMAIN dm.holder[dm.drive[dr].holder].disks
       /\ dm.drive[1 - dr].fdu => InDrive(dm, 1 - dr) # InDrive(dm, dr)

\* What was last written to a disk is in its file, or still in a drive that will
\* write it back; unless a failure to do so was reported, or the disk was formatted
\* in drive 1 only, which FormatDisk forgets to mark, or only its last tracks were
\* written, which Modified ignores.  A file is given up when a disk is written
\* back to a wrong place in it, where SetDiskSize has moved it.
Kept(f, i) ==
  \/ [file |-> f, index |-> i] \in dm.lost \/ f \in dm.spoiled
  \/ \E dr \in Drive : /\ ToWrite(dm, dr) /\ InDrive(dm, dr) = [file |-> f, index |-> i]
                       /\ dm.drive[dr].data = dm.newest[f][i]
  \/ LET disks == HeadersFrom(dm.file[f])
         cells == SubSeq(dm.file[f], disks[i + 1].pos + 1, disks[i + 1].pos + disks[i + 1].size)
     IN i < Len(disks) /\ \A c \in DOMAIN cells : cells[c].data = dm.newest[f][i]


\* The area a disk is written to is reserved for it beforehand: in an open image
\* the disks lie one behind the other and do not overlap.
AreasReserved == \A h \in Holder : \A i \in 1..Len(dm.holder[h].disks) - 1 :
  dm.holder[h].disks[i + 1].pos = dm.holder[h].disks[i].pos + dm.holder[h].disks[i].size
====

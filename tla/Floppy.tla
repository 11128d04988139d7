---- MODULE Floppy ----
(***************************************************************************)
(* A disk in memory (FloppyDisk) and the drive unit it is in (FDU), as     *)
(* values and operators on them.  A disk is a record                       *)
(*   tracks    the chain of sectors of each track                          *)
(*   at, cur   cur_tracknum_ and cur_sector_, 0 for a null pointer         *)
(*   readonly  and marked, whether Modified was called for it              *)
(* A sector carries its ID, its size in bytes, the marks of its flags      *)
(* ("MFM", "HD", "Deleted", "CRC") and what was written to it.  An answer  *)
(* of the drive unit is the set of ST0 to ST2 bits of the controller.      *)
(***************************************************************************)
EXTENDS Integers, SequencesExt

CONSTANTS
  TrackCapacity,  \* GetTrackCapacity, bytes: 6250 for 2D
  MarkedTracks,   \* tracks Modified takes notice of: 164 of the 168 of a disk
  Blank           \* what Resize and a format with zeros leave in a sector

Total(seq) == FoldLeft(LAMBDA sum, n : sum + n, 0, seq)

Bytes(n) == 128 * 2^(IF n > 8 THEN 8 ELSE n)

Density(flags) == flags \cap {"MFM", "HD"}

Here(disk) == disk.tracks[disk.at]

GetNumSectors(disk) == Len(Here(disk))

\* Mutant: the sector pointer outlives the track.
SeekKeepsSector(disk, tr) == [disk EXCEPT !.at = tr]

Seek(disk, tr) == IF tr = disk.at THEN disk ELSE [disk EXCEPT !.at = tr, !.cur = 0]

IndexHole(disk) == [disk EXCEPT !.cur = 0]

After(disk, i) == IF i < GetNumSectors(disk) THEN i + 1 ELSE 0

\* GetSector: the sector under the head, the first one after the index hole.
UnderHead(disk) == IF disk.cur = 0 /\ Here(disk) # <<>> THEN 1 ELSE disk.cur

\* The sector that one turn of the disk brings by as the k-th.
InTurn(disk, k) == 1 + ((UnderHead(disk) + k - 2) % GetNumSectors(disk))

\* When the sectors of a density come by in this turn.
Met(disk, density) ==
  {k \in 1..GetNumSectors(disk) : Density(Here(disk)[InTurn(disk, k)].flags) = density}

At(disk, i) == [disk EXCEPT !.cur = After(disk, i)]

\* FDU::ReadID: the next sector of the density asked for, within one turn.
ReadID(disk, density) ==
  LET met == Met(disk, density)
      next == InTurn(disk, Min(met))
  IN IF met = {} THEN [sector |-> 0, disk |-> IndexHole(disk)]
     ELSE [sector |-> next, disk |-> At(disk, next)]

\* The search ReadSector and WriteSector share: IDs are read until one is the
\* one asked for, as many as there are sectors on the track.
SearchMet(disk, id, met) ==
  LET ID(k) == Here(disk)[InTurn(disk, k)].id
      hits == {k \in met : ID(k) = id}
      Before(k) == Cardinality({l \in met : l < k})
      last == CHOOSE k \in met : Before(k) = (GetNumSectors(disk) - 1) % Cardinality(met)
      hit == InTurn(disk, Min(hits))
  IN IF hits = {}
     THEN [hit |-> 0, disk |-> IndexHole(disk), cy |-> IF met = {} THEN -1 ELSE ID(last).c]
     ELSE [hit |-> hit, disk |-> At(disk, hit), cy |-> id.c]

Search(disk, density, id) == SearchMet(disk, id, Met(disk, density))

Missing(cy, id) ==
  {"AT", "ND"} \union (IF cy = id.c \/ cy = -1 THEN {}
                       ELSE IF cy = 255 THEN {"BC"} ELSE {"NC"})

Answer(result, disk) == [result |-> result, disk |-> disk]

Marks(flags) ==
  IF "CRC" \in flags THEN {"AT", "DE", "DD"} ELSE IF "Deleted" \in flags THEN {"CM"} ELSE {}

ReadFound(disk, id, s) ==
  IF s.hit = 0 THEN Answer(Missing(s.cy, id), s.disk)
  ELSE [result |-> Marks(Here(disk)[s.hit].flags), disk |-> s.disk, data |-> Here(disk)[s.hit].data]

ReadSector(disk, density, id) ==
  IF Here(disk) = <<>> THEN Answer({"AT", "MA"}, disk)
  ELSE ReadFound(disk, id, Search(disk, density, id))

-----------------------------------------------------------------------------
(* A sector that grows eats the ones behind it, as many as it takes.       *)

Eaten(disk, i, extend) ==
  LET behind == SubSeq(Here(disk), i + 1, GetNumSectors(disk))
      Room(k) == Total([j \in 1..k |-> behind[j].size + 192])
      enough == {k \in 0..Len(behind) : Room(k) >= extend}
      k == IF enough = {} THEN Len(behind) ELSE Min(enough)
  IN [count |-> k, left |-> extend - Room(k)]

Gap(track) == TrackCapacity - Total([i \in DOMAIN track |-> track[i].size]) - 96 * Len(track)

ResizeEating(disk, i, newsize, eaten) ==
  LET grown == [Here(disk)[i] EXCEPT !.size = newsize, !.data = Blank]
      track == SubSeq(Here(disk), 1, i - 1) \o <<grown>>
                 \o SubSeq(Here(disk), i + 1 + eaten.count, GetNumSectors(disk))
  IN [ok |-> eaten.left <= 0 \/ eaten.left <= Gap(track),
      disk |-> [disk EXCEPT !.tracks[disk.at] = track, !.cur = IF i < Len(track) THEN i + 1 ELSE 0]]

Resize(disk, i, newsize) ==
  ResizeEating(disk, i, newsize, Eaten(disk, i, newsize - Here(disk)[i].size - 64))

\* Mutant: the write is not declared.
NotModified(disk) == disk

Number(tr) == 2 * tr[1] + tr[2]

Modified(disk) ==
  [disk EXCEPT !.marked = @ \/ (Number(disk.at) < MarkedTracks /\ ~disk.readonly)]

WriteInto(room, i, sector) ==
  IF ~room.ok THEN Answer({}, room.disk)
  ELSE Answer({}, Modified([room.disk EXCEPT !.tracks[room.disk.at][i] = sector]))

WriteFound(disk, sector, s) ==
  IF s.hit = 0 THEN Answer(Missing(s.cy, sector.id), s.disk)
  ELSE WriteInto(IF sector.size > Here(disk)[s.hit].size THEN Resize(s.disk, s.hit, sector.size)
                 ELSE [ok |-> TRUE, disk |-> s.disk], s.hit, sector)

WriteSector(disk, density, id, data, deleted) ==
  LET flags == density \union (IF deleted THEN {"Deleted"} ELSE {})
      sector == [id |-> id, size |-> Bytes(id.n), flags |-> flags, data |-> data]
  IN IF disk.readonly THEN Answer({"AT", "NW"}, disk)
     ELSE IF Here(disk) = <<>> THEN Answer({"AT", "MA"}, disk)
     ELSE WriteFound(disk, sector, Search(disk, density, id))

\* FDU::FindID: the ring of sectors and index hole once round from the head,
\* which stays on the sector found.
FindID(disk, density, id) ==
  LET n == GetNumSectors(disk)
      Place(k) == (disk.cur + k) % (n + 1)
      Fits(i) == i # 0 /\ Here(disk)[i].id = id /\ Density(Here(disk)[i].flags) = density
      ks == {k \in 0..n : Fits(Place(k))}
      i == UnderHead(disk)
  IN IF ks # {} THEN Answer({}, [disk EXCEPT !.cur = Place(Min(ks))])
     ELSE IF i # 0 /\ Here(disk)[i].id.c # id.c
          THEN Answer(Missing(Here(disk)[i].id.c, id), At(disk, i))
     ELSE Answer({"AT", "ND"}, IndexHole(disk))

\* FDU::WriteID: of the IDs sent, the last that fit the track are used.
WriteID(disk, tr, density, ids, n, data) ==
  LET fit == TrackCapacity \div (Bytes(n) + 64)
      sc == IF Len(ids) > fit THEN fit ELSE Len(ids)
      Laid(i) == [id |-> ids[Len(ids) - sc + i], size |-> Bytes(n),
                       flags |-> density, data |-> data]
  IN IF disk.readonly THEN Answer({"AT", "NW"}, disk)
     ELSE Answer({}, Modified(IndexHole([Seek(disk, tr) EXCEPT
                        !.tracks[tr] = [i \in 1..sc |-> Laid(i)]])))
====

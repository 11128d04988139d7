------------------------------- MODULE PD8257 -------------------------------
(***************************************************************************)
(* The DMA controller, src/src/pc88/pd8257.cpp: four channels.  The CRTC   *)
(* reads through channel 2, the CD-ROM interface writes through channel 1, *)
(* and a module may ask for any of them.  A controller is a record; every  *)
(* operator maps a controller to the next.  A register is written and read *)
(* in halves, the flip-flop ff chooses.  With autoinit on, channel 3 keeps *)
(* the start and the length of channel 2.  count holds the units still to  *)
(* come, less one, so -1 is the end.                                       *)
(***************************************************************************)
EXTENDS Integers, Sequences, FiniteSets

CONSTANTS Half,        \* values of half a register: 256
          CountHigh,   \* values of the upper half of a count: 64
          MemBegin, MemEnd   \* the memory connected for reading, MemEnd excluded

ASSUME DmaAssumption == /\ {Half, CountHigh, MemEnd} \subseteq Nat \ {0}
                        /\ MemBegin \in 0 .. MemEnd - 1 /\ MemEnd <= Half * Half

Channels == 0 .. 3
Space == Half * Half
NotThere == 255   \* what is read where no memory is

\* The memory connected for reading and for writing.  A range that leaves the space
\* is refused; ConnectWr then takes the memory for reading away, not its own.
ConnectRd(d, addr, length) ==
  IF addr + length > Space THEN [d EXCEPT !.read.here = FALSE]
  ELSE [d EXCEPT !.read = [here |-> TRUE, begin |-> addr, end |-> addr + length]]
ConnectWr(d, addr, length) ==
  IF addr + length > Space THEN [d EXCEPT !.read.here = FALSE]
  ELSE [d EXCEPT !.write = [here |-> TRUE, begin |-> addr, end |-> addr + length]]

\* A reset clears the registers, a snapshot keeps them; neither touches the connections.
PowerOnDma == LET unwired == [here |-> FALSE, begin |-> 0, end |-> 0]
                  none == [autoinit |-> FALSE, ff |-> FALSE, enabled |-> {}, status |-> {},
                           ptr |-> [b \in Channels |-> 0], count |-> [b \in Channels |-> 0],
                           mode |-> [b \in Channels |-> {}], read |-> unwired, write |-> unwired]
              IN ConnectWr(ConnectRd(none, MemBegin, MemEnd - MemBegin), 0, Space)
SaveDma(d) == [autoinit |-> d.autoinit, ff |-> d.ff, enabled |-> d.enabled, status |-> d.status,
               ptr |-> d.ptr, count |-> d.count, mode |-> d.mode]
LoadDma(d, st) == [d EXCEPT !.autoinit = st.autoinit, !.ff = st.ff, !.enabled = st.enabled, !.status = st.status,
                            !.ptr = st.ptr, !.count = st.count, !.mode = st.mode]
ResetDma(d) == LoadDma(d, SaveDma(PowerOnDma))

\* The half of the register r the flip-flop ff chooses, replaced by p or read.
WithHalf(r, ff, p) == IF ff THEN (r % Half) + Half * p ELSE Half * ((r \div Half) % Half) + p
HalfOf(r, ff) == IF ff THEN (r \div Half) % Half ELSE r % Half

SetAddr(d, b, p) ==
  LET to == WithHalf(d.ptr[b], d.ff, p)
  IN [d EXCEPT !.ff = ~@, !.ptr = [c \in Channels |-> IF c = b \/ (c = 3 /\ b = 2 /\ d.autoinit) THEN to ELSE @[c]]]

\* p is the byte without its two mode bits, mode those bits; only the upper
\* half carries them.  The copy for channel 3 assigns mode[3] to itself.
SetCount(d, b, p, mode) ==
  LET to == WithHalf(d.count[b], d.ff, p)
  IN [d EXCEPT !.ff = ~@, !.mode[b] = IF d.ff THEN mode ELSE @,
               !.count = [c \in Channels |-> IF c = b \/ (c = 3 /\ b = 2 /\ d.autoinit) THEN to ELSE @[c]]]

SetMode(d, autoinit, channels) ==
  [d EXCEPT !.autoinit = autoinit, !.enabled = channels, !.status = @ \ channels, !.ff = FALSE]

\* Reading a register moves the flip-flop as well: what is read, and the controller.
GetAddr(d, b) == [value |-> HalfOf(d.ptr[b], d.ff), dma |-> [d EXCEPT !.ff = ~@]]
GetCount(d, b) == [value |-> (IF d.ff THEN (d.count[b] \div Half) % CountHigh ELSE d.count[b] % Half),
                   mode |-> (IF d.ff THEN d.mode[b] ELSE {}), dma |-> [d EXCEPT !.ff = ~@]]

GetStatus(d) == [value |-> d.status, dma |-> d]

Reload(d) == [d EXCEPT !.ptr[2] = d.ptr[3], !.count[2] = d.count[3]]

\* One run of a transfer: up to n units, the end of the count, the end of the
\* memory or, outside it, its beginning.  Behind the memory the difference is
\* unsigned, so that nothing limits the run.
Least(a, b) == IF a < b THEN a ELSE b
IsMemory(p, area) == area.here /\ area.begin <= p /\ p < area.end
RunLength(d, b, n, area) ==
  LET most == Least(n, d.count[b] + 1)
      p == d.ptr[b]
  IN CASE IsMemory(p, area) -> Least(most, area.end - p)
       [] ~IsMemory(p, area) /\ p < area.begin -> Least(most, area.begin - p)
       [] ~IsMemory(p, area) /\ p = area.begin -> Least(most, Space - p)
       [] OTHER -> most

Moved(d, b, size) ==
  LET e == [d EXCEPT !.ptr[b] = (@ + size) % Space, !.count[b] = @ - size]
  IN IF e.count[b] >= 0 THEN e
     ELSE IF b = 2 /\ d.autoinit THEN Reload(e) ELSE [e EXCEPT !.status = @ \union {b}]

\* The loop of RequestRead: dest is the buffer, n what is left to transfer.  Every
\* run begins at the start of the buffer again, which the code never advances.
Over(dest, chunk) == chunk \o SubSeq(dest, Len(chunk) + 1, Len(dest))
RECURSIVE ReadOn(_, _, _, _, _)
ReadOn(d, b, n, mem, dest) ==
  IF n = 0 \/ d.count[b] + 1 = 0 THEN [dma |-> d, dest |-> dest, left |-> n]
  ELSE LET size == RunLength(d, b, n, d.read)
           here == IsMemory(d.ptr[b], d.read)
       IN ReadOn(Moved(d, b, size), b, n - size, mem,
                 Over(dest, [i \in 1 .. size |-> IF here THEN mem[d.ptr[b] + i - 1] ELSE NotThere]))

RequestRead(d, b, dest, mem) ==
  IF b \in d.enabled /\ 6 \notin d.mode[b] THEN ReadOn(d, b, Len(dest), mem, dest)
  ELSE [dma |-> d, dest |-> dest, left |-> Len(dest)]

\* The loop of RequestWrite: every run takes the start of the data again; where no
\* memory is the data is lost.
RECURSIVE WriteOn(_, _, _, _, _)
WriteOn(d, b, n, data, mem) ==
  IF n = 0 \/ d.count[b] + 1 = 0 THEN [dma |-> d, mem |-> mem, left |-> n]
  ELSE LET p == d.ptr[b]
           size == RunLength(d, b, n, d.write)
           to == IF IsMemory(p, d.write) THEN p .. p + size - 1 ELSE {}
       IN WriteOn(Moved(d, b, size), b, n - size, data,
                  [a \in DOMAIN mem |-> IF a \in to THEN data[a - p + 1] ELSE mem[a]])

RequestWrite(d, b, data, mem) ==
  IF b \in d.enabled /\ 7 \notin d.mode[b] THEN WriteOn(d, b, Len(data), data, mem)
  ELSE [dma |-> d, mem |-> mem, left |-> Len(data)]
=============================================================================

---- MODULE DiskIO ----
(***************************************************************************)
(* The disk driver module (modules/diskdrv/src/diskio.cpp): two ports      *)
(* through which a program on the PC-8801 reads and writes files of the    *)
(* host.  A command goes through phases; ptr_ and len_ are the sequence of *)
(* bytes still to be sent, or of those received and how many are awaited.  *)
(***************************************************************************)
EXTENDS Integers, Sequences

CONSTANTS
  HostFiles,  \* the files of the host the program may name
  Block,      \* bytes of buf_: 1024
  Radix,      \* values of a byte: 256
  Values,     \* the bytes the program sends
  NameSizes,  \* lengths of a file's name
  MaxDiskOrders, \* bound: commands the program gives
  MaxSent     \* bound: bytes after which it announces no other record

ASSUME DioAssumption ==
  /\ Block \in Nat \ {0} /\ Radix \in Nat \ {0}
  /\ Values \subseteq Nat /\ NameSizes \subseteq Nat

MaxSize == Radix * Radix - 1
Lesser(a, b) == IF a < b THEN a ELSE b

VARIABLES
  dio,        \* the device
  host,       \* what the files of the host hold, those that exist
  crossed     \* the command under way: the bytes that crossed the ports, the file and
              \* what it is open for, whether a call of it failed, whether it was flushed
              \* outside a record; and the orders so far
diovars == <<dio, host, crossed>>

-----------------------------------------------------------------------------
(* Phases.  file is the open file: <<>>, or the name and what it is open for. *)

Closed == <<>>
IdlePhase(d) == [d EXCEPT !.phase = "Idle", !.status = {}, !.file = Closed, !.buf = <<>>]
SendPhase(d, bytes) == [d EXCEPT !.phase = "Send", !.buf = bytes, !.len = Len(bytes), !.status = @ \union {2, 4}]
ArgPhase(d, n) == [d EXCEPT !.phase = "Arg", !.buf = <<>>, !.len = n]
RecvPhase(d, n) == [d EXCEPT !.phase = "Recv", !.buf = <<>>, !.len = n, !.status = @ \union {2}]

\* A result of the handlers: the device and the files after the call.
Handled(d, files) == [dio |-> d, host |-> files]
Fail(d, files, err) == Handled([IdlePhase(d) EXCEPT !.err = err], files)

\* Open for reading, or created empty; ok is the answer of the host.
Open(d, use) == [d EXCEPT !.file = <<d.filename, use>>]
\* The files once this one holds the bytes.
Holding(files, name, bytes) ==
  [f \in DOMAIN files \union {name} |-> IF f = name THEN bytes ELSE files[f]]
\* Write of a closed file does nothing and is not taken for an error.
Write(d, files, bytes) ==
  IF d.file = Closed THEN files ELSE Holding(files, d.filename, files[d.filename] \o bytes)

\* Mutant: every block is read from the beginning of the file.
ReadFromStart(d, files, n) == SubSeq(files[d.filename], 1, n)

\* The next n bytes of the open file.
Read(d, files, n) == SubSeq(files[d.filename], d.pos + 1, d.pos + n)

-----------------------------------------------------------------------------
(* The commands, each run again whenever its phase is over.  name is what    *)
(* the received bytes spell, ok whether the host does what it is asked.      *)

CmdSetFileName(d, files, name) ==
  CASE d.phase = "Idle" -> Handled(ArgPhase(d, 1), files)
    [] d.phase = "Arg" ->
         IF d.buf[1] # 0 THEN Handled([RecvPhase(d, d.buf[1]) EXCEPT !.err = 0], files)
         ELSE Handled([IdlePhase(d) EXCEPT !.err = 56, !.filename = ""], files)
    [] d.phase = "Recv" -> Handled([IdlePhase(d) EXCEPT !.filename = name], files)

CmdReadFile(d, files, ok) ==
  CASE d.phase = "Idle" ->
         LET size == Lesser(MaxSize, Len(files[d.filename]))
             opened == [Open(d, "read") EXCEPT !.write_buffer = FALSE, !.size = size, !.pos = 0]
         IN IF d.filename \in DOMAIN files /\ ok
            THEN Handled(SendPhase(opened, <<size % Radix, size \div Radix>>), files)
            ELSE Handled(IdlePhase([d EXCEPT !.write_buffer = FALSE, !.err = 53]), files)
    [] d.phase = "Send" /\ d.size > 0 ->
         LET b == Lesser(Block, d.size)
         IN IF ok THEN Handled(SendPhase([d EXCEPT !.size = @ - b, !.pos = @ + b], Read(d, files, b)), files)
            ELSE Fail([d EXCEPT !.size = @ - b], files, 0)
    [] d.phase = "Send" /\ d.size = 0 -> Fail(d, files, 0)

NextBlock(d, size) ==
  LET n == Lesser(Block, size) IN RecvPhase([d EXCEPT !.size = size - n], n)

\* After a write that fails the device goes on as if it had not, the file closed.
CmdWriteFile(d, files, ok) ==
  CASE d.phase = "Idle" ->
         LET begun == [d EXCEPT !.write_buffer = TRUE]
         IN IF ok /\ d.filename \in HostFiles
            THEN Handled(ArgPhase(Open(begun, "write"), 2), Holding(files, d.filename, <<>>))
            ELSE Fail(begun, files, 60)
    [] d.phase = "Arg" ->
         LET size == d.buf[1] + d.buf[2] * Radix
         IN IF size > 0 THEN Handled(NextBlock(d, size), files) ELSE Fail(d, files, 0)
    [] d.phase = "Recv" ->
         LET done == ok \/ d.file = Closed
             written == IF done THEN d ELSE [IdlePhase(d) EXCEPT !.err = 61]
             after == IF done THEN Write(d, files, d.buf) ELSE files
         IN Handled(IF d.size > 0 THEN NextBlock(written, d.size) ELSE ArgPhase(written, 2), after)

CmdGetError(d, files) ==
  IF d.phase = "Idle" THEN Handled(SendPhase(d, <<d.err>>), files) ELSE Handled(IdlePhase(d), files)

\* What lies in buf_ up to length_ - len_ is written.
CmdWriteFlush(d, files, ok) ==
  IF d.write_buffer
  THEN Handled(IdlePhase([d EXCEPT !.write_buffer = FALSE]), IF ok THEN Write(d, files, d.buf) ELSE files)
  ELSE Handled(IdlePhase([d EXCEPT !.err = 51]), files)

ProcCommand(d, files, name, ok) ==
  CASE d.cmd = "SetFileName" -> CmdSetFileName(d, files, name)
    [] d.cmd = "ReadFile" -> CmdReadFile(d, files, ok)
    [] d.cmd = "WriteFile" -> CmdWriteFile(d, files, ok)
    [] d.cmd = "GetError" -> CmdGetError(d, files)
    [] d.cmd = "WriteFlush" -> CmdWriteFlush(d, files, ok)
    [] OTHER -> Handled(IdlePhase(d), files)

-----------------------------------------------------------------------------
(* The ports. *)

Commands == {"SetFileName", "ReadFile", "WriteFile", "GetError", "WriteFlush", "Other"}

\* Outside of a record length_ - len_ says nothing of what was received: len_ is then what
\* is awaited of the next length, and buf_ holds the last block, an answer or a file read
\* before; the difference may even be negative.  So many bytes are written, and any.
Leftovers == UNION { [1 .. n -> Values] : n \in 0 .. Block }

\* Only a flush of what is being written leaves the file open.
Ordered(c, left) ==
  LET kept == IF c = "WriteFlush" /\ dio.write_buffer THEN dio ELSE [dio EXCEPT !.file = Closed]
  IN [kept EXCEPT !.phase = "Idle", !.cmd = c, !.status = @ \union {1},
                  !.buf = IF dio.phase = "Recv" THEN @ ELSE left]

\* A block ends: the host is asked to write it, and may refuse.
Lost(d, files, name, ok) == ~ok /\ ProcCommand(d, files, name, TRUE) # ProcCommand(d, files, name, FALSE)

SetCommand(c) == \E ok \in BOOLEAN, left \in Leftovers :
  LET d == Ordered(c, left)
      after == ProcCommand(d, host, "", ok)
      flushed == c = "WriteFlush" /\ d.file # Closed
  IN /\ crossed.orders < MaxDiskOrders
     /\ dio' = after.dio /\ host' = after.host
     /\ crossed' = [orders |-> crossed.orders + 1, data |-> IF flushed THEN crossed.data ELSE <<>>,
                 of |-> IF flushed THEN crossed.of ELSE after.dio.file,
                 lost |-> flushed /\ (crossed.lost \/ Lost(d, host, "", ok)),
                 surplus |-> flushed /\ dio.phase # "Recv"]

ByteReceived(d, byte) ==
  [d EXCEPT !.buf = Append(@, byte), !.len = @ - 1, !.status = IF d.len = 1 THEN @ \ {2} ELSE @]

SetData(byte, name, ok) ==
  LET d == ByteReceived(dio, byte)
      after == IF d.len = 0 THEN ProcCommand(d, host, name, ok) ELSE Handled(d, host)
  IN /\ dio.phase \in {"Recv", "Arg"}
     /\ dio' = after.dio /\ host' = after.host
     /\ crossed' = [crossed EXCEPT !.data = IF dio.phase = "Recv" THEN Append(@, byte) ELSE @,
                             !.lost = @ \/ (d.len = 0 /\ Lost(d, host, name, ok))]

\* What the program sends: a name's length, a record's length, the bytes.
ProgramSends == \E ok \in BOOLEAN :
  \/ /\ dio.cmd = "SetFileName" /\ dio.phase = "Arg"
     /\ \E n \in NameSizes : SetData(n, "", ok)
  \/ /\ dio.cmd = "SetFileName" /\ dio.phase = "Recv"
     /\ \E name \in HostFiles : SetData(0, name, ok)
  \/ /\ dio.cmd = "WriteFile" /\ dio.phase = "Arg"
     /\ \E n \in 0 .. (Radix - 1) : (n > 0 => Len(crossed.data) < MaxSent) /\ SetData(n, "", ok)
  \/ /\ dio.cmd = "WriteFile" /\ dio.phase = "Recv"
     /\ \E v \in Values : SetData(v, "", ok)

GetData == \E ok \in BOOLEAN :
  LET d == [dio EXCEPT !.buf = Tail(@), !.len = @ - 1, !.status = IF dio.len = 1 THEN @ \ {2, 4} ELSE @]
      after == IF d.len = 0 THEN ProcCommand(d, host, "", ok) ELSE Handled(d, host)
  IN /\ dio.phase = "Send"
     /\ dio' = after.dio /\ host' = after.host
     /\ crossed' = [crossed EXCEPT !.data = Append(@, Head(dio.buf)),
                             !.lost = @ \/ (d.len = 0 /\ Lost(d, host, "", ok))]

DioReset ==
  /\ dio.phase # "Idle"
  /\ dio' = IdlePhase([dio EXCEPT !.write_buffer = FALSE, !.filename = ""])
  /\ crossed' = [crossed EXCEPT !.data = <<>>, !.of = Closed, !.lost = FALSE, !.surplus = FALSE]
  /\ UNCHANGED host

DioInit ==
  /\ dio = [phase |-> "Idle", cmd |-> "Other", status |-> {}, err |-> 0, filename |-> "", file |-> Closed,
            write_buffer |-> FALSE, size |-> 0, len |-> 0, pos |-> 0, buf |-> <<>>]
  /\ host = <<>>
  /\ crossed = [orders |-> 0, data |-> <<>>, of |-> Closed, lost |-> FALSE, surplus |-> FALSE]

DioNext ==
  \/ \E c \in Commands : SetCommand(c)
  \/ ProgramSends
  \/ GetData
  \/ DioReset

DioSpec == DioInit /\ [][DioNext]_diovars

-----------------------------------------------------------------------------
StartsWith(file, bytes) == Len(bytes) <= Len(file) /\ \A i \in 1 .. Len(bytes) : file[i] = bytes[i]

\* Files cross the ports whole and in order, block after block and record after
\* record: as long as the host does what it is asked, a file being written holds, with
\* the block that is being received, what the program has sent; after a flush within a
\* record, or the record of length 0, it holds exactly that, after a flush outside a record
\* (to which the code adds what was left in its buffer) that and something more; and what a
\* program has read after the two bytes of the size is how the file begins, all of it once
\* the device is idle.
FilesWhole ==
  LET name == crossed.of[1]
      received == IF dio.file # Closed /\ dio.phase = "Recv" THEN dio.buf ELSE <<>>
      got == SubSeq(crossed.data, 3, Len(crossed.data))
      whole == SubSeq(host[name], 1, Lesser(MaxSize, Len(host[name])))
  IN crossed.of # Closed /\ ~crossed.lost =>
       /\ crossed.of[2] = "write" =>
            IF crossed.surplus THEN StartsWith(host[name], crossed.data) ELSE host[name] \o received = crossed.data
       /\ crossed.of[2] = "read" =>
            /\ got = SubSeq(whole, 1, Len(got))
            /\ dio.phase = "Idle" => got = whole
====

---- MODULE Tape ----
(***************************************************************************)
(* The cassette deck (cmt.cpp), the tape image it plays (tape_manager.cpp), *)
(* the serial interface the bytes go to (sio.cpp) and the interrupt         *)
(* controller (intc.cpp) with its other callers, the timer and the vertical *)
(* retrace of base.cpp.                                                     *)
(*                                                                          *)
(* The deck keeps one event in the table of the scheduler, by its slot.     *)
(* The table is shared with other devices, so that a slot the deck has      *)
(* forgotten to let go of may have a new owner.                             *)
(***************************************************************************)
EXTENDS Integers, Sequences, FiniteSets, SequencesExt

CONSTANTS
  Tapes,      \* images: sequences of tags
  Slots,      \* slots of the scheduler's table, numbered from 1
  TickLen,    \* units of time in a tick of 1/4800 second
  RemainMin,  \* ticks that are left at least after a pause
  Masks,      \* what the program writes to port E6, as the requests let through
  Levels,     \* what it writes to port E4
  MaxNow,     \* bound: units of time
  MaxOps      \* bound: writes to the controllers, and operations of the user

ASSUME TapeAssumption ==
  /\ Masks \subseteq SUBSET Nat /\ Levels \subseteq Nat
  /\ {TickLen, RemainMin} \subseteq Nat \ {0} /\ MaxNow \in Nat /\ MaxOps \in Nat

VARIABLES deck, tape, events, now, sio, intc, line, snapshot, alive, heard, straight, ops
tapevars == <<deck, tape, events, now, sio, intc, line, snapshot, alive, heard, straight, ops>>

Nobody == [owner |-> "nobody", at |-> 0]
Gaps == {"Blank", "Space", "Mark"}
NoSnapshot == [none |-> TRUE]
OldByte == <<0, 0>>     \* what lies where a tape has been freed

(***************************************************************************)
(* The interrupt controller.                                               *)
(***************************************************************************)
Asking(i) == i.irq \intersect i.mask \intersect i.mask2
\* The controller and the line to the CPU after IRQ.
Ruled(i) == [intc |-> i, line |-> Asking(i) # {}]

Request(i, l, n) ==
  IF n \in i.irq \intersect i.mask2 THEN [intc |-> i, line |-> l]
  ELSE Ruled([i EXCEPT !.irq = @ \union ({n} \intersect i.mask2)])

IntAck(i, l) ==
  IF Asking(i) = {} THEN [intc |-> i, line |-> l]
  ELSE LET n == CHOOSE n \in Asking(i) : \A m \in Asking(i) : n <= m
       IN [intc |-> [i EXCEPT !.irq = @ \ {n}, !.mask = {}], line |-> FALSE]

SetMask(i, through) == Ruled([i EXCEPT !.mask2 = through, !.irq = @ \intersect through])

\* Mutant: a new level waits for the next request.
RegisterOnly(i, l, level) == [intc |-> [i EXCEPT !.mask = 0 .. level - 1], line |-> l]
SetRegister(i, l, level) == Ruled([i EXCEPT !.mask = 0 .. level - 1])

IntcReset == [intc |-> [mask |-> {}, mask2 |-> {}, irq |-> {}], line |-> FALSE]

(***************************************************************************)
(* The serial interface.  Baud rate, parity and length are never looked at. *)
(***************************************************************************)
SioReset(s) == [s EXCEPT !.mode = "Clear", !.status = {"TXRDY", "TXE"}]

SetControl(s, d) ==
  CASE s.mode = "Clear" -> [s EXCEPT !.mode = IF d.async THEN "Async" ELSE "Sync1"]
    [] s.mode = "Sync1" -> [s EXCEPT !.mode = "Sync2"]
    [] s.mode = "Sync2" -> [s EXCEPT !.mode = "Sync"]
    [] OTHER ->
       IF d.reset THEN [s EXCEPT !.mode = "Clear"]
       ELSE [s EXCEPT !.status = IF d.clear THEN @ \ {"PE", "OE", "FE"} ELSE @, !.rx = d.rx]
Controls == {[async |-> TRUE, reset |-> FALSE, clear |-> TRUE, rx |-> TRUE],
             [async |-> FALSE, reset |-> TRUE, clear |-> FALSE, rx |-> FALSE],
             [async |-> FALSE, reset |-> FALSE, clear |-> FALSE, rx |-> FALSE]}

Accepted(s, byte) ==
  [s EXCEPT !.data = byte,
            !.status = @ \union {"RXRDY"} \union (IF "RXRDY" \in @ THEN {"OE"} ELSE {})]

(***************************************************************************)
(* The deck: a world w holds the deck and the table of events.             *)
(***************************************************************************)
World == [deck |-> deck, events |-> events]
FreeSlot(w) == CHOOSE i \in Slots : w.events[i] = Nobody /\ \A j \in Slots : w.events[j] = Nobody => i <= j

DelEvent(w) ==
  IF w.deck.event = 0 THEN w
  ELSE [w EXCEPT !.events[w.deck.event] = Nobody, !.deck.event = 0]
AddEvent(w, ticks) ==
  [w EXCEPT !.events[FreeSlot(w)] = [owner |-> "deck", at |-> now + ticks * TickLen],
            !.deck.event = FreeSlot(w)]

SetTimer(w, ticks) ==
  LET d == [DelEvent(w) EXCEPT !.deck.count = ticks]
  IN IF ~w.deck.motor THEN [d EXCEPT !.deck.remain = ticks]
     ELSE LET on == [d EXCEPT !.deck.since = now]
          IN IF ticks = 0 THEN on ELSE AddEvent(on, ticks)

\* The tag at which ProcessTags stops, looking from pos on: 0 if none.
StopsAt(d, tags, i) ==
  \/ tags[i].id = "End"
  \/ tags[i].id \in Gaps /\ tags[i].start + tags[i].ticks # d.tick
  \/ tags[i].id = "Data" /\ tags[i].data # <<>>
Stop(d, tags) ==
  LET S == {i \in d.pos .. Len(tags) : StopsAt(d, tags, i)}
  IN IF S = {} THEN 0 ELSE CHOOSE i \in S : \A j \in S : i <= j

Timed(w, timer, ticks, instead) ==
  IF timer THEN SetTimer(w, ticks) ELSE [w EXCEPT !.deck.count = instead]
ProcessTags(w, tags, timer) ==
  LET i == Stop(w.deck, tags)  tag == tags[i]
      at == [w EXCEPT !.deck.mode = tag.id, !.deck.pos = i + 1]
      left == tag.start + tag.ticks - w.deck.tick
  IN IF i = 0 THEN [w EXCEPT !.deck.pos = IF @ > Len(tags) THEN @ ELSE Len(tags) + 1]
     ELSE IF tag.id = "End" THEN [w EXCEPT !.deck.mode = "Blank", !.deck.pos = 1, !.deck.count = 0]
     ELSE IF tag.id \in Gaps THEN Timed(at, timer, left, left)
     ELSE Timed([at EXCEPT !.deck.next = <<i, 1>>, !.deck.left = Len(tag.data), !.deck.offset = 0,
                           !.deck.per = tag.per], timer, tag.per, tag.ticks)

\* Rewind: ok is what it returns.
Rewind(w, tags, timer) ==
  LET cleared == DelEvent([w EXCEPT !.deck.pos = 1])
  IN IF tags = <<>> THEN [ok |-> TRUE, w |-> cleared]
     ELSE IF tags[1].id # "Version" THEN [ok |-> FALSE, w |-> [cleared EXCEPT !.deck.tick = 0]]
     ELSE [ok |-> TRUE, w |-> ProcessTags([cleared EXCEPT !.deck.tick = 0, !.deck.pos = 2], tags, timer)]

\* The subtraction of Motor is unsigned: below zero it is huge.
Remaining(remain, passed) ==
  IF remain - passed < 0 THEN remain - passed
  ELSE IF remain - passed < RemainMin THEN RemainMin ELSE remain - passed

\* Ticks since the timer was set.
Passed(d) == (now - d.since) \div TickLen
\* Mutant: the event goes on with the motor off.
MotorOnly(w, on) ==
  IF w.deck.motor = on THEN w
  ELSE IF on
  THEN LET started == [w EXCEPT !.deck.since = now, !.deck.motor = TRUE]
       IN IF w.deck.remain = 0 THEN started ELSE AddEvent(started, w.deck.count)
  ELSE LET stopped == [w EXCEPT !.deck.motor = FALSE]
       IN IF w.deck.count = 0 THEN stopped
          ELSE [stopped EXCEPT !.deck.remain = Remaining(@, Passed(w.deck))]
Motor(w, on) ==
  IF w.deck.motor = on THEN w
  ELSE IF on
  THEN LET started == [w EXCEPT !.deck.since = now, !.deck.motor = TRUE]
       IN IF w.deck.remain = 0 THEN started ELSE AddEvent(started, w.deck.count)
  ELSE LET stopped == [w EXCEPT !.deck.motor = FALSE]
       IN IF w.deck.count = 0 THEN stopped
          ELSE DelEvent([stopped EXCEPT !.deck.remain = Remaining(@, Passed(w.deck))])

GetPos(d) ==
  IF ~d.motor THEN d.tick + d.count - d.remain
  ELSE IF d.count = 0 THEN d.tick ELSE d.tick + Passed(d)

\* The loop of Seek, each turn of which comes to a later tag: "lost" when it never
\* ends, having come to the end of the tape.
Wound(w, tags, to) ==
  LET Onward(v, i) ==
        IF v.deck.mode = "lost" \/ v.deck.tick + v.deck.count >= to THEN v
        ELSE IF v.deck.pos = 1 THEN [v EXCEPT !.deck.mode = "lost"]
        ELSE ProcessTags([v EXCEPT !.deck.tick = @ + v.deck.count], tags, FALSE)
  IN FoldLeft(Onward, w, [i \in 1 .. Len(tags) + 1 |-> i])

Within(d, offset) == [d EXCEPT !.offset = offset, !.next = <<d.pos - 1, offset + 1>>, !.left = @ - offset]

Seek(w, tags, to, offset) ==
  LET start == Rewind(w, tags, FALSE)
      there == IF to < 0 THEN [start.w EXCEPT !.deck.mode = "lost"] ELSE Wound(start.w, tags, to)
      d == there.deck
      tag == tags[d.pos - 1]
  IN IF ~start.ok \/ tags = <<>> THEN start.w
     ELSE IF d.mode = "lost" \/ d.pos = 1 THEN [there EXCEPT !.deck.mode = "lost"]
     ELSE IF tag.id \in Gaps
     THEN SetTimer([there EXCEPT !.deck.mode = tag.id, !.deck.tick = to], d.tick + d.count - to)
     ELSE SetTimer([there EXCEPT !.deck = Within(@, offset)], tag.per)

(***************************************************************************)
(* The steps of the program, the clock and the user.                       *)
(***************************************************************************)
Enough == /\ alive
          /\ ops < MaxOps
          /\ ops' = ops + 1

TakeWorld(w) == deck' = w.deck /\ events' = w.events
TakeLine(r) == intc' = r.intc /\ line' = r.line

TapeInit ==
  /\ deck = [pos |-> 1, offset |-> 0, tick |-> 0, count |-> 0, remain |-> 0, mode |-> "Blank",
             motor |-> FALSE, since |-> 0, event |-> 0, next |-> OldByte, left |-> 0, per |-> 1,
             inserted |-> FALSE]
  /\ tape = <<>>
  /\ events = [i \in Slots |-> Nobody]
  /\ now = 0
  /\ sio = [mode |-> "Async", status |-> {"TXRDY", "TXE"}, rx |-> TRUE, data |-> OldByte]
  /\ intc = IntcReset.intc /\ line = FALSE
  /\ snapshot = NoSnapshot
  /\ alive = TRUE
  /\ heard = <<>>
  /\ straight = TRUE
  /\ ops = 0

\* Time passes up to the next deadline.
Elapse ==
  /\ alive /\ now < MaxNow
  /\ \A i \in Slots : events[i] = Nobody \/ events[i].at > now
  /\ now' = now + 1
  /\ UNCHANGED <<deck, tape, events, sio, intc, line, snapshot, alive, heard, straight, ops>>

\* The byte the deck is about to send; after Close it reads memory that is free.
ByteAt(d) ==
  IF d.next[1] \in 1 .. Len(tape) /\ tape[d.next[1]].id = "Data" /\ d.next[2] <= Len(tape[d.next[1]].data)
  THEN tape[d.next[1]].data[d.next[2]] ELSE OldByte

Sent(d) == [d EXCEPT !.next[2] = @ + 1, !.offset = @ + 1, !.left = @ - 1]

AtEnd(w) == w.deck.pos = 1

TimerCallback ==
  /\ alive
  /\ \E i \in Slots :
       /\ events[i].owner = "deck" /\ events[i].at <= now
       /\ LET fired == [deck |-> [deck EXCEPT !.tick = @ + deck.count], events |-> [events EXCEPT ![i] = Nobody]]
              after == [fired EXCEPT !.deck = Sent(@)]
              w == IF deck.mode # "Data" THEN ProcessTags(fired, tape, TRUE)
                   ELSE IF after.deck.left > 0 THEN SetTimer(after, deck.per)
                   ELSE ProcessTags(after, tape, TRUE)
              send == deck.mode = "Data"
          IN /\ TakeWorld(w)
             /\ heard' = IF AtEnd(w) THEN <<>> ELSE IF send THEN Append(heard, ByteAt(deck)) ELSE heard
             /\ IF send /\ sio.rx
                THEN /\ sio' = Accepted(sio, ByteAt(deck))
                     /\ TakeLine(Request(intc, line, 0))
                ELSE UNCHANGED <<sio, intc, line>>
  /\ UNCHANGED <<tape, now, snapshot, alive, straight, ops>>

\* Another device takes a slot, and lets it go.
OtherEvent ==
  /\ alive
  /\ \/ /\ \A i \in Slots : events[i].owner # "other"
        /\ events' = [events EXCEPT ![FreeSlot(World)] = [owner |-> "other", at |-> MaxNow + 1]]
     \/ \E i \in Slots : events[i].owner = "other" /\ events' = [events EXCEPT ![i] = Nobody]
  /\ Enough
  /\ UNCHANGED <<deck, tape, now, sio, intc, line, snapshot, alive, heard, straight>>

\* Port 30: bit 3 is the motor.
Out30Motor ==
  /\ Enough
  /\ TakeWorld(Motor(World, ~deck.motor))
  /\ UNCHANGED <<tape, now, sio, intc, line, snapshot, alive, heard, straight>>

\* Reading a byte that is ready asks the deck for the next one at once: RequestData
\* moves the deck's event, and the program dies if there is none.
SioGetData ==
  /\ alive /\ "RXRDY" \in sio.status
  /\ sio' = [sio EXCEPT !.status = @ \ {"RXRDY"}]
  /\ IF deck.mode # "Data" THEN UNCHANGED <<events, alive>>
     ELSE IF deck.event = 0 THEN alive' = FALSE /\ UNCHANGED events
     ELSE events' = [events EXCEPT ![deck.event] = [owner |-> "deck", at |-> now + 1]] /\ UNCHANGED alive
  /\ UNCHANGED <<deck, tape, now, intc, line, snapshot, heard, straight, ops>>

SioSetControl ==
  /\ Enough
  /\ \E d \in Controls : sio' = SetControl(sio, d)
  /\ UNCHANGED <<deck, tape, events, now, intc, line, snapshot, alive, heard, straight>>

\* Ports E6 and E4, and the requests of the timer and of the retrace.
IntcWrite ==
  /\ Enough
  /\ \/ \E m \in Masks : TakeLine(SetMask(intc, m))
     \/ \E l \in Levels : TakeLine(SetRegister(intc, line, l))
     \/ \E n \in {1, 2} : TakeLine(Request(intc, line, n))
  /\ UNCHANGED <<deck, tape, events, now, sio, snapshot, alive, heard, straight>>

CpuAcknowledges ==
  /\ alive /\ line
  /\ TakeLine(IntAck(intc, line))
  /\ UNCHANGED <<deck, tape, events, now, sio, snapshot, alive, heard, straight, ops>>

\* The user changes the tape.  Without one, after Close or when the file is no tape,
\* the deck is not told.
TapeOpen ==
  /\ Enough
  /\ \E t \in Tapes :
       LET got == Rewind([World EXCEPT !.deck.inserted = TRUE], t, TRUE)
       IN /\ tape' = t /\ heard' = <<>>
          /\ IF t = <<>> THEN straight' = FALSE /\ UNCHANGED <<deck, events>>
             ELSE straight' = got.ok /\ TakeWorld(got.w)
  /\ UNCHANGED <<now, sio, intc, line, snapshot, alive>>

\* The position, and where it is safe: inside a tag, with the motor on.
SnapshotSave ==
  /\ Enough /\ tape # <<>>
  /\ snapshot' = [none |-> FALSE, motor |-> deck.motor, pos |-> GetPos(deck), offset |-> deck.offset,
                  sio |-> [mode |-> sio.mode, data |-> sio.data], intc |-> intc, line |-> line, tape |-> tape,
                  heard |-> heard, inside |-> straight /\ deck.motor /\ deck.count > 0 /\ Passed(deck) > 0]
  /\ UNCHANGED <<deck, tape, events, now, sio, intc, line, alive, heard, straight>>

\* The machine is reset first, which stops the motor.
SnapshotLoad ==
  /\ Enough /\ ~snapshot.none
  /\ LET off == Motor(World, FALSE)
         w == Seek([off EXCEPT !.deck.motor = snapshot.motor], tape, snapshot.pos, snapshot.offset)
         lost == ~deck.inserted \/ w.deck.mode = "lost"
     IN /\ alive' = ~lost
        /\ IF lost THEN UNCHANGED <<deck, events>> ELSE TakeWorld(w)
  /\ sio' = [SioReset(sio) EXCEPT !.mode = snapshot.sio.mode, !.data = snapshot.sio.data]
  /\ intc' = snapshot.intc /\ line' = snapshot.line
  /\ heard' = snapshot.heard
  /\ straight' = (snapshot.inside /\ tape = snapshot.tape)
  /\ UNCHANGED <<tape, now, snapshot>>

MachineResetTape ==
  /\ Enough
  /\ TakeWorld(Motor(World, FALSE))
  /\ sio' = SioReset(sio)
  /\ TakeLine(SetMask(IntcReset.intc, {}))
  /\ UNCHANGED <<tape, now, snapshot, alive, heard, straight>>

TapeNext ==
  \/ Elapse \/ TimerCallback \/ OtherEvent \/ Out30Motor \/ SioGetData \/ SioSetControl
  \/ IntcWrite \/ CpuAcknowledges \/ TapeOpen \/ SnapshotSave \/ SnapshotLoad
  \/ MachineResetTape

TapeSpec == TapeInit /\ [][TapeNext]_tapevars

(***************************************************************************)
(* Properties.                                                             *)
(***************************************************************************)
\* The bytes a tape holds, in order.
BytesOf(t) == FlattenSeq([i \in 1 .. Len(t) |-> IF t[i].id = "Data" THEN t[i].data ELSE <<>>])

\* The bytes the deck sends are those of the tape, in order, none twice and none
\* left out, whatever the program reads and however often it stops the motor, and
\* across a snapshot that was taken inside a tag with the motor running (the
\* counters, the event and the pointer of cmt.cpp go together).
BytesInOrder == alive /\ straight => IsPrefix(heard, BytesOf(tape))

\* The deck never has an event it does not know of; inside a tag it has one while
\* the motor runs and none while it is off, so that the tape neither stands still
\* nor is played twice as fast.
TapeRuns ==
  alive /\ straight =>
    LET own == {i \in Slots : events[i].owner = "deck"}
    IN /\ own \subseteq {deck.event}
       /\ deck.count # 0 => (deck.motor = (own # {}))

\* The line to the CPU tells whether there is a request that both masks let
\* through, after every order of requests, masks, acknowledgements and snapshots.
LineIsRequest == line = (Asking(intc) # {})
====

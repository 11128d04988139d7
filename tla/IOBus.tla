---- MODULE IOBus ----
(***************************************************************************)
(* The bus that joins the devices (io_bus.cpp) and the list of those whose *)
(* state a snapshot holds (device.cpp).  A bank is the devices that answer *)
(* at a port, in the order they were connected.  Values only: PC88 has the *)
(* state.                                                                  *)
(***************************************************************************)
EXTENDS Naturals, Sequences, FiniteSets, SequencesExt

DummyIO == "nobody"   \* dummyio, alone at a port that no device answers

EmptyBanks(ports) == [p \in ports |-> <<DummyIO>>]

(***************************************************************************)
(* Connecting.                                                             *)
(***************************************************************************)
Joined(bank, d) == IF bank[1] = DummyIO THEN [bank EXCEPT ![1] = d] ELSE Append(bank, d)

\* No device names a port twice.
ConnectBanks(banks, d, ports) ==
  [p \in DOMAIN banks |-> IF p \in Range(ports) THEN Joined(banks[p], d) ELSE banks[p]]

\* Mutant: a port that the last device leaves stays without an entry.
DisconnectToNothing(banks, d) == [p \in DOMAIN banks |-> SelectSeq(banks[p], LAMBDA e : e # d)]

Disconnect(banks, d) ==
  [p \in DOMAIN banks |->
     LET rest == SelectSeq(banks[p], LAMBDA e : e # d) IN IF rest = <<>> THEN <<DummyIO>> ELSE rest]

(***************************************************************************)
(* Calls.  A byte is the set of its bits; a line nobody drives is high.    *)
(***************************************************************************)
BusIn(bank, answers) == {b \in 0 .. 7 : \A d \in Range(bank) \ {DummyIO} : b \in answers[d]}
Reached(banks, ports) == UNION {Range(banks[p]) : p \in ports} \ {DummyIO}

(***************************************************************************)
(* The list.  A device that is connected several times has one node.       *)
(***************************************************************************)
Find(list, d) == \E i \in 1 .. Len(list) : list[i].entry = d

Add(list, d) ==
  IF Find(list, d) THEN [i \in 1 .. Len(list) |-> IF list[i].entry = d THEN [list[i] EXCEPT !.count = @ + 1] ELSE list[i]]
  ELSE Append(list, [entry |-> d, count |-> 1])

Del(list, d) ==
  SelectSeq([i \in 1 .. Len(list) |-> IF list[i].entry = d THEN [list[i] EXCEPT !.count = @ - 1] ELSE list[i]],
            LAMBDA n : n.count > 0)

(***************************************************************************)
(* A snapshot: the id, size and state of each device that has a size.      *)
(***************************************************************************)
SaveStatus(list, size, status) ==
  LET sized == SelectSeq(list, LAMBDA n : size[n.entry] > 0)
  IN [i \in 1 .. Len(sized) |->
        [id |-> sized[i].entry, size |-> size[sized[i].entry], state |-> status[sized[i].entry]]]

CheckStatus(list, size, blob) ==
  \A i \in 1 .. Len(blob) : Find(list, blob[i].id) => size[blob[i].id] = blob[i].size

\* The devices of the list take their state in the order of the snapshot, up to the
\* first of those that refuse.
Loaded(list, blob, refusing) ==
  LET stop == {i \in 1 .. Len(blob) : blob[i].id \in refusing /\ Find(list, blob[i].id)}
  IN {i \in 1 .. Len(blob) : Find(list, blob[i].id) /\ \A j \in stop : i < j}

LoadStatus(list, size, status, blob, refusing) ==
  IF ~CheckStatus(list, size, blob) THEN status
  ELSE LET loaded == Loaded(list, blob, refusing)
       IN [d \in DOMAIN status |->
             IF \E i \in loaded : blob[i].id = d THEN blob[CHOOSE i \in loaded : blob[i].id = d].state ELSE status[d]]
LoadSucceeds(list, size, blob, refusing) ==
  CheckStatus(list, size, blob) /\ \A i \in 1 .. Len(blob) : ~(blob[i].id \in refusing /\ Find(list, blob[i].id))
====

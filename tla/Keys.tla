---- MODULE Keys ----
(***************************************************************************)
(* The keyboard of the PC (winkeyif.cpp): the messages of the window set    *)
(* and clear keystate, once a frame the UI thread copies the state Windows  *)
(* keeps into keyboard, and the program reads ports that are worked out     *)
(* once a frame through a table.  How the two threads meet is in module     *)
(* EmulationLoop.  Keys go by their virtual codes; an index of keystate is  *)
(* a code and whether the key is an extended one (ext) or not (nex).       *)
(***************************************************************************)
EXTENDS Integers, Sequences, FiniteSets, TLC

CONSTANTS
  PhysKeys,   \* keys the user presses, among those of Messages
  ReadPorts,  \* ports the program reads
  MaxMoves    \* bound: presses, releases and operations of the user

VARIABLES keystate, countF4, keyboard, toggled, keyport, kbd, held, seen, kept, menuDown, moves
keyvars == <<keystate, countF4, keyboard, toggled, keyport, kbd, held, seen, kept, menuDown, moves>>

(***************************************************************************)
(* The tables: for each port the entries of its eight keys, bit 0 first.   *)
(***************************************************************************)
K(v) == {<<v, "any">>}
KF(v, f) == {<<v, f>>}
PlainKeys(keys) == [i \in 1 .. 8 |-> K(keys[i])]
None == {}

KeysToMain ==
  0 :> << K("NUMPAD0") \union KF("INSERT", "nex"), K("NUMPAD1") \union KF("END", "nex"),
          K("NUMPAD2") \union KF("DOWN", "nex") \union KF("DOWN", "arrowten"),
          K("NUMPAD3") \union KF("NEXT", "nex"),
          K("NUMPAD4") \union KF("LEFT", "nex") \union KF("LEFT", "arrowten"),
          K("NUMPAD5") \union KF("CLEAR", "nex"),
          K("NUMPAD6") \union KF("RIGHT", "nex") \union KF("RIGHT", "arrowten"),
          K("NUMPAD7") \union KF("HOME", "nex") >> @@
  1 :> << K("NUMPAD8") \union KF("UP", "nex") \union KF("UP", "arrowten"),
          K("NUMPAD9") \union KF("PRIOR", "nex"), K("MULTIPLY"), K("ADD"), None,
          K("SEPARATOR") \union KF("DELETE", "nex"), K("DECIMAL"), K("RETURN") >> @@
  2 :> PlainKeys(<<"C0", "A", "B", "C", "D", "E", "F", "G">>) @@
  3 :> PlainKeys(<<"H", "I", "J", "K", "L", "M", "N", "O">>) @@
  4 :> PlainKeys(<<"P", "Q", "R", "S", "T", "U", "V", "W">>) @@
  5 :> PlainKeys(<<"X", "Y", "Z", "DB", "DC", "DD", "DE", "BD">>) @@
  6 :> PlainKeys(<<"0", "1", "2", "3", "4", "5", "6", "7">>) @@
  7 :> PlainKeys(<<"8", "9", "BA", "BB", "BC", "BE", "BF", "E2">>)

KeysFromEdit ==
  8 :> << KF("HOME", "ext"), KF("UP", "noarrowtenex") \union KF("DOWN", "pc80key"),
          KF("RIGHT", "noarrowtenex") \union KF("LEFT", "pc80key"),
          K("BACK") \union KF("INSERT", "ext") \union KF("DELETE", "ext"), K("MENU"),
          KF("SCROLL", "lock") \union K("SCROLL"),
          (UNION {K(v) : v \in {"SHIFT", "F6", "F7", "F8", "F9", "F10"}})
            \union KF("INSERT", "ext") \union KF("01", "pc80sft"),
          K("CONTROL") >> @@
  9 :> << K("F11") \union K("PAUSE"), K("F1") \union K("F6"), K("F2") \union K("F7"), K("F3") \union K("F8"),
          K("F4") \union K("F9"), K("F5") \union K("F10"), K("SPACE") \union K("CONVERT") \union K("NONCONVERT"),
          K("ESCAPE") >> @@
  10 :> << K("TAB"), KF("DOWN", "noarrowtenex"), KF("LEFT", "noarrowtenex"), KF("END", "ext") \union K("HELP"),
           K("F12"), K("6D"), K("6F"), KF("CAPITAL", "lock") \union K("CAPITAL") >> @@
  11 :> << KF("NEXT", "ext"), KF("PRIOR", "ext"), None, None, None, None, None, None >> @@
  12 :> << K("F6"), K("F7"), K("F8"), K("F9"), K("F10"), K("BACK"), KF("INSERT", "ext"), KF("DELETE", "ext") >> @@
  13 :> << K("CONVERT"), K("NONCONVERT") \union K("ACCEPT"), None, K("F4h"), None, None, None, None >> @@
  14 :> << KF("RETURN", "nex"), KF("RETURN", "ext"), K("LSHIFT"), K("RSHIFT"), None, None, None, None >> @@
  15 :> [i \in 1 .. 8 |-> None]

KeyTable106 == KeysToMain @@ KeysFromEdit
KeyTable101 ==
  [KeyTable106 EXCEPT ![2][1] = K("DB"), ![5][4] = K("DD"), ![5][6] = K("C0"), ![5][7] = K("BB"),
                      ![7][4] = K("DE")]
Tables == [AT106 |-> KeyTable106, AT101 |-> KeyTable101]

(***************************************************************************)
(* GetKey: an entry says "pressed".                                        *)
(***************************************************************************)
Code(v) == IF v = "F4h" THEN countF4 > 0 ELSE <<v, "nex">> \in keystate \/ <<v, "ext">> \in keystate
Says(v, f) ==
  CASE f = "lock" -> v \in toggled
    [] f = "keyb" -> v \in keyboard
    [] f \in {"nex", "ext"} -> <<v, f>> \in keystate
    [] f = "arrowten" -> kbd.arrow /\ v \in keyboard
    [] f = "noarrowten" -> ~kbd.arrow /\ v \in keyboard
    [] f = "noarrowtenex" -> ~kbd.arrow /\ <<v, "ext">> \in keystate
    [] f = "pc80sft" -> kbd.pc80 /\ {"DOWN", "LEFT"} \intersect keyboard # {}
    [] f = "pc80key" -> kbd.pc80 /\ v \in keyboard
    [] OTHER -> Code(v)
GetKey(entries) == \E e \in entries : Says(e[1], e[2])
\* The bits of a port that read 0.
PortBits(p) == {i \in 1 .. 8 : GetKey(Tables[kbd.table][p][i])}

(***************************************************************************)
(* Messages of the window.  Of a numpad key Windows sends the digit or the  *)
(* arrow, by whether shift is held at that moment.                          *)
(***************************************************************************)
Messages == [a |-> <<"A", "nex">>, down |-> <<"DOWN", "ext">>, shift |-> <<"SHIFT", "nex">>,
             f6 |-> <<"F6", "nex">>, scroll |-> <<"SCROLL", "nex">>, hankaku |-> <<"F4h", "nex">>]
Sends(k) == IF k # "pad2" THEN Messages[k] ELSE IF "shift" \in held THEN <<"DOWN", "nex">> ELSE <<"NUMPAD2", "nex">>

ASSUME KeysAssumption == PhysKeys \subseteq DOMAIN Messages \union {"pad2"}

\* The pairs KeyUp lets go of together: a numpad key and its other meaning.
Pairs == { {"NUMPAD0", "INSERT"}, {"NUMPAD1", "END"}, {"NUMPAD2", "DOWN"}, {"NUMPAD3", "NEXT"}, {"NUMPAD4", "LEFT"},
           {"NUMPAD5", "CLEAR"}, {"NUMPAD6", "RIGHT"}, {"NUMPAD7", "HOME"}, {"NUMPAD8", "UP"}, {"NUMPAD9", "PRIOR"} }

KeyDown(index) ==
  IF index[1] = "F4h" /\ kbd.table = "AT106" THEN countF4' = 3 /\ UNCHANGED keystate
  ELSE IF index[1] = "F4h" THEN countF4' = 1 /\ UNCHANGED keystate
  ELSE keystate' = keystate \union {index} /\ UNCHANGED countF4

\* Mutant: a key is let go of by the message it sends then.
UpOnly(index) == {index}
Up(index) ==
  {index} \union (IF index[2] = "ext" THEN {} ELSE {<<v, "nex">> : v \in UNION {P \in Pairs : index[1] \in P}})

KeyUp(index) ==
  /\ keystate' = keystate \ Up(index)
  /\ countF4' = IF index[1] = "F4h" THEN 0 ELSE countF4

(***************************************************************************)
(* Steps.                                                                  *)
(***************************************************************************)
Move == moves < MaxMoves /\ moves' = moves + 1
KeyCodes(k) == IF k = "pad2" THEN {"NUMPAD2", "DOWN"} ELSE {Messages[k][1]}
HeldCodes == {Sends(k)[1] : k \in held}
LockCodes == [grph |-> "MENU", kana |-> "SCROLL", caps |-> "CAPITAL"]

KeysInit ==
  /\ keystate = {} /\ countF4 = 0 /\ keyboard = {} /\ toggled = {}
  /\ keyport = [p \in ReadPorts |-> <<>>]
  /\ kbd = [active |-> TRUE, arrow |-> FALSE, pc80 |-> FALSE, table |-> "AT106", n80 |-> FALSE,
            locked |-> [l \in DOMAIN LockCodes |-> FALSE], on |-> {}]
  /\ held = {} /\ seen = {} /\ kept = {} /\ menuDown = {} /\ moves = 0

\* A key goes down, or repeats; the window hears of it when it is active.
UserPresses ==
  /\ Move
  /\ \E k \in PhysKeys :
       /\ held' = held \union {k}
       /\ seen' = seen \union KeyCodes(k)
       /\ kbd' = IF k \in held \/ k # "scroll" THEN kbd ELSE [kbd EXCEPT !.on = (@ \union {"SCROLL"}) \ (@ \intersect {"SCROLL"})]
       /\ IF kbd.active THEN KeyDown(Sends(k)) ELSE UNCHANGED <<keystate, countF4>>
  /\ UNCHANGED <<keyboard, toggled, keyport, kept, menuDown>>

UserReleases ==
  /\ Move
  /\ \E k \in held :
       /\ held' = held \ {k} /\ kept' = kept \ {k}
       /\ menuDown' = menuDown \ {Sends(k)[1]}
       /\ IF kbd.active THEN KeyUp(Sends(k)) ELSE UNCHANGED <<keystate, countF4>>
  /\ UNCHANGED <<keyboard, toggled, keyport, kbd, seen>>

\* The menu's own locks press and let go of a key.
LockKey ==
  /\ Move
  /\ \E l \in DOMAIN LockCodes :
       LET v == LockCodes[l]
           shown == CASE l = "grph" -> kbd.locked[l] \/ Code(v)
                      [] OTHER -> kbd.locked[l] \/ v \in toggled
       IN IF kbd.locked[l] = ~shown THEN UNCHANGED <<keystate, countF4, kbd, seen, menuDown>>
          ELSE /\ kbd' = [kbd EXCEPT !.locked[l] = ~shown]
               /\ IF shown THEN KeyUp(<<v, "nex">>) /\ menuDown' = menuDown \ {v}
                  ELSE KeyDown(<<v, "nex">>) /\ menuDown' = menuDown \union {v}
               /\ seen' = seen \union {v}
  /\ UNCHANGED <<keyboard, toggled, keyport, held, kept>>

UseCursorForTen ==
  /\ Move /\ kbd' = [kbd EXCEPT !.arrow = ~@] /\ kept' = {}
  /\ UNCHANGED <<keystate, countF4, keyboard, toggled, keyport, held, seen, menuDown>>

KeysApplyConfig ==
  /\ Move
  /\ \E t \in DOMAIN Tables, a, n \in BOOLEAN : kbd' = [kbd EXCEPT !.table = t, !.arrow = a, !.n80 = n]
  /\ kept' = {}
  /\ UNCHANGED <<keystate, countF4, keyboard, toggled, keyport, held, seen, menuDown>>

\* SyncLockState, and the mode of the machine.
KeysReset ==
  /\ Move
  /\ kbd' = [kbd EXCEPT !.pc80 = kbd.n80,
       !.locked = [l \in DOMAIN LockCodes |-> IF l = "grph" THEN Code("MENU") ELSE LockCodes[l] \in toggled]]
  /\ UNCHANGED <<keystate, countF4, keyboard, toggled, keyport, held, seen, kept, menuDown>>

\* The window comes to the front or goes, and so with its menu.
KeysActivate ==
  /\ Move
  /\ kbd' = [kbd EXCEPT !.active = ~@] /\ kept' = {}
  /\ IF kbd.active THEN UNCHANGED <<keystate, countF4, keyport, menuDown>>
     ELSE keystate' = {} /\ countF4' = 0 /\ menuDown' = {} /\ keyport' = [p \in ReadPorts |-> <<>>]
  /\ UNCHANGED <<keyboard, toggled, held, seen>>

\* The ports are worked out anew, and keyboard is what the UI thread has brought.
PortsCleared == [p \in ReadPorts |-> <<>>]

KeysVSync ==
  /\ kbd.active
  /\ \/ keyboard' = HeldCodes /\ toggled' = kbd.on /\ seen' = (UNION {KeyCodes(k) : k \in held}) \union menuDown
     \/ UNCHANGED <<keyboard, toggled, seen>>
  /\ countF4' = IF countF4 > 0 THEN countF4 - 1 ELSE 0
  /\ keyport' = PortsCleared
  /\ kept' = {k \in held : Sends(k) \in keystate}
  /\ UNCHANGED <<keystate, kbd, held, menuDown, moves>>

\* The answer of the UI thread, after the wait for it is over.
LateAnswer ==
  /\ keyboard' = HeldCodes /\ toggled' = kbd.on
  /\ seen' = seen \union (IF toggled = kbd.on THEN {} ELSE {"SCROLL"})
  /\ UNCHANGED <<keystate, countF4, keyport, kbd, held, kept, menuDown, moves>>

KeysIn ==
  /\ kbd.active
  /\ \E p \in ReadPorts : keyport[p] = <<>> /\ keyport' = [keyport EXCEPT ![p] = <<PortBits(p)>>]
  /\ UNCHANGED <<keystate, countF4, keyboard, toggled, kbd, held, seen, kept, menuDown, moves>>

KeysNext ==
  \/ UserPresses \/ UserReleases \/ LockKey \/ UseCursorForTen \/ KeysApplyConfig \/ KeysReset
  \/ KeysActivate \/ KeysVSync \/ LateAnswer \/ KeysIn

KeysSpec == KeysInit /\ [][KeysNext]_keyvars

(***************************************************************************)
(* Properties.                                                             *)
(***************************************************************************)
\* The codes that may show as pressed: those seen, toggles, and the key whose
\* release Windows does not tell.
Showing == seen \union toggled \union kbd.on \union {"F4h"}
Names(e) == IF e[2] = "pc80sft" THEN {"DOWN", "LEFT"} ELSE {e[1]}

\* A port shows no key that has been let go of before the frame (KeyUp clears
\* both codes of a numpad key, Activate all, VSync the ports), and every plain key
\* that has been held since the retrace.
KeysAsHeld ==
  kbd.active => \A p \in ReadPorts : keyport[p] # <<>> =>
    /\ \A i \in keyport[p][1] : \E t \in DOMAIN Tables :
         \E e \in Tables[t][p][i] : Names(e) \intersect Showing # {}
    /\ \A k \in kept : k \in {"a", "shift", "f6"} =>
         \A i \in 1 .. 8 : <<Messages[k][1], "any">> \in Tables[kbd.table][p][i] => i \in keyport[p][1]
====

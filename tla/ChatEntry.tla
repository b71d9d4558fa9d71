----------------------------- MODULE ChatEntry -----------------------------
(***************************************************************************)
(* The keyboard of the web client: one keydown either goes to the game or  *)
(* to the message that the player composes (input.ts, chat.ts).  A message *)
(* is its destination and whether its text is blank.                       *)
(***************************************************************************)
EXTENDS Naturals

CONSTANTS
  Keys,       \* the keys that are pressed, without ctrl, alt or meta
  OwnMacros   \* the player's macros in the browser's storage: key -> "T", "A" or "ask" (dest: null)

\* The keys of the game that send one input whatever is on the screen: the speeds; shields,
\* repair and cloak; those two on or off; the other commands; the tractor and the pressor on
\* the ship nearest to the mouse, or on 0xff when there is none
SpeedKeys == {"0", "1", "2", "3", "4", "5", "6", "7", "8", "9", ")", "!", "@", "%"}
SystemKeys == {"s", "S", "R", "c"}
ModeKeys == {"[", "]", "{", "}"}
WorkKeys == {"d", "D", "b", "z", "x", "o", "k"}
BeamKeys == {"T", "y"}
\* Keys that need something on the screen: the tractor or the pressor on a ship; a speed that
\* goes by the own ship
BeamOnKeys == {"_", "^"}
PaceKeys == {">", ".", "#"}

\* loadMacros
DefaultMacros ==
  [k \in {"b", "e", "f", "h", "1", "2", "3", "4", "5"} |-> IF k = "5" THEN "A" ELSE "T"]
Macros ==
  [k \in DOMAIN OwnMacros \cup DOMAIN DefaultMacros |->
     IF k \in DOMAIN OwnMacros THEN OwnMacros[k] ELSE DefaultMacros[k]]

HexDigits == {"0", "1", "2", "3", "4", "5", "6", "7", "8", "9", "a", "b", "c", "d", "e", "f",
              "A", "B", "C", "D", "E", "F"}

ASSUME ChatAssumption == \A k \in DOMAIN OwnMacros : OwnMacros[k] \in {"T", "A", "ask"}

Entry ==
  [typing : {"IDLE", "DEST_PROMPT", "TYPING", "MACRO_WAIT"},
   dest : {"none", "team", "all", "personal"},
   text : BOOLEAN,       \* messageBuffer.trim() is not empty
   pending : BOOLEAN]    \* macroPendingText is set

NewEntry == [typing |-> "IDLE", dest |-> "none", text |-> FALSE, pending |-> FALSE]

\* startMessage, startMacroMode, cancelTyping
In(E, mode) == [E EXCEPT !.typing = mode, !.dest = "none", !.text = FALSE]
Idle(E) == In(E, "IDLE")
Forgotten(E) == [Idle(E) EXCEPT !.pending = FALSE]
SelectDestination(E, dest) == [In(E, "TYPING") EXCEPT !.dest = dest]
\* appendChar; deleteChar, which may or may not leave the text blank; getFinishedMessage
AppendChar(E) == [E EXCEPT !.text = TRUE]
DeleteChar(E) == {[E EXCEPT !.text = t] : t \in {FALSE, E.text}}
Finished(E) == IF E.typing = "TYPING" /\ E.text THEN E.dest ELSE "none"

\* What a keydown does: the new entry, the inputs it sends, the chat it sends.
Done(E, inputs, chat) == [entry |-> E, inputs |-> inputs, chat |-> chat]
Only(E) == {Done(E, 0, "none")}

\* resetChat: macroPendingText is a variable of input.ts and is not reset.
ResetChat(E) == Idle(E)

\* handleDestKey; a team needs the own ship on the screen, and "a" is all, not slot 10
DestOf(k, screen) ==
  CASE k \in {"T", "t"} -> IF screen = "present" THEN "team" ELSE "none"
    [] k \in {"A", "a"} -> "all"
    [] k \in HexDigits \ {"A", "a"} -> "personal"
    [] OTHER -> "none"

DestKey(E, k, screen) ==
  IF k = "Escape" THEN Only(Forgotten(E))
  ELSE IF DestOf(k, screen) = "none" THEN Only(E)
  ELSE IF E.pending THEN {Done(Forgotten(E), 0, DestOf(k, screen))}
  ELSE Only(SelectDestination(E, DestOf(k, screen)))

\* handleMacroKey
MacroKey(E, k, screen) ==
  IF k \notin DOMAIN Macros \/ screen = "none" THEN Only(Idle(E))
  ELSE CASE Macros[k] = "ask" -> Only([In(E, "DEST_PROMPT") EXCEPT !.pending = TRUE])
         [] Macros[k] = "A"   -> {Done(Idle(E), 0, "all")}
         [] Macros[k] = "T"   -> {Done(Idle(E), 0, IF screen = "present" THEN "team" ELSE "none")}

\* handleTypingKey
TypingKey(E, k) ==
  CASE k = "Escape"    -> Only(Forgotten(E))
    [] k = "Enter"     -> {Done(Forgotten(E), 0, Finished(E))}
    [] k = "Backspace" -> {Done(T, 0, "none") : T \in DeleteChar(E)}
    [] OTHER           -> Only(AppendChar(E))

\* findNearestShip needs a snapshot with another ship that is alive
NearestShipKey(screen) == IF screen = "none" THEN {0} ELSE {0, 1}
\* lockNearestEntity and lockNearestPlanetOrSB: there are always planets
LockKey(screen) == IF screen = "none" THEN {0} ELSE {1}
\* "*" locks on the team's starbase, when one is in sight, and sets the speed
StarbaseKey(screen) == IF screen = "present" THEN {0, 2} ELSE {0}
\* "f" aims from the own ship; the speed keys go by its speed
OwnShipKey(screen) == IF screen = "present" THEN {1} ELSE {0}
SlowerKey(screen) == IF screen = "present" THEN {0, 1} ELSE {0}

\* How many inputs a key that is not a chat key may send
InputsOf(k, screen) ==
  CASE k \in SpeedKeys \cup SystemKeys \cup ModeKeys \cup WorkKeys \cup BeamKeys -> {1}
    [] k = "$" -> {2}
    [] k \in BeamOnKeys -> NearestShipKey(screen)
    [] k \in {"l", ";"} -> LockKey(screen)
    [] k = "*" -> StarbaseKey(screen)
    [] k \in {"f"} \cup PaceKeys -> OwnShipKey(screen)
    [] k \in {"<", ","} -> SlowerKey(screen)
    [] OTHER -> {0}

\* handleKeyDown
KeyDown(E, k, joined, screen) ==
  CASE E.typing = "DEST_PROMPT" -> DestKey(E, k, screen)
    [] E.typing = "MACRO_WAIT"  -> MacroKey(E, k, screen)
    [] E.typing = "TYPING"      -> TypingKey(E, k)
    [] E.typing = "IDLE" /\ joined ->
         (CASE k = "m" -> Only(In(E, "DEST_PROMPT"))
            [] k = "X" -> Only(In(E, "MACRO_WAIT"))
            [] OTHER -> {Done(E, n, "none") : n \in InputsOf(k, screen)})
    [] OTHER -> Only(E)
=============================================================================

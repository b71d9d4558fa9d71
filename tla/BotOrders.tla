----------------------------- MODULE BotOrders -----------------------------
(***************************************************************************)
(* Orders to bots in the chat: what parseOrder reads in a message and      *)
(* which bots onChatMessage hands the order to (bot-orders.ts,             *)
(* bot-manager.service.ts).  A text is what it starts with, which may be   *)
(* the name of a bot, a verb and an object, each of which may be missing.  *)
(* A planet goes by any beginning of its name, so the object is already    *)
(* the planet found, or "unknown".                                         *)
(***************************************************************************)
EXTENDS Naturals, Sequences

CONSTANTS
  Goals,            \* planets that may belong to the enemy
  Nobody, Home, Mate, Foe,   \* targets: -1, a planet of ours, two ships
  Bots,             \* name and team of the bots, in the order of the manager's map
  Me,               \* the index of the bot whose brain listens
  Messages          \* what is said in the chat

\* "vet-bot-12"
BotName(level, number) == [level |-> level, number |-> number]
NoName == BotName("none", 0)
Levels == {"newb", "comp", "vet"}

ASSUME OrdersAssumption ==
  /\ \A i \in DOMAIN Bots : /\ Bots[i].name.level \in Levels /\ Bots[i].name.number \in 1 .. 9999
                            /\ Bots[i].team \in {"own", "enemy"}
  /\ \A i, j \in DOMAIN Bots : Bots[i].name = Bots[j].name => i = j
  /\ Me \in DOMAIN Bots /\ Bots[Me].team = "own"

\* Of handleChat: the sender's team, whom the text is for, verb and object.  The bots
\* hear every message, whoever it was sent to.
Message(team, to, verb, object) == [team |-> team, to |-> to, verb |-> verb, object |-> object]

Order(state, target, name) == [state |-> state, target |-> target, name |-> name]
NoOrder == Order("none", Nobody, NoName)

\* findPlanetIndex
AtPlanet(state, object, name) ==
  IF object \in Goals \cup {Home} THEN Order(state, object, name) ELSE NoOrder

\* The command patterns; what follows a slot number is not checked against the slots
Command(msg, name) ==
  CASE msg.verb = "bomb" -> AtPlanet("BOMB", msg.object, name)
    [] msg.verb = "defend" -> AtPlanet("DEFEND", msg.object, name)
    [] msg.verb = "escort" /\ msg.object \in {"me", Mate, Foe} -> Order("ESCORT", msg.object, name)
    [] msg.verb = "ogg" /\ msg.object \in {Mate, Foe} -> Order("OGG", msg.object, name)
    [] msg.verb = "help" /\ msg.object = "nothing" -> Order("DEFEND", Nobody, name)
    [] msg.verb = "help" -> AtPlanet("DEFEND", msg.object, name)
    [] msg.verb = "take" -> AtPlanet("TAKE", msg.object, name)
    [] msg.verb = "regroup" /\ msg.object = "nothing" -> Order("PATROL", Nobody, name)
    [] OTHER -> NoOrder

\* text.startsWith(name): the number in the text begins with the digits of the name's
StartsWith(to, name) ==
  to.level = name.level /\ \E k \in 0 .. 3 : to.number \div (10 ^ k) = name.number

\* The first bot whose name the text starts with is addressed, and the rest of the
\* text has to be the command: "comp-bot-12 help" is "2 help" to comp-bot-1.
ParseOrder(msg) ==
  LET fits == {i \in DOMAIN Bots : StartsWith(msg.to, Bots[i].name)} IN
  IF msg.to = NoName THEN Command(msg, NoName)
  ELSE IF fits = {} THEN NoOrder
  ELSE LET i == CHOOSE i \in fits : \A j \in fits : i <= j
       IN  IF Bots[i].name = msg.to THEN Command(msg, msg.to) ELSE NoOrder

\* onChatMessage: the sender's bots obey, or the one of them that is named
Obeys(i, msg) ==
  LET order == ParseOrder(msg) IN
  /\ order # NoOrder
  /\ Bots[i].team = msg.team
  /\ order.name \in {NoName, Bots[i].name}
============================================================================

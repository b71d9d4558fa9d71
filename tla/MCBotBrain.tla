---------------------------- MODULE MCBotBrain ----------------------------
(* A small instance of BotBrain for TLC. *)
EXTENDS BotBrain
CONSTANTS g1

\* A bot whose name is the beginning of the next one's, and one of the enemy
MCBots ==
  << [name |-> BotName("comp", 1), team |-> "own"], [name |-> BotName("comp", 12), team |-> "own"],
     [name |-> BotName("vet", 1), team |-> "enemy"] >>

MCNames == {NoName, BotName("comp", 1), BotName("comp", 12), BotName("vet", 1)}
MCMessages ==
  {Message("own", n, "bomb", g1) : n \in MCNames} \cup {Message("enemy", NoName, "help", "nothing")}

\* What a message does depends on nothing else: no order leaves the sender's team, and a
\* name calls one bot at most.  A bot is deaf to its name when the name of an earlier one
\* is the beginning of it.
AllMessages ==
  {Message(t, n, v, o) :
     t \in {"own", "enemy"}, n \in MCNames,
     v \in {"bomb", "defend", "escort", "ogg", "help", "take", "regroup", "chatter"},
     o \in {g1, Home, Mate, Foe, "me", "nothing", "unknown"}}
ASSUME OrdersReachTheNamed ==
  \A msg \in AllMessages : \A i \in DOMAIN Bots :
    Obeys(i, msg) => /\ Bots[i].team = msg.team
                     /\ msg.to # NoName => msg.to = Bots[i].name
ASSUME SomeAreDeaf == \A msg \in AllMessages : msg.to = BotName("comp", 12) => ~ Obeys(2, msg)
=============================================================================

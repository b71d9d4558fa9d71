-------------------------------- MODULE Wire --------------------------------
(***************************************************************************)
(* What the packets of the game keep of the game (protocol.ts).  The web   *)
(* client and the bots see the game only as deserializeGameState returns   *)
(* it from what serializeGameState wrote: flags are bits of a byte, shares *)
(* of a maximum are numbers of one or two bytes, a target that is missing  *)
(* is 255, dead ships are not there at all, and a planet that the team has *)
(* never scanned has no owner.  Positions, which are rounded to 16 bits    *)
(* and blurred for a cloaked enemy, are left out.                          *)
(***************************************************************************)
EXTENDS Integers

LOCAL AtMost(a, b) == IF a <= b THEN a ELSE b
Bit(b, weight) == IF b THEN weight ELSE 0
HasBit(byte, weight) == (byte \div weight) % 2 = 1
\* Math.round((x / max) * top)
Share(x, max, top) == (2 * x * top + max) \div (2 * max)
FuelTop == 65535

\* AlertStatus, which depends on the distance of the nearest enemy
Alerts == 0 .. 2

------------------------------------------------------------------------------
(* Ships *)

\* Which ships are in the packet
IsSent(status) == status # "dead"

\* The first flags byte: shields, repair mode, cloak, alert status (2 bits), orbiting,
\* bombing, tractoring
PackFlags(shields, repair, cloaked, alert, orbiting, bombing, tractoring) ==
  Bit(shields, 1) + Bit(repair, 2) + Bit(cloaked, 4) + 8 * (alert % 4)
  + Bit(orbiting, 32) + Bit(bombing, 64) + Bit(tractoring, 128)
PackFlags2(pressoring, beaming) == Bit(pressoring, 1) + 2 * (beaming % 4)

UnpackFlags(byte) ==
  [shields |-> HasBit(byte, 1), repair |-> HasBit(byte, 2), cloaked |-> HasBit(byte, 4),
   alert |-> (byte \div 8) % 4, orbiting |-> HasBit(byte, 32), bombing |-> HasBit(byte, 64),
   tractoring |-> HasBit(byte, 128)]
UnpackFlags2(byte) == [pressoring |-> HasBit(byte, 1), beaming |-> (byte \div 2) % 4]

\* A ship of Helm in the packet, and read from it
PackShip(S, alert, maxFuel) ==
  [fuel |-> Share(S.fuel, maxFuel, FuelTop),
   flags |-> PackFlags(S.shields, S.repair, S.cloaked, alert, S.orbit # "none", S.bombing, S.tractor),
   flags2 |-> PackFlags2(S.pressor, S.beaming)]
UnpackShip(p) ==
  LET f == UnpackFlags(p.flags)
      g == UnpackFlags2(p.flags2)
  IN  [fuel |-> p.fuel, shields |-> f.shields, repair |-> f.repair, cloaked |-> f.cloaked,
       orbiting |-> f.orbiting, bombing |-> f.bombing, tractoring |-> f.tractoring,
       pressoring |-> g.pressoring, beaming |-> g.beaming]

\* What only the recipient is told, of its own ship (in any state but dead); the counts
\* of a burnout are one here
SelfExtra(armies, engines, weapons, tmode) ==
  [armies |-> armies, engineBurnout |-> engines, weaponBurnout |-> weapons, tmode |-> tmode]
PackSelf(S, armies, tmode) ==
  IF S.alive THEN SelfExtra(AtMost(armies, 255), Bit(S.burnout, 1), Bit(S.jammed, 1), Bit(tmode, 1))
  ELSE SelfExtra(0, 0, 0, 0)
UnpackSelf(x) == [x EXCEPT !.tmode = @ # 0]

------------------------------------------------------------------------------
(* Planets *)

\* What a team knows of a planet; scanned is "never" (lastScannedTick < 0), "before"
\* or "now" (in this tick or the last)
Knowledge(team, armies, scanned) == [team |-> team, armies |-> armies, scanned |-> scanned]

\* The planet as the packet tells it
SeenPlanet(k) ==
  IF k.scanned = "never"
  THEN [owner |-> "nobody", armies |-> 0, visibility |-> "UNKNOWN"]
  ELSE [owner |-> k.team, armies |-> AtMost(k.armies, 255),
        visibility |-> IF k.scanned = "now" THEN "FRESH" ELSE "STALE"]

------------------------------------------------------------------------------
(* Inputs *)

\* serializeInput and deserializeInput: a value travels in two bytes
Received(c) == [c EXCEPT !.value = @ % 65536]
=============================================================================

----------------------------- MODULE Positions -----------------------------
(***************************************************************************)
(* A flight that squitters, a receiver that hears some of it, and what the *)
(* parser (ModesParser), the position decoders (Cpr) and update_position   *)
(* of tracking/tracker.rs make of it.  The transponder is external: it     *)
(* encodes by the definition of compact position reporting.  Frames are    *)
(* lost by the flight moving on without one of them being received.        *)
(***************************************************************************)
EXTENDS ModesParser, Cpr

CONSTANTS
  Flights,        (* by name                                               *)
  FlightOf(_),    (* where a flight is at first, its moves, and a receiver *)
  Remarks,        (* what it can say beside its position                   *)
  MaxSteps        (* bound on moves and frames                             *)

VARIABLES
  flight,
  place,      (* latitude and longitude of the flight, in the units of Cpr *)
  steps,
  cpr,        (* cpr_even_lat, ... of the Aircraft: the two stored frames  *)
  origin,     (* history: where each of the two frames was sent            *)
  relative,   (* result of the relative decode of the last frame           *)
  global,     (* result of the decode of both frames, after the last frame *)
  latest,     (* history: the format of the last frame                     *)
  remark      (* history: what was said last, and what the parser read     *)

LonCircle == 240 * Res

ASSUME StepsAssumption == MaxSteps \in Nat

(* A flight begins somewhere on the globe.                                 *)
ASSUME FlightsAssumption ==
  \A f \in Flights :
    /\ FlightOf(f).start \in (-Quarter .. Quarter) \X (-(LonCircle \div 2) .. LonCircle \div 2 - 1)
    /\ FlightOf(f).moves \subseteq Int \X Int
    /\ FlightOf(f).receiver \in Int \X Int

(* What can be said: a squawk has four octal digits, a name no blanks at   *)
(* its ends, and the characters are those of the six bit code but for @.   *)
ASSUME RemarksAssumption ==
  \A r \in Remarks :
    \/ r[1] = "altitude" /\ r[2] \in Nat /\ r[2] < 2 ^ 11
    \/ r[1] = "squawk" /\ r[2] \in [1 .. 4 -> 0 .. 7]
    \/ r[1] = "emergency" /\ r[2] \in 0 .. 7 /\ r[3] \in [1 .. 4 -> 0 .. 7]
    \/ r[1] = "callsign" /\ \E n \in 1 .. 8 : r[2] \in [1 .. n -> 1 .. 63] /\ Space \notin {r[2][1], r[2][n]}
    \/ r[1] = "speed" /\ \A i \in {2, 3} : r[i] \in Int /\ Magnitude(r[i]) + 1 < 2 ^ 10

vars == <<flight, place, steps, cpr, origin, relative, global, latest, remark>>

Airborne == 4
Surface  == 1

Wrapped(lon) == ((lon + LonCircle \div 2) % LonCircle) - LonCircle \div 2

R == FlightOf(flight).receiver

-----------------------------------------------------------------------------
(* The transponder.                                                        *)

(* The bits first to last of a message, to carry a number.                 *)
Put(n, first, last) == {b \in first .. last : (n \div 2 ^ (last - b)) % 2 = 1}

YZ(lat, fflag, scale) ==
  LET step == LatStep(fflag, scale)
  IN  (2 * (lat % (step * Res)) + step) \div (2 * step)

(* The latitude that a receiver will decode.                               *)
Encoded(lat, fflag, scale) ==
  LET step == LatStep(fflag, scale) IN step * (YZ(lat, fflag, scale) + Res * (lat \div (step * Res)))

XZ(p, fflag, scale) ==
  LET zones == cpr_n_func(Encoded(p[1], fflag, scale), fflag)
      width == 60 * scale * Res
  IN  (((p[2] * zones) % width) + 30 * scale) \div (60 * scale)

Frame(p, fflag, scale) == <<YZ(p[1], fflag, scale) % Res, XZ(p, fflag, scale) % Res>>

(* A squitter of type 11 with a position, the altitude not available.      *)
PositionMe(p, fflag) ==
  LET f == Frame(p, fflag, Airborne)
  IN  Put(11, 0, 4) \cup Put(fflag, 21, 21) \cup Put(f[1], 22, 38) \cup Put(f[2], 39, 55)

Digits(squawk) ==   (* C1 A1 C2 A2 C4 A4 - B1 D1 B2 D2 B4 D4                *)
  LET bit(digit, n) == (squawk[digit] \div n) % 2
      pulses == <<bit(3, 1), bit(1, 1), bit(3, 2), bit(1, 2), bit(3, 4), bit(1, 4), 0,
                  bit(2, 1), bit(4, 1), bit(2, 2), bit(4, 2), bit(2, 4), bit(4, 4)>>
  IN  {i \in 0 .. 12 : pulses[i + 1] = 1}

(* A name is sent as eight characters.                                     *)
Padded(name) == [i \in 1 .. 8 |-> IF i <= Len(name) THEN name[i] ELSE Space]

(* The bits of a message about what a remark says.                         *)
Message(r) ==
  CASE r[1] = "altitude" ->      \* in steps of 25 ft from -1000 ft
         Shifted(Put(11, 0, 4) \cup Put(r[2] \div 16, 8, 14) \cup {15} \cup Put(r[2] % 16, 16, 19), 32) \cup Put(17, 0, 4)
    [] r[1] = "squawk"   -> Shifted(Digits(r[2]), 19) \cup Put(5, 0, 4)
    [] r[1] = "emergency" ->
         Shifted(Put(28, 0, 4) \cup {7} \cup Put(r[2], 8, 10) \cup Shifted(Digits(r[3]), 11), 32) \cup Put(17, 0, 4)
    [] r[1] = "callsign" ->
         Shifted(Put(4, 0, 4) \cup UNION {Put(Padded(r[2])[i], 2 + 6 * i, 7 + 6 * i) : i \in 1 .. 8}, 32) \cup Put(17, 0, 4)
    [] r[1] = "speed"    ->      \* east and north, in knots
         Shifted(Put(19, 0, 4) \cup {7} \cup Put(IF r[2] < 0 THEN 1 ELSE 0, 13, 13) \cup Put(Magnitude(r[2]) + 1, 14, 23)
                   \cup Put(IF r[3] < 0 THEN 1 ELSE 0, 24, 24) \cup Put(Magnitude(r[3]) + 1, 25, 34), 32) \cup Put(17, 0, 4)

-----------------------------------------------------------------------------
(* update_position: the frame is stored, and decoded relative to the       *)
(* receiver and, with the other one, globally, as airborne.                *)

Stored(m) ==
  IF m.cpr_odd THEN [cpr EXCEPT !.odd = <<m.cpr_lat, m.cpr_lon>>]
               ELSE [cpr EXCEPT !.even = <<m.cpr_lat, m.cpr_lon>>]

GlobalDecode(stored, fflag) ==
  IF stored.even # <<0, 0>> /\ stored.odd # <<0, 0>>
  THEN decode_cpr_airborne(stored.even, stored.odd, fflag)
  ELSE None

RelativeDecode(m, fflag) ==
  IF R # <<0, 0>>
  THEN decode_cpr_relative(R, <<m.cpr_lat, m.cpr_lon>>, fflag, IF m.cpr_surface THEN Surface ELSE Airborne)
  ELSE None

-----------------------------------------------------------------------------
Init ==
  /\ flight \in Flights
  /\ place = FlightOf(flight).start
  /\ steps = 0
  /\ cpr = [even |-> <<0, 0>>, odd |-> <<0, 0>>]
  /\ origin = [even |-> <<>>, odd |-> <<>>]
  /\ relative = None
  /\ global = None
  /\ latest = "even"
  /\ remark = <<>>

(* A step to another latitude and longitude, which wraps around.           *)
Fly ==
  /\ steps < MaxSteps
  /\ steps' = steps + 1
  /\ \E move \in FlightOf(flight).moves :
       /\ InRange(place[1] + move[1])
       /\ place' = <<place[1] + move[1], Wrapped(place[2] + move[2])>>
  /\ UNCHANGED <<flight, cpr, origin, relative, global, latest, remark>>

(* A frame is sent and received.                                           *)
Send ==
  /\ steps < MaxSteps
  /\ steps' = steps + 1
  /\ \E format \in {"even", "odd"} :
       \E m \in {Squitter(PositionMe(place, IF format = "odd" THEN 1 ELSE 0))} :
         \E stored \in {Stored(m)}, fflag \in {IF m.cpr_odd THEN 1 ELSE 0} :
           /\ cpr' = stored
           /\ relative' = RelativeDecode(m, fflag)
           /\ global' = GlobalDecode(stored, fflag)
           /\ origin' = [origin EXCEPT ![format] = place]
           /\ latest' = format
  /\ UNCHANGED <<flight, place, remark>>

(* Something else is said, by a flight that does nothing but that.         *)
Say ==
  /\ steps < MaxSteps /\ FlightOf(flight).moves = {}
  /\ steps' = MaxSteps
  /\ \E r \in Remarks :
       remark' = <<r, parse_modes_message(Message(r), IF r[1] = "squawk" THEN 56 ELSE 112)>>
  /\ UNCHANGED <<flight, place, cpr, origin, relative, global, latest>>

Next == Fly \/ Send \/ Say

Spec == Init /\ [][Next]_vars

-----------------------------------------------------------------------------
(* A decoded position is where the frame was sent, up to half a step of    *)
(* its encoding.                                                           *)
IsAt(fix, p, scale) ==
  /\ Magnitude(fix.lat - p[1]) <= 30 * scale
  /\ LET circle == 240 * fix.zones * Res
         off    == (60 * fix.lon - fix.zones * p[2]) % circle
     IN  off <= 30 * scale \/ off >= circle - 30 * scale

(* The flight moved less between its two frames than half of the           *)
(* difference between an even and an odd zone, quantisation included; in   *)
(* latitude that is 3 nautical miles for airborne positions.               *)
MovedLittle(scale) ==
  LET nl  == cpr_nl(Encoded(origin[latest][1], IF latest = "odd" THEN 1 ELSE 0, scale))
      off == (origin.even[2] - origin.odd[2]) % LonCircle
  IN  /\ Magnitude(origin.even[1] - origin.odd[1]) <= scale * (Res \div 2 - 60)
      /\ nl > 1 => Min({off, LonCircle - off}) <= (30 * scale * Res - 60 * scale * nl) \div (nl * (nl - 1))

SameZones(scale) ==
  cpr_nl(Encoded(origin.even[1], 0, scale)) = cpr_nl(Encoded(origin.odd[1], 1, scale))

(* Frames of zeros count as not received.                                  *)
Known(format, scale) ==
  /\ origin[format] # <<>>
  /\ Frame(origin[format], IF format = "odd" THEN 1 ELSE 0, scale) # <<0, 0>>

Both(scale) == Known("even", scale) /\ Known("odd", scale)

(* Whatever the receiver knows, however the frames alternate and whatever  *)
(* was lost between them, two frames give the position of the last one if  *)
(* the flight moved little, and none if that took it into another band of  *)
(* longitude zones; also at the poles, the equator and 180 degrees.        *)
GlobalDecodeIsRight ==
  Both(Airborne) /\ MovedLittle(Airborne) =>
    IF SameZones(Airborne) THEN global # None /\ IsAt(global, origin[latest], Airborne) ELSE global = None

(* A single frame gives the position of a flight that is less than half a  *)
(* zone away from the receiver, unless 180 degrees lie between them.       *)
RelativeDecodeIsRight ==
  LET p     == origin[latest]
      fflag == IF latest = "odd" THEN 1 ELSE 0
      zones == cpr_n_func(Encoded(p[1], fflag, Airborne), fflag)
  IN  /\ p # <<>> /\ R # <<0, 0>>
      /\ Magnitude(p[1] - R[1]) < (LatStep(fflag, Airborne) * Res) \div 2 - 120
      /\ Magnitude(p[2] - R[2]) <= (120 * Res - 240) \div zones
      => relative # None /\ IsAt(relative, p, Airborne)

(* decode_cpr_surface, too, is right about a flight that moved little and  *)
(* is less than 44 degrees from the receiver: each of the four quarters of *)
(* the circle is recognised.                                               *)
SurfacePairIsRight ==
  LET frame(format) == Frame(origin[format], IF format = "odd" THEN 1 ELSE 0, Surface)
      fix == decode_cpr_surface(R, frame("even"), frame("odd"), IF latest = "odd" THEN 1 ELSE 0)
      off == (origin[latest][2] - R[2]) % LonCircle
  IN  /\ Both(Surface) /\ MovedLittle(Surface) /\ SameZones(Surface)
      /\ Magnitude(origin[latest][1] - R[1]) < (Quarter \div 90) * 44
      /\ off < (LonCircle \div 360) * 44 \/ off > (LonCircle \div 360) * 316
      => fix # None /\ IsAt(fix, origin[latest], Surface)

(* Every altitude in steps of 25 feet, every squawk in a reply and in a    *)
(* status, every emergency, callsign and speed is read as it was sent.     *)
FieldsAreRight ==
  remark # <<>> =>
    LET r == remark[1]
        m == remark[2]
        is(field, value) == field \in DOMAIN m /\ m[field] = value
        squawk(digits)   ==
          LET n == digits[1] * 4096 + digits[2] * 256 + digits[3] * 16 + digits[4]
          IN  IF n = 0 THEN TRUE ELSE "squawk" \in DOMAIN m /\ Number(m.squawk) = n
    IN  CASE r[1] = "altitude"  -> is("baro_alt", 25 * r[2] - 1000)
          [] r[1] = "squawk"    -> squawk(r[2])
          [] r[1] = "emergency" -> squawk(r[3]) /\ (r[2] \in 1 .. 6 => is("emergency", r[2]))
          [] r[1] = "callsign"  -> is("callsign", r[2])
          [] r[1] = "speed"     -> is("gs", <<r[2], r[3]>>)

=============================================================================

---------------------------- MODULE ModesParser ----------------------------
(***************************************************************************)
(* What parse_modes_message makes of the bits of a message                 *)
(* (modes/parser.rs, modes/mode_ac.rs, modes/comm_b.rs).  Checksum, repair *)
(* and addresses are in Demod.                                             *)
(*                                                                         *)
(* A message is the set of its bits that are 1, numbered from 0 as they    *)
(* are sent; a field of it is a set of exponents, the bits of a number.    *)
(* What a message says is a record that has just the fields it sets.       *)
(***************************************************************************)
EXTENDS Integers, Sequences, FiniteSetsExt, SequencesExt

INVALID_ALTITUDE == -9999

Nothing == <<>>

(* The fields of two records, the left one's where both have one.          *)
Joined(f, g) == [x \in DOMAIN f \cup DOMAIN g |-> IF x \in DOMAIN f THEN f[x] ELSE g[x]]

Exponents(msg, first, last) == {last - b : b \in msg \cap (first .. last)}

Shifted(bits, by) == {x + by : x \in bits}

Number(bits) == MapThenSumSet(LAMBDA x : 2 ^ x, bits)

Field(msg, first, last) == Number(Exponents(msg, first, last))

(* The ME and MB fields begin at byte 4.                                   *)
ME(msg) == Shifted(msg \cap (32 .. 87), -32)

-----------------------------------------------------------------------------
(* Identity codes and altitudes.                                           *)

(* Where decode_id13 puts the pulses of a 13-bit code in the hex digits of *)
(* a squawk.                                                               *)
Pulse == [x \in (0 .. 12) \ {6} |-> <<2, 10, 1, 9, 0, 8, 0, 14, 6, 13, 5, 12, 4>>[x + 1]]

decode_id13_A2C4(id) ==             \* mutant: two masks swapped
  {Pulse[CASE x = 9 -> 8 [] x = 8 -> 9 [] OTHER -> x] : x \in id \cap DOMAIN Pulse}

decode_id13(id) == {Pulse[x] : x \in id \cap DOMAIN Pulse}

mode_a_to_mode_c(code) ==
  LET digit(four, two, one) ==
        Number({x \in 0 .. 2 : (IF x = 2 THEN four ELSE IF x = 1 THEN two ELSE one) \in code})
  IN  IF {0, 8, 1} \subseteq code \/ {4, 12, 5} \subseteq code
      THEN INVALID_ALTITUDE
      ELSE (digit(5, 12, 4) * 5 + digit(1, 8, 0) - 10) * 100

(* The altitude of a surveillance reply, 13 bits.                          *)
decode_altitude(ac) ==
  LET n == Number(Shifted(ac \cap (0 .. 5), 1) \cup Shifted(ac \cap (6 .. 11), -6))
  IN  CASE 6 \in ac           -> INVALID_ALTITUDE
        [] ac \cap {6, 4} = {4} -> (n - 10) * 100
        [] ac \cap {6, 4} = {}  -> mode_a_to_mode_c(decode_id13(ac))

(* The altitude of a squitter, 12 bits.                                    *)
SquitterAltitude(alt) ==
  IF 4 \in alt
  THEN Number(Shifted(alt \cap (5 .. 11), -1) \cup (alt \cap (0 .. 3))) * 25 - 1000
  ELSE mode_a_to_mode_c(decode_id13(Shifted(alt \cap (6 .. 11), 1) \cup (alt \cap (0 .. 5))))

Altitude(field, value) ==
  IF field = {} \/ value = INVALID_ALTITUDE THEN Nothing ELSE [baro_alt |-> value]

Squawk(id) == IF id = {} THEN Nothing ELSE [squawk |-> decode_id13(id)]

-----------------------------------------------------------------------------
(* The kinds of squitters.                                                 *)

Space == 32

Trimmed(chars) ==
  LET ink == {i \in DOMAIN chars : chars[i] # Space}
  IN  IF ink = {} THEN <<>> ELSE SubSeq(chars, Min(ink), Max(ink))

(* Characters of six bits up to the first that is 0, an @.                 *)
Callsign(me, first, count) ==
  LET chars == [i \in 1 .. count |-> Field(me, first + 6 * (i - 1), first + 6 * i - 1)]
      used  == SelectInSeq(chars, LAMBDA c : c = 0)
  IN  Trimmed(IF used = 0 THEN chars ELSE SubSeq(chars, 1, used - 1))

Identification(me) ==
  IF Callsign(me, 8, 8) = <<>> THEN Nothing ELSE [callsign |-> Callsign(me, 8, 8)]

(* The first code of each range of speeds, the speed it begins with and    *)
(* how much one code is, in 96ths of a knot.                               *)
Ranges == <<<<2, 12, 12>>, <<9, 96, 24>>, <<13, 192, 48>>, <<39, 1440, 96>>, <<94, 6720, 192>>, <<109, 9600, 480>>>>

decode_movement_v0(code) ==
  CASE code \in {0, 1} \/ code >= 125 -> 0
    [] code = 124                     -> 17280
    [] code \in 2 .. 123              ->
         LET r == Ranges[Max({i \in DOMAIN Ranges : Ranges[i][1] <= code})]
         IN  r[2] + (code - r[1]) * r[3] + r[3] \div 2

SurfacePosition(me) ==
  LET movement == Field(me, 48, 53)
  IN  Joined([cpr_surface |-> TRUE, cpr_lat |-> Field(me, 14, 30), cpr_lon |-> Field(me, 31, 47), cpr_odd |-> 5 \in me,
              airground |-> IF 55 \in me THEN "ground" ELSE "airborne"],
             IF movement = 0 THEN Nothing ELSE [gs |-> decode_movement_v0(movement)])

AirbornePosition(me) ==
  Joined([cpr_surface |-> FALSE, cpr_lat |-> Field(me, 22, 38), cpr_lon |-> Field(me, 39, 55), cpr_odd |-> 21 \in me],
         Altitude(Exponents(me, 8, 19), SquitterAltitude(Exponents(me, 8, 19))))

Signed(negative, n) == IF negative THEN -n ELSE n

(* Vertical rate and height difference, read from where the parser takes   *)
(* them.                                                                   *)
RateAndDelta(me) ==
  LET rate  == Number(Shifted(Exponents(me, 33, 36), 6) \cup Exponents(me, 40, 45))
      delta == Field(me, 46, 52)
  IN  Joined(IF rate = 0 THEN Nothing ELSE [geom_rate |-> Signed(32 \in me, (rate - 1) * 64)],
             IF delta = 0 THEN Nothing ELSE [geom_delta |-> Signed(45 \in me, (delta - 1) * 25)])

(* Speed over ground; its size and direction are left as the two           *)
(* components, east and north.                                             *)
GroundSpeed(me, times) ==
  LET ew == Field(me, 14, 23)
      ns == Field(me, 25, 34)
  IN  IF ew = 0 \/ ns = 0
      THEN Nothing
      ELSE [gs |-> <<Signed(13 \in me, (ew - 1) * times), Signed(24 \in me, (ns - 1) * times)>>]

Airspeed(me, times) ==
  LET speed == Field(me, 25, 34)
  IN  Joined(IF 13 \in me THEN [track |-> Field(me, 14, 23)] ELSE Nothing,
             CASE speed = 0                 -> Nothing
               [] speed # 0 /\ 24 \in me    -> [tas |-> (speed - 1) * times]
               [] speed # 0 /\ 24 \notin me -> [ias |-> (speed - 1) * times])

AirborneVelocity(me, mesub) ==
  Joined([nac_v |-> Field(me, 10, 12)],
         CASE mesub \in {1, 2} -> Joined(GroundSpeed(me, IF mesub = 1 THEN 1 ELSE 4), RateAndDelta(me))
           [] mesub \in {3, 4} -> Joined(Airspeed(me, IF mesub = 3 THEN 1 ELSE 4), RateAndDelta(me))
           [] OTHER            -> Nothing)

TargetState(me) ==
  IF 8 \in me THEN [mcp_altitude |-> Field(me, 9, 19) * 16] ELSE Nothing

AircraftStatus(me, metype, mesub) ==
  CASE metype = 28 /\ mesub = 7         -> Squawk(Exponents(me, 8, 20))
    [] metype \in {28, 31} /\ mesub = 1 ->
         Joined(IF Field(me, 8, 10) \in 1 .. 6 THEN [emergency |-> Field(me, 8, 10)] ELSE Nothing,
                Squawk(Exponents(me, 11, 23)))
    [] OTHER                            -> Nothing

Squitter(me) ==
  LET metype == Field(me, 0, 4)
      mesub  == Field(me, 5, 7)
  IN  CASE metype \in 1 .. 4       -> Identification(me)
        [] metype \in 5 .. 8       -> SurfacePosition(me)
        [] metype \in 9 .. 18      -> AirbornePosition(me)
        [] metype = 19             -> AirborneVelocity(me, mesub)
        [] metype = 20             -> TargetState(me)
        [] metype \in {21, 28, 31} -> AircraftStatus(me, metype, mesub)
        [] OTHER                   -> Nothing

-----------------------------------------------------------------------------
(* Comm-B replies, and messages as a whole.                                *)

decode_comm_b(mb) ==
  LET bds   == Field(mb, 0, 7)
      empty == mb \cap (8 .. 55) = {}
  IN  CASE bds \in {16, 32}                         -> "AircraftIdent"
        [] bds = 64                                 -> "VerticalIntent"
        [] bds = 80                                 -> "TrackTurn"
        [] bds = 96                                 -> "HeadingSpeed"
        [] bds = 23                                 -> "DatalinkCaps"
        [] bds = 24                                 -> "GicbCaps"
        [] bds = 128                                -> "MeteorologicalRoutine"
        [] bds = 48 /\ ~empty                       -> "AcasRA"
        [] OTHER                                    -> IF empty THEN "EmptyResponse" ELSE "Unknown"

(* Seven characters: the first six bits after the register number are not  *)
(* looked at.                                                              *)
CommB(mb) ==
  Joined([commb_format |-> decode_comm_b(mb)],
         IF decode_comm_b(mb) = "AircraftIdent" THEN [callsign |-> Callsign(mb, 14, 7)] ELSE Nothing)

(* A Mode A reply: 16 bits, of which the code is the first 12.             *)
ModeAC(msg) ==
  LET modea == Exponents(msg, 0, 11)
  IN  [squawk |-> modea \ {3, 7, 11, 15}, addr |-> Number((modea \cap (0 .. 6)) \cup {24})]

AirGround(msg) ==
  CASE Field(msg, 5, 7) = 4 -> [airground |-> "ground"]
    [] Field(msg, 5, 7) = 5 -> [airground |-> "airborne"]
    [] OTHER                -> Nothing

ParseDf(msg, df) ==
  LET ac == Exponents(msg, 19, 31)
  IN  CASE df \in {0, 4, 16} -> Altitude(ac, decode_altitude(ac))
        [] df \in {5, 21}    -> [squawk |-> decode_id13(ac)]
        [] df = 20           -> Joined(Altitude(ac, decode_altitude(ac)), CommB(ME(msg)))
        [] df \in {17, 18}   -> Squitter(ME(msg))
        [] OTHER             -> Nothing

parse_modes_message(msg, msgbits) ==
  CASE msgbits = 16         -> ModeAC(msg)
    [] msgbits \in {56, 112} -> Joined(ParseDf(msg, Field(msg, 0, 4)), AirGround(msg))

=============================================================================

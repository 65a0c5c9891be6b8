-------------------------------- MODULE Cpr --------------------------------
(***************************************************************************)
(* The three position decoders of cpr/decode.rs, in integers and at their  *)
(* full resolution.                                                        *)
(*                                                                         *)
(* A latitude is counted in units of which 60 * 59 * Res make a quarter of *)
(* a circle, so that a step of an even and of an odd zone are whole        *)
(* numbers of units.  A decoded longitude is a pair: turns, counted in     *)
(* units of which zones * Res make a quarter.  A given longitude is        *)
(* counted in units of which 60 * Res make a quarter.                      *)
(*                                                                         *)
(* scale is 4 for airborne positions, whose zones divide the circle, and 1 *)
(* for surface positions, whose zones divide a quarter of it.              *)
(***************************************************************************)
EXTENDS Integers, FiniteSets

Res == 2 ^ 17                       \* CPR_RES

Quarter == 60 * 59 * Res            \* 90 degrees of latitude

None == [lat |-> 0, lon |-> 0, zones |-> 0]

Magnitude(n) == IF n < 0 THEN -n ELSE n

(* The latitudes at which the number of longitude zones falls, the numbers *)
(* of cpr_nl in these units.                                               *)
Boundaries ==
  <<53980501, 76446634, 93759258, 108417018, 121386448, 133162649,
    144039411, 154207961, 163801005, 172915087, 181623042, 189981421,
    198035175, 205820741, 213368141, 220702465, 227844942, 234813720,
    241624471, 248290834, 254824774, 261236860, 267536482, 273732035,
    279831058, 285840357, 291766104, 297613913, 303388919, 309095824,
    314738955, 320322303, 325849555, 331324130, 336749198, 342127708,
    347462400, 352755821, 358010337, 363228137, 368411238, 373561482,
    378680526, 383769826, 388830610, 393863827, 398870078, 403849497,
    408801567, 413724810, 418616251, 423470443, 428277557, 433019282,
    437658850, 442111934, 446132985, 448528384>>

cpr_nl(lat) == 59 - Cardinality({i \in DOMAIN Boundaries : Boundaries[i] <= Magnitude(lat)})

cpr_n_func(lat, fflag) == IF cpr_nl(lat) - fflag < 1 THEN 1 ELSE cpr_nl(lat) - fflag

(* One step of a latitude: the 360 / 60 or 360 / 59 degrees of a zone have *)
(* Res of them.                                                            *)
LatStep(fflag, scale) == scale * (IF fflag = 0 THEN 59 ELSE 60)

(* The index of the zone, from the difference of the two frames.           *)
LatIndex(even, odd) == (59 * even[1] - 60 * odd[1] + Res \div 2) \div Res

LatOf(even, odd, fflag, scale) ==
  IF fflag = 0
  THEN LatStep(0, scale) * (Res * (LatIndex(even, odd) % 60) + even[1])
  ELSE LatStep(1, scale) * (Res * (LatIndex(even, odd) % 59) + odd[1])

(* The longitude in the frame's own zones, from the latitude.              *)
LonOf(even, odd, fflag, lat, scale) ==
  LET nl == cpr_nl(lat)
      m  == (even[2] * (nl - 1) - odd[2] * nl + Res \div 2) \div Res
  IN  scale * (Res * (m % cpr_n_func(lat, fflag)) + (IF fflag = 0 THEN even ELSE odd)[2])

(* A longitude in -180 .. 180 degrees.                                     *)
Renormalized(lon, zones) == ((lon + 2 * zones * Res) % (4 * zones * Res)) - 2 * zones * Res

InRange(lat) == -Quarter <= lat /\ lat <= Quarter

Normalized(lat) == IF lat >= 3 * Quarter THEN lat - 4 * Quarter ELSE lat

decode_cpr_airborne_AnyZone(even, odd, fflag) ==   \* mutant: zones need not agree
  LET lat(f) == Normalized(LatOf(even, odd, f, 4))
      zones  == cpr_n_func(lat(fflag), fflag)
  IN  IF \/ even = <<0, 0>> /\ odd = <<0, 0>>
         \/ ~InRange(lat(0)) \/ ~InRange(lat(1))
      THEN None
      ELSE [lat |-> lat(fflag), zones |-> zones,
            lon |-> Renormalized(LonOf(even, odd, fflag, lat(fflag), 4), zones)]

decode_cpr_airborne(even, odd, fflag) ==
  LET lat(f) == Normalized(LatOf(even, odd, f, 4))
      zones  == cpr_n_func(lat(fflag), fflag)
  IN  IF \/ even = <<0, 0>> /\ odd = <<0, 0>>
         \/ ~InRange(lat(0)) \/ ~InRange(lat(1))
         \/ cpr_nl(lat(0)) # cpr_nl(lat(1))
      THEN None
      ELSE [lat |-> lat(fflag), zones |-> zones,
            lon |-> Renormalized(LonOf(even, odd, fflag, lat(fflag), 4), zones)]

(* The quarter of a latitude that is near the reference.                   *)
LatQuarter(lat, ref) ==
  CASE lat = 0 /\ ref < -(Quarter \div 2) -> -Quarter
    [] lat = 0 /\ ref > Quarter \div 2    -> Quarter
    [] lat # 0 /\ lat - ref > Quarter \div 2 -> lat - Quarter
    [] OTHER                              -> lat

LonQuarter_Lower(lon, zones, ref) ==               \* mutant: the quarter below
  lon + zones * Res * ((ref * zones - 60 * lon) \div (60 * zones * Res))

(* The quarter of a longitude that is near the reference.                  *)
LonQuarter(lon, zones, ref) ==
  lon + zones * Res * ((ref * zones - 60 * lon + 30 * zones * Res) \div (60 * zones * Res))

decode_cpr_surface(ref, even, odd, fflag) ==
  LET lat(f) == LatQuarter(LatOf(even, odd, f, 1), ref[1])
      zones  == cpr_n_func(lat(fflag), fflag)
      lon    == LonQuarter(LonOf(even, odd, fflag, lat(fflag), 1), zones, ref[2])
  IN  IF \/ ~InRange(lat(0)) \/ ~InRange(lat(1))
         \/ cpr_nl(lat(0)) # cpr_nl(lat(1))
      THEN None
      ELSE [lat |-> lat(fflag), zones |-> zones, lon |-> Renormalized(lon, zones)]

NearestZone_Same(ref, offset, w) == ref \div w    \* mutant: always the zone of the receiver

(* The index of the zone of width w that puts the frame's offset nearest   *)
(* to the reference.                                                       *)
NearestZone(ref, offset, w) == ref \div w + (2 * (ref % w) + w - 2 * offset) \div (2 * w)

RelativeLat(ref, frame, fflag, scale) ==
  LET step == LatStep(fflag, scale)
  IN  Normalized(step * (Res * NearestZone(ref[1], step * frame[1], step * Res) + frame[1]))

RelativeLon(ref, frame, zones, scale) ==
  LET lon == scale * (Res * NearestZone(ref[2] * zones, 60 * scale * frame[2], 60 * scale * Res) + frame[2])
  IN  IF lon > 2 * zones * Res THEN lon - 4 * zones * Res ELSE lon

(* A single frame, near a reference: no further than half a zone away.     *)
decode_cpr_relative(ref, frame, fflag, scale) ==
  LET lat   == RelativeLat(ref, frame, fflag, scale)
      zones == cpr_n_func(lat, fflag)
      lon   == RelativeLon(ref, frame, zones, scale)
  IN  IF \/ ~InRange(lat)
         \/ 2 * Magnitude(lat - ref[1]) > LatStep(fflag, scale) * Res
         \/ Magnitude(60 * lon - zones * ref[2]) > 30 * scale * Res
      THEN None
      ELSE [lat |-> lat, lon |-> lon, zones |-> zones]

=============================================================================

---------------------------- MODULE MCPositions ----------------------------
(***************************************************************************)
(* An instance of Positions for TLC.  A flight is named by its latitude    *)
(* and longitude, both by name, and by where its receiver is.              *)
(***************************************************************************)
EXTENDS Positions

(* Next to the equator, to boundaries of latitude zones (6 and 360 / 59    *)
(* degrees), of bands of longitude zones, and to the poles.                *)
Latitudes ==
  [equator |-> 1, below |-> -100, even6 |-> 6 * (Quarter \div 90) - 200, odd6 |-> 4 * 60 * Res + 50, band59 |-> Boundaries[1] - 130000,
   south |-> -Boundaries[30] + 70000, north |-> 52 * (Quarter \div 90) + 12345, band2 |-> Boundaries[57] - 100000,
   cap |-> Boundaries[58] + 130000, pole |-> Quarter, antarctic |-> -Quarter + 300000]

Longitudes == [greenwich |-> 0, west |-> -77, east |-> 85 * (LonCircle \div 360) + 1, date |-> LonCircle \div 2 - 1, zone |-> -(LonCircle \div 59) * 3]

(* How far a flight may move, and more; in latitude and in longitude.      *)
Moves ==
  {<<a, b>> : a \in {-261904, 0, 261904}, b \in {0, 4500}} \cup {<<262400, 0>>, <<65400, -1148>>, <<-1000, 2>>, <<30000000, 0>>, <<0, 4000000>>}

(* The receiver: beside the flight, about half a zone away, with no        *)
(* position set, or far away.                                              *)
Receivers == [near |-> <<-50000, 300>>, half |-> <<15400000, -250000>>, far |-> <<-180000000, 3700000>>]

Clip(lat) == IF lat > Quarter THEN Quarter ELSE IF lat < -Quarter THEN -Quarter ELSE lat

MCFlights == {<<a, b, c>> : a \in DOMAIN Latitudes, b \in DOMAIN Longitudes, c \in DOMAIN Receivers \cup {"unset"}}
               \cup {<<"equator", "greenwich", "mute">>}

MCFlightOf(f) ==
  [start    |-> <<Latitudes[f[1]], Longitudes[f[2]]>>,
   moves    |-> IF f[3] = "mute" THEN {} ELSE Moves,
   receiver |-> IF f[3] \in {"unset", "mute"} THEN <<0, 0>>
                ELSE <<Clip(Latitudes[f[1]] + Receivers[f[3]][1]), Wrapped(Longitudes[f[2]] + Receivers[f[3]][2])>>]

Octal == 0 .. 7

Names == {<<21, 1, 12, 49, 50, 51>>, <<4, 12, 8, 57, 26, 1, 2, 3>>, <<1>>, <<14, 32, 49>>}

MCRemarks ==
  {<<"altitude", n>> : n \in 0 .. 2047}
    \cup {<<"squawk", <<a, b, c, d>>>> : a, b, c, d \in Octal}
    \cup {<<"emergency", e, <<a, b, c, d>>>> : e \in Octal, a, b \in {0, 5}, c, d \in {0, 3, 7}}
    \cup {<<"callsign", n>> : n \in Names}
    \cup {<<"speed", e, n>> : e \in {-1022, -1, 1, 500, 1022}, n \in {-511, -8, 7, 1022}}

=============================================================================
